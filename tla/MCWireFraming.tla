--------------------------- MODULE MCWireFraming ---------------------------
(***************************************************************************)
(* WireFraming with one message of every shape.                            *)
(***************************************************************************)
EXTENDS WireFraming

Msg(kind, payload) == [kind |-> kind, payload |-> payload]

\* Indices and offsets that look like keep-alives and headers themselves.
ReadInFull ==
  { Msg("KeepAlive", <<>>), Msg("Unknown", <<>>), Msg("UnChoke", <<>>),
    Msg("Have", U32(1)), Msg("BitField", <<128, 0>>), Msg("Port", <<0, 0>>),
    Msg("Request", U32(0) \o U32(1) \o U32(5)),
    Msg("Cancel", U32(1) \o U32(0) \o U32(1)),
    Msg("Piece", U32(1) \o U32(0) \o <<0, 1>>) }

WithSuggestions == { Msg("SuggestPiece", U32(1)), Msg("Have", U32(1)) }

\* A header that arrives in two parts and an update in between are one too many.
CutOrUpdated == { [cuts |-> TRUE, updates |-> FALSE],
                  [cuts |-> FALSE, updates |-> TRUE] }

NoCut == { [cuts |-> FALSE, updates |-> FALSE] }
=============================================================================
