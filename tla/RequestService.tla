--------------------------- MODULE RequestService ---------------------------
(***************************************************************************)
(* What the MAC promises the application of a request it has accepted, as  *)
(* include/ldl_mac.h describes LDL_MAC_otaa(), LDL_MAC_unconfirmedData()   *)
(* and LDL_MAC_confirmedData() and src/ldl_mac.c carries it out: one       *)
(* request at a time, a bounded number of transmissions, one report at the *)
(* end.  There is no radio here, no timer and no interrupt.                *)
(***************************************************************************)
EXTENDS Naturals

CONSTANT MayCancel   \* may the application abandon a request?

VARIABLES
    request,  \* the request in hand, or "NONE"
    limit,    \* transmissions allowed for it (data requests)
    sent,     \* transmissions begun for it
    report    \* what the last step told the application about it

svars == <<request, limit, sent, report>>

DataRequests == {"DATA_UNCONFIRMED", "DATA_CONFIRMED"}

Init == request = "NONE" /\ limit = 0 /\ sent = 0 /\ report = {}

Accept ==
    /\ request = "NONE"
    /\ request' \in DataRequests \cup {"JOINING"}
    /\ limit' \in IF request' = "JOINING" THEN {0} ELSE 1..15
    /\ sent' = 0 /\ report' = {}

\* A join request goes on for as long as it takes: sent says it was sent.
Transmit ==
    /\ request # "NONE"
    /\ IF request = "JOINING" THEN sent' = 1
                              ELSE sent < limit /\ sent' = sent + 1
    /\ report' = {}
    /\ UNCHANGED <<request, limit>>

End(what) ==
    /\ request' = "NONE" /\ limit' = 0 /\ sent' = 0 /\ report' = what

\* A timeout is reported only when every transmission has been used.
EndData ==
    /\ request \in DataRequests /\ sent > 0
    /\ \/ End({"DATA_COMPLETE"})
       \/ request = "DATA_CONFIRMED" /\ sent = limit /\ End({"DATA_TIMEOUT"})

JoinTimeout ==
    /\ request = "JOINING" /\ sent > 0
    /\ report' = {"JOIN_TIMEOUT"}
    /\ UNCHANGED <<request, limit, sent>>

EndJoin ==
    /\ request = "JOINING" /\ sent > 0
    /\ End({"JOIN_COMPLETE"}) \/ End({"JOIN_TIMEOUT"})

ChipFailed == request # "NONE" /\ sent > 0 /\ End({"CHIP_ERROR"})

Abandoned == MayCancel /\ request # "NONE" /\ End({})

\* Nothing to tell.
Silent == report' = {} /\ UNCHANGED <<request, limit, sent>>

Next == \/ Accept \/ Transmit \/ EndData \/ JoinTimeout \/ EndJoin
        \/ ChipFailed \/ Abandoned \/ Silent

Spec == Init /\ [][Next]_svars
=============================================================================
