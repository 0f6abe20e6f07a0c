----------------------------- MODULE MacService -----------------------------
(***************************************************************************)
(* Mac implements RequestService: the request in hand is the operation of  *)
(* a serving state.                                                        *)
(***************************************************************************)
EXTENDS Mac

InHand == state \in Serving

Reports == {"DATA_COMPLETE", "DATA_TIMEOUT", "JOIN_COMPLETE", "JOIN_TIMEOUT",
            "CHIP_ERROR"}

Service == INSTANCE RequestService WITH
    request <- IF InHand THEN op ELSE "NONE",
    limit   <- IF InHand /\ op \in DataOps THEN NbTrans ELSE 0,
    sent    <- IF InHand THEN sent ELSE 0,
    report  <- out \cap Reports

\* Every request the machine accepts is carried out as the interface promises:
\* one at a time, transmitted no more often than its nbTrans, ended by exactly
\* one report, with DATA_TIMEOUT only after the last transmission.
ImplementsService == Service!Spec
=============================================================================
