------------------------------ MODULE Session ------------------------------
(***************************************************************************)
(* Sessions, frame counters and nonces over restarts: the session state    *)
(* of src/ldl_mac.c, the join and counter checks of src/ldl_ops.c, the     *)
(* application that saves what the events LDL_MAC_JOIN_COMPLETE and        *)
(* LDL_MAC_SESSION_UPDATED give it (porting.md, "Persistent Sessions") and *)
(* a network whose messages are lost, late, repeated and reordered.        *)
(*                                                                         *)
(* A restart comes between any two steps, also between the two events of   *)
(* one call of LDL_MAC_process().  A request is in progress or not: its    *)
(* transmissions and windows are those of Mac.  Keys are the nonces they   *)
(* are derived from; a MIC is right when it was made over the same values. *)
(***************************************************************************)
EXTENDS Integers, Sequences

CONSTANTS
    Epoch,        \* frame counters a 16 bit field tells apart (2^16)
    Versions,     \* LoRaWAN versions the network offers (optNeg): {0, 1}
    Rates,        \* values of ctx.rate
    MaxAccepts,   \* bound: join accepts the network sends
    MaxJoins,     \* bound: joins answered
    MaxFrames,    \* bound: data frames built
    MaxDown,      \* bound: counter of a downlink
    MaxRestarts   \* bound: restarts

ASSUME SessionAssumption ==
    /\ Epoch \in Nat \ {0} /\ Versions \subseteq {0, 1}
    /\ Rates # {}
    /\ MaxAccepts \in Nat /\ MaxJoins \in Nat /\ MaxFrames \in Nat
    /\ MaxDown \in Nat /\ MaxRestarts \in Nat

VARIABLES
    ctx,        \* self->ctx, the session
    joinNonce,  \* self->joinNonce: the least the next join accept may carry
    devNonce,   \* self->devNonce
    keys,       \* the session keys of the security module
    op,         \* self->op of the request in progress, or "NONE"
    updated,    \* pushSessionUpdate() is the next thing this call does
    store,      \* what the application has saved
    accepts,    \* the join accepts the network has sent
    frames,     \* the data frames built, in order
    heard,      \* numbers of the confirmed ones the network has received
    answered,   \* history: the frame the last acknowledgement was for, or 0
    highest,    \* history: highest application downlink counter, or -1
    restored,   \* history: was the session in hand restored by a restart?
    unsaved,    \* history: a request ended without pushSessionUpdate()
    joins,      \* history: the keys derived so far
    restarts    \* history: number of restarts

radio    == <<accepts, frames, heard>>
progress == <<answered, highest>>
vars     == <<ctx, joinNonce, devNonce, keys, op, updated, store, radio,
              progress, restored, unsaved, joins, restarts>>

-----------------------------------------------------------------------------
\* LDL_OPS_deriveKeys(): the values the keys depend on.
Keys   == [joinNonce : Nat, devNonce : Nat, version : {0, 1}]
NoKeys == [joinNonce |-> 0, devNonce |-> 0, version |-> 2]

\* struct ldl_mac_session; "of" is history: the join that began it.
Sessions == [joined : BOOLEAN, version : {0, 1}, up : Nat, appDown : Nat,
             nwkDown : Nat, rate : Rates, of : Keys \cup {NoKeys}]

\* What the application keeps over a restart.
Stores == [session : Sessions, joinNonce : Nat, devNonce : Nat,
           keys : Keys \cup {NoKeys}]

\* Data frames carry the low half of the counter; the MIC covers all of it.
Frames == [of : Keys \cup {NoKeys}, counter : Nat]

\* Authentic downlinks: any counter (the network may have sent frames that
\* were lost), on the network's port or not, and the frame acknowledged.
Downlinks ==
    {d \in [of : accepts, network : BOOLEAN, counter : 0..MaxDown,
            ack : heard \cup {0}] : d.ack # 0 => frames[d.ack].of = d.of}

\* The downlink counter of a frame: network data of a 1.1 session has its own.
OwnCounter(s, network) == s.version > 0 /\ network
Down(s, network) == IF OwnCounter(s, network) THEN s.nwkDown ELSE s.appDown

\* deriveDownCounter()
Derive(epoch, low) ==
    LET mine == epoch * Epoch
    IN  IF low < mine THEN mine + Epoch + low ELSE mine + low

\* Defect: the counters are reset, the session stays joined.
ForgottenMutant(s) == [s EXCEPT !.up = 0, !.appDown = 0, !.nwkDown = 0,
                                !.version = 0]

\* restoreDefaults(): a restart without a session, and a session forgotten.
Default(r)   == [joined |-> FALSE, version |-> 0, up |-> 0, appDown |-> 0,
                 nwkDown |-> 0, rate |-> r, of |-> NoKeys]
Forgotten(s) == Default(s.rate)

Init ==
    /\ \E r \in Rates : ctx = Default(r)
    /\ joinNonce = 0 /\ devNonce = 0 /\ keys = NoKeys
    /\ op = "NONE" /\ updated = FALSE
    /\ store = [session |-> ctx, joinNonce |-> 0, devNonce |-> 0,
                keys |-> NoKeys]
    /\ accepts = {} /\ frames = <<>> /\ heard = {}
    /\ answered = 0 /\ highest = -1
    /\ restored = FALSE /\ unsaved = FALSE
    /\ joins = {} /\ restarts = 0

-----------------------------------------------------------------------------
\* The response handler: LDL_MAC_SESSION_UPDATED.
Save(s) == store' = [store EXCEPT !.session = s]

\* pushSessionUpdate() at the end of LDL_MAC_process().
PushSessionUpdate ==
    /\ updated /\ updated' = FALSE
    /\ Save(ctx) /\ unsaved' = FALSE
    /\ UNCHANGED <<ctx, joinNonce, devNonce, keys, op, radio, progress,
                   restored, joins, restarts>>

\* The network answers a join request in any version it likes, with the next
\* of its join nonces.
NetworkAccepts(dn) ==
    \/ UNCHANGED accepts \* the request, or the answer, is lost
    \/ /\ \A a \in accepts : a.devNonce <= dn
       /\ \E v \in Versions, n \in 1..MaxAccepts :
            /\ \A a \in accepts : a.joinNonce < n
            /\ accepts' = accepts \cup
                 {[joinNonce |-> n, devNonce |-> dn, version |-> v]}

\* Defect: the old session is not forgotten.
BeginJoinMutant == UNCHANGED <<ctx, store, unsaved>>

\* LDL_MAC_otaa() forgets the session in hand before it knows whether there
\* is a channel to send the request on.
BeginJoin ==
    IF ctx.joined
      THEN /\ ctx' = Forgotten(ctx) /\ Save(Forgotten(ctx)) /\ unsaved' = FALSE
      ELSE UNCHANGED <<ctx, store, unsaved>>

Otaa ==
    /\ ~updated /\ op = "NONE"
    /\ BeginJoin
    /\ \/ op' = "JOINING" /\ NetworkAccepts(devNonce)
       \/ UNCHANGED <<op, accepts>> \* no channel
    /\ UNCHANGED <<joinNonce, devNonce, keys, updated, frames, heard,
                   progress, restored, joins, restarts>>

\* Defect: the MIC of no join accept covers the nonce of the request.
AcceptableMutant(a) == a.version = 1 => a.joinNonce >= joinNonce

\* LDL_OPS_receiveFrame(), join accept: the MIC of a 1.1 accept covers the
\* nonce of the request, that of a 1.0 accept does not.
Acceptable(a) ==
    a.version = 1 => a.joinNonce >= joinNonce /\ a.devNonce = devNonce

\* Defect: the device uses its nonce again.
NextDevNonceMutant == devNonce

NextDevNonce == devNonce + 1

\* A join accept: the session begins, JOIN_COMPLETE is pushed, upon which the
\* application saves nonces and keys; SESSION_UPDATED is still to come.
JoinAccept(a) ==
    LET new == [joinNonce |-> a.joinNonce, devNonce |-> devNonce,
                version |-> a.version]
    IN
    /\ ~updated /\ op = "JOINING" /\ Acceptable(a)
    /\ devNonce < MaxJoins
    /\ \E r \in Rates : \* with ADR the joining rate is kept
         ctx' = [Default(r) EXCEPT !.joined = TRUE, !.version = a.version,
                                   !.of = new]
    /\ keys' = new
    /\ joinNonce' = a.joinNonce + 1
    /\ devNonce' = NextDevNonce
    /\ store' = [store EXCEPT !.joinNonce = joinNonce', !.devNonce = devNonce',
                              !.keys = new]
    /\ op' = "NONE" /\ updated' = TRUE
    /\ answered' = 0 /\ highest' = -1
    /\ restored' = FALSE
    /\ joins' = joins \cup {new}
    /\ UNCHANGED <<radio, unsaved, restarts>>

NextUp == ctx.up + 1

\* externalDataCommand(): the frame is built and the counter used up, but the
\* session is not pushed.
Data ==
    /\ ~updated /\ op = "NONE" /\ ctx.joined
    /\ Len(frames) < MaxFrames
    /\ op' = "DATA"
    /\ frames' = Append(frames, [of |-> keys, counter |-> ctx.up])
    /\ ctx' = [ctx EXCEPT !.up = NextUp]
    /\ heard' \in {heard, heard \cup {Len(frames')}}
    /\ answered' = 0
    /\ UNCHANGED <<joinNonce, devNonce, keys, updated, store, accepts, highest,
                   restored, unsaved, joins, restarts>>

\* Defect: an acknowledgement is good for any frame.
ConfirmsMutant(d) == TRUE

\* The MIC of a 1.1 acknowledgement covers the counter, in 16 bits, of the
\* frame acknowledged.
Confirms(d) ==
    ctx.version = 1 /\ d.ack # 0 =>
        frames[d.ack].counter % Epoch = (ctx.up - 1) % Epoch

\* LDL_OPS_receiveFrame(), data: right keys, and a MIC over the counter the
\* device derives from the 16 bits it receives.
Authentic(d) ==
    /\ d.of = keys
    /\ Derive(Down(ctx, d.network), d.counter % Epoch) = d.counter
    /\ Confirms(d)

\* LDL_OPS_syncDownCounter()
Synced(s, d) ==
    LET epoch == Derive(Down(s, d.network), d.counter % Epoch) \div Epoch
    IN  IF OwnCounter(s, d.network)
          THEN [s EXCEPT !.nwkDown = epoch % Epoch]
          ELSE [s EXCEPT !.appDown = epoch % Epoch]

Downlink(d) ==
    /\ ~updated /\ op = "DATA" /\ Authentic(d)
    /\ ctx' = Synced(ctx, d)
    /\ op' = "NONE" /\ updated' = TRUE
    /\ answered' = d.ack
    /\ highest' = IF OwnCounter(ctx, d.network) \/ d.counter <= highest
                    THEN highest ELSE d.counter
    /\ UNCHANGED <<joinNonce, devNonce, keys, store, radio, restored, unsaved,
                   joins, restarts>>

\* downlinkMissingHandler(): another trial (a join request sent again may be
\* answered again), or the end; a data request that ends may lower its rate.
Missing ==
    /\ ~updated /\ op # "NONE"
    /\ \/ op = "JOINING" /\ NetworkAccepts(devNonce) /\ UNCHANGED <<op, ctx>>
       \/ op = "DATA" /\ UNCHANGED <<op, ctx, accepts>>
       \/ op' = "NONE" /\ UNCHANGED <<ctx, accepts>>
       \/ /\ op = "DATA" /\ op' = "NONE"
          /\ \E r \in Rates : ctx' = [ctx EXCEPT !.rate = r]
          /\ UNCHANGED accepts
    /\ UNCHANGED <<joinNonce, devNonce, keys, store, frames, heard, progress,
                   restored, joins, restarts>>

\* Defect: the session is not pushed.
SilenceMutant == Missing /\ UNCHANGED <<updated, unsaved>>

\* The second window closed: the session is pushed whatever came of it.
Silence == Missing /\ updated' = TRUE /\ UNCHANGED unsaved

\* A frame was received that is no answer: downlinkMissingHandler() runs at
\* once and the session is not pushed.
BadFrame ==
    /\ Missing
    /\ unsaved' = (unsaved \/ (op = "DATA" /\ op' = "NONE"))
    /\ UNCHANGED updated

\* LDL_MAC_cancel(), or the radio had to be reset.
Abandon ==
    /\ ~updated /\ op # "NONE" /\ op' = "NONE"
    /\ unsaved' = (unsaved \/ op = "DATA")
    /\ UNCHANGED <<ctx, joinNonce, devNonce, keys, updated, store, radio,
                   progress, restored, joins, restarts>>

Forget ==
    /\ ~updated /\ ctx.joined
    /\ op' = "NONE"
    /\ ctx' = Forgotten(ctx) /\ Save(Forgotten(ctx)) /\ unsaved' = FALSE
    /\ UNCHANGED <<joinNonce, devNonce, keys, updated, radio, progress,
                   restored, joins, restarts>>

\* LDL_MAC_setRate() and the setters like it, at any time.
SetRate(r) ==
    /\ ~updated
    /\ ctx' = [ctx EXCEPT !.rate = r] /\ Save(ctx') /\ unsaved' = FALSE
    /\ UNCHANGED <<joinNonce, devNonce, keys, op, updated, radio, progress,
                   restored, joins, restarts>>

\* A restart, and LDL_MAC_init() with what was saved; or without the session,
\* when the application no longer has it.
Restart ==
    /\ restarts < MaxRestarts /\ restarts' = restarts + 1
    /\ \/ ctx' = store.session
       \/ \E r \in Rates : ctx' = Default(r)
    /\ Save(ctx')
    /\ joinNonce' = store.joinNonce /\ devNonce' = store.devNonce
    /\ keys' = store.keys
    /\ op' = "NONE" /\ updated' = FALSE
    /\ answered' = 0 /\ restored' = TRUE
    /\ unsaved' = FALSE
    /\ UNCHANGED <<radio, highest, joins>>

Next ==
    \/ PushSessionUpdate \/ Otaa
    \/ \E a \in accepts : JoinAccept(a)
    \/ Data
    \/ \E d \in Downlinks : Downlink(d)
    \/ Silence \/ BadFrame \/ Abandon \/ Forget
    \/ \E r \in Rates : SetRate(r)
    \/ Restart

Spec == Init /\ [][Next]_vars

-----------------------------------------------------------------------------
TypeOK ==
    /\ ctx \in Sessions /\ store \in Stores
    /\ joinNonce \in Nat /\ devNonce \in Nat /\ keys \in Keys \cup {NoKeys}
    /\ op \in {"NONE", "JOINING", "DATA"} /\ updated \in BOOLEAN
    /\ accepts \subseteq Keys /\ frames \in Seq(Frames) /\ heard \subseteq Nat
    /\ answered \in Nat /\ highest \in Int
    /\ restored \in BOOLEAN /\ unsaved \in BOOLEAN
    /\ joins \subseteq Keys /\ restarts \in Nat

\* A session is only ever used with its own keys, and what the application
\* would restore fits together: JOIN_COMPLETE saves new keys while the saved
\* session is still an older one, which LDL_MAC_otaa() must have ended.
SessionHasItsKeys ==
    /\ ctx.joined => ctx.of = keys
    /\ store.session.joined => store.session.of = store.keys

\* No two joins derive the same keys, whatever join accepts are repeated and
\* wherever the device restarts.
SessionKeysFresh ==
    [][\A a \in accepts : JoinAccept(a) => keys' \notin joins]_vars

\* A 1.1 session is one the network knows: a join accept that arrives again
\* in a later join is refused, before and after a restart.
NetworkKnowsSession == ctx.joined /\ ctx.version = 1 => ctx.of \in accepts

\* No counter is used twice under the same keys as long as the session was
\* not interrupted by a restart.
CountersDistinct ==
    ~restored => \A i, j \in DOMAIN frames :
        frames[i].of = keys /\ frames[i] = frames[j] => i = j

\* When a request is over and was neither abandoned nor ended by a frame that
\* was no answer, the application has the session as it is.
SavedWhenIdle == op = "NONE" /\ ~updated /\ ~unsaved => store.session = ctx

\* In a 1.1 session a late or repeated acknowledgement is not taken for that
\* of the frame in hand, unless 2^16 frames or more lie between them.
AckIsForThisFrame ==
    ctx.version = 1 /\ ~restored /\ answered # 0 =>
        answered = Len(frames) \/ Len(frames) - answered >= Epoch

(***************************************************************************)
(* What the invariants above rest on: IInv is inductive.                   *)
(***************************************************************************)
\* The nonces and the keys are saved as they change.
NoncesSaved == /\ store.joinNonce = joinNonce /\ store.devNonce = devNonce
               /\ store.keys = keys

\* A joined session, in hand or saved, is that of the newest keys.
SessionKnown(s) ==
    s.joined => /\ s.of = keys /\ s.of \in joins /\ s.version = s.of.version
                /\ s.version = 1 => s.of \in accepts

\* Nothing joined is saved while the session in hand is not joined, or while
\* a join is in progress.
StoreFollows == /\ store.session.joined => ctx.joined
                /\ op = "JOINING" => ~ctx.joined
                /\ op = "DATA" => ctx.joined

NoncesGrow == /\ \A k \in joins : k.devNonce < devNonce
              /\ \A i \in DOMAIN frames : frames[i].of \in joins
              /\ heard \subseteq DOMAIN frames

\* The frames of a session are the last ones built, and numbered one by one.
FramesNumbered ==
    ~restored /\ ctx.joined => \A i \in DOMAIN frames :
        frames[i].of = keys => ctx.up - frames[i].counter = Len(frames) + 1 - i

\* No request in progress has changed the session since it was saved.
SavedUnlessData == op # "DATA" /\ ~updated /\ ~unsaved => store.session = ctx

\* No downlink counter ever leaves the first epoch.
FirstEpoch == /\ ctx.appDown = 0 /\ ctx.nwkDown = 0
              /\ store.session.appDown = 0 /\ store.session.nwkDown = 0

IInv == /\ TypeOK /\ NoncesSaved /\ SessionKnown(ctx)
        /\ SessionKnown(store.session) /\ StoreFollows /\ NoncesGrow
        /\ FramesNumbered /\ SavedUnlessData /\ FirstEpoch
        /\ CountersDistinct /\ AckIsForThisFrame

\* porting.md, "Persistent Sessions": an application that saves and restores
\* what the events give it continues its session.
CounterNeverReused ==
    \A i, j \in DOMAIN frames : frames[i] = frames[j] => i = j

\* history.md: "changed uplink and downlink counters to 32 bit".  A downlink
\* with the counter after the highest one accepted is accepted.
NextDownlinkHeard ==
    op = "DATA" => Derive(ctx.appDown, (highest + 1) % Epoch) = highest + 1
=============================================================================
