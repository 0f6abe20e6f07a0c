--------------------------- MODULE Session_proof ---------------------------
(***************************************************************************)
(* Proofs about Session for every number of restarts, joins and frames,    *)
(* every width of the counters and any order of the network's messages.    *)
(***************************************************************************)
EXTENDS Session, TLAPS

USE DEF radio, progress

-----------------------------------------------------------------------------
(***************************************************************************)
(* Arithmetic and data.                                                    *)
(***************************************************************************)
\* Two numbers with the same low half are at least an epoch apart.
LEMMA SameLowHalf ==
    ASSUME NEW x \in Nat, NEW y \in Nat, x > y, Epoch \in Nat \ {0},
           x % Epoch = y % Epoch
    PROVE  x - y >= Epoch
<1> DEFINE p == x \div Epoch
           q == y \div Epoch
<1>1. /\ p \in Int /\ x = Epoch * p + (x % Epoch)
      /\ q \in Int /\ y = Epoch * q + (y % Epoch)
  OBVIOUS
<1> HIDE DEF p, q
<1>2. x - y = Epoch * p - Epoch * q /\ Epoch * p > Epoch * q
  BY <1>1, x % Epoch \in Int, y % Epoch \in Int
<1>3. p > q
  <2>1. SUFFICES ASSUME p <= q PROVE FALSE
    BY <1>1
  <2>2. Epoch * p <= Epoch * q
    BY <1>1, <2>1
  <2> QED
    BY <1>1, <1>2, <2>2
<1>4. p >= q + 1
  BY <1>1, <1>3
<1>5. Epoch * p >= Epoch * (q + 1)
  BY <1>1, <1>4
<1>6. Epoch * (q + 1) = Epoch * q + Epoch
  BY <1>1
<1> QED
  BY <1>1, <1>2, <1>5, <1>6

\* In the first epoch the counter derived is the one received, and the epoch
\* stays the first.
LEMMA FirstEpochStays ==
    ASSUME NEW low \in 0..Epoch - 1, Epoch \in Nat \ {0}
    PROVE  Derive(0, low) = low /\ Derive(0, low) \div Epoch = 0
<1>1. Derive(0, low) = low
  BY DEF Derive
<1>2. low \div Epoch = 0
  OBVIOUS
<1> QED
  BY <1>1, <1>2

LEMMA DefaultType ==
    ASSUME NEW r \in Rates
    PROVE  Default(r) \in Sessions /\ ~Default(r).joined
           /\ Default(r).appDown = 0 /\ Default(r).nwkDown = 0
BY DEF Default, Sessions

LEMMA ForgottenType ==
    ASSUME NEW s \in Sessions
    PROVE  Forgotten(s) \in Sessions /\ ~Forgotten(s).joined
           /\ Forgotten(s).appDown = 0 /\ Forgotten(s).nwkDown = 0
BY DefaultType DEF Forgotten, Sessions

-----------------------------------------------------------------------------
LEMMA InitHolds == SessionAssumption /\ Init => IInv
<1> SUFFICES ASSUME SessionAssumption, Init PROVE IInv
  OBVIOUS
<1>1. PICK r \in Rates : ctx = Default(r)
  BY DEF Init
<1>2. ctx \in Sessions /\ ~ctx.joined /\ ctx.appDown = 0 /\ ctx.nwkDown = 0
  BY <1>1, DefaultType
<1>3. store.session = ctx
  BY DEF Init
<1>4. store \in Stores
  BY <1>2 DEF Init, Stores
<1>5. TypeOK
  <2>1. frames \in Seq(Frames) /\ accepts \subseteq Keys /\ joins \subseteq Keys
    BY DEF Init
  <2>2. /\ restored \in BOOLEAN /\ unsaved \in BOOLEAN /\ updated \in BOOLEAN
        /\ op \in {"NONE", "JOINING", "DATA"} /\ keys \in Keys \cup {NoKeys}
        /\ heard \subseteq Nat
    BY DEF Init
  <2>3. /\ joinNonce \in Nat /\ devNonce \in Nat /\ answered \in Nat
        /\ highest \in Int /\ restarts \in Nat
    BY DEF Init
  <2> QED
    BY <1>2, <1>4, <2>1, <2>2, <2>3 DEF TypeOK
<1> QED
  BY <1>2, <1>3, <1>5 DEF Init, IInv, NoncesSaved, SessionKnown, StoreFollows,
     NoncesGrow, FramesNumbered, SavedUnlessData, FirstEpoch, CountersDistinct,
     AckIsForThisFrame

\* Saving changes the saved session and nothing else of what is saved.
LEMMA SaveType ==
    ASSUME NEW s \in Sessions, store \in Stores, Save(s)
    PROVE  /\ store' \in Stores /\ store'.session = s
           /\ store'.joinNonce = store.joinNonce
           /\ store'.devNonce = store.devNonce /\ store'.keys = store.keys
BY DEF Save, Stores

(***************************************************************************)
(* One lemma per action.                                                   *)
(***************************************************************************)
\* What the steps that leave joins, frames and acknowledgements alone need not
\* prove again.
LEMMA QuietPart ==
    ASSUME IInv, UNCHANGED <<keys, joins, frames, heard, devNonce, answered,
                       restored>>,
           \/ ~ctx'.joined /\ ctx'.version = 0
           \/ /\ ctx'.joined = ctx.joined /\ ctx'.up = ctx.up
              /\ ctx'.version = ctx.version
    PROVE  NoncesGrow' /\ FramesNumbered' /\ CountersDistinct' /\ AckIsForThisFrame'
BY DEF IInv, NoncesGrow, FramesNumbered, CountersDistinct, AckIsForThisFrame

LEMMA PushHolds == IInv /\ PushSessionUpdate => IInv'
<1> SUFFICES ASSUME IInv, PushSessionUpdate PROVE IInv'
  OBVIOUS
<1> USE DEF PushSessionUpdate
<1>1. ctx \in Sessions /\ store \in Stores
  BY DEF IInv, TypeOK
<1>2. /\ store' \in Stores /\ store'.session = ctx
      /\ store'.joinNonce = store.joinNonce
      /\ store'.devNonce = store.devNonce /\ store'.keys = store.keys
  BY <1>1, SaveType
<1>3. TypeOK'
  BY <1>2 DEF IInv, TypeOK
<1>4. NoncesGrow' /\ FramesNumbered' /\ CountersDistinct' /\ AckIsForThisFrame'
  BY QuietPart
<1> QED
  BY <1>2, <1>3, <1>4 DEF IInv, NoncesSaved, SessionKnown, StoreFollows,
     SavedUnlessData, FirstEpoch

\* The network's side of a join request.
LEMMA AcceptsGrow ==
    ASSUME IInv, SessionAssumption, NetworkAccepts(devNonce)
    PROVE  accepts' \subseteq Keys /\ accepts \subseteq accepts'
<1>1. accepts \subseteq Keys /\ devNonce \in Nat /\ Versions \subseteq {0, 1}
  BY DEF IInv, TypeOK, SessionAssumption
<1>2. 1..MaxAccepts \subseteq Nat
  BY DEF SessionAssumption
<1> QED
  BY <1>1, <1>2 DEF NetworkAccepts, Keys

LEMMA OtaaHolds == SessionAssumption /\ IInv /\ Otaa => IInv'
<1> SUFFICES ASSUME SessionAssumption, IInv, Otaa PROVE IInv'
  OBVIOUS
<1>1. ctx \in Sessions /\ store \in Stores
  BY DEF IInv, TypeOK
<1>2. accepts' \subseteq Keys /\ accepts \subseteq accepts'
  BY AcceptsGrow DEF Otaa, IInv, TypeOK
<1>3. /\ store' \in Stores /\ ctx' \in Sessions
      /\ store'.joinNonce = store.joinNonce
      /\ store'.devNonce = store.devNonce /\ store'.keys = store.keys
      /\ ~ctx'.joined
      /\ \/ ctx' = ctx /\ store' = store /\ unsaved' = unsaved
         \/ /\ store'.session = ctx' /\ unsaved' = FALSE /\ ctx'.version = 0
            /\ ctx'.appDown = 0 /\ ctx'.nwkDown = 0
  <2>1. CASE ctx.joined
    <3>1. /\ ctx' = Forgotten(ctx) /\ Save(Forgotten(ctx)) /\ unsaved' = FALSE
      BY <2>1 DEF Otaa, BeginJoin
    <3>2. Forgotten(ctx).version = 0
      BY DEF Forgotten, Default
    <3> QED
      BY <1>1, <3>1, <3>2, ForgottenType, SaveType
  <2>2. CASE ~ctx.joined
    BY <1>1, <2>2 DEF Otaa, BeginJoin
  <2> QED
    BY <2>1, <2>2
<1>4. TypeOK'
  <2>1. unsaved' \in BOOLEAN /\ op' \in {"NONE", "JOINING", "DATA"}
    BY <1>3 DEF Otaa, IInv, TypeOK
  <2> QED
    BY <1>2, <1>3, <2>1 DEF Otaa, IInv, TypeOK
<1>5. NoncesGrow' /\ FramesNumbered' /\ CountersDistinct' /\ AckIsForThisFrame'
  BY <1>3, QuietPart DEF Otaa
<1> QED
  BY <1>2, <1>3, <1>4, <1>5 DEF Otaa, IInv, NoncesSaved, SessionKnown,
     StoreFollows, SavedUnlessData, FirstEpoch

\* The keys of a join carry a nonce no earlier join had.
LEMMA JoinFresh ==
    ASSUME IInv, NEW a \in accepts, JoinAccept(a)
    PROVE  keys' \notin joins /\ keys' \in Keys /\ keys'.version = a.version
           /\ (a.version = 1 => keys' = a)
<1>1. a \in Keys /\ devNonce \in Nat /\ joins \subseteq Keys
  BY DEF IInv, TypeOK
<1>2. keys' = [joinNonce |-> a.joinNonce, devNonce |-> devNonce,
               version |-> a.version]
  BY DEF JoinAccept
<1>3. keys'.devNonce = devNonce /\ keys' \in Keys /\ keys'.version = a.version
  BY <1>1, <1>2 DEF Keys
<1>4. keys' \notin joins
  BY <1>1, <1>3 DEF IInv, NoncesGrow, Keys
<1>5. a.version = 1 => keys' = a
  BY <1>1, <1>2 DEF JoinAccept, Acceptable, Keys
<1> QED
  BY <1>3, <1>4, <1>5

LEMMA JoinAcceptHolds ==
    ASSUME SessionAssumption, IInv, NEW a \in accepts, JoinAccept(a)
    PROVE  IInv'
<1> DEFINE new == [joinNonce |-> a.joinNonce, devNonce |-> devNonce,
                   version |-> a.version]
<1>1. /\ a \in Keys /\ ctx \in Sessions /\ store \in Stores /\ devNonce \in Nat
      /\ keys' = new /\ op = "JOINING" /\ joins' = joins \cup {new}
      /\ op' = "NONE" /\ updated' = TRUE /\ answered' = 0
  BY DEF IInv, TypeOK, JoinAccept
<1>2. new \in Keys /\ new \notin joins /\ new.version = a.version
      /\ (a.version = 1 => new = a)
  BY <1>1, JoinFresh
<1> HIDE DEF new
<1>3. PICK r \in Rates :
         ctx' = [Default(r) EXCEPT !.joined = TRUE, !.version = a.version,
                                   !.of = new]
  BY DEF JoinAccept, new
<1>4. /\ ctx' \in Sessions /\ ctx'.joined /\ ctx'.version = a.version
      /\ ctx'.of = new /\ ctx'.appDown = 0 /\ ctx'.nwkDown = 0
  BY <1>1, <1>2, <1>3, DefaultType DEF Default, Sessions, Keys
<1>5. joinNonce' \in Nat /\ devNonce' = devNonce + 1
  BY <1>1 DEF JoinAccept, Keys, NextDevNonce
<1>6. /\ store' \in Stores /\ store'.session = store.session
      /\ store'.joinNonce = joinNonce' /\ store'.devNonce = devNonce'
      /\ store'.keys = new
  <2>1. /\ store' = [store EXCEPT !.joinNonce = joinNonce',
                                  !.devNonce = devNonce', !.keys = new]
        /\ joinNonce' \in Nat /\ devNonce' \in Nat
    BY <1>1, <1>5 DEF JoinAccept, new
  <2> QED
    BY <1>1, <1>2, <2>1 DEF Stores
<1>7. TypeOK'
  <2>1. joins' \subseteq Keys
    BY <1>1, <1>2 DEF IInv, TypeOK
  <2>2. /\ restored' \in BOOLEAN /\ unsaved' \in BOOLEAN
        /\ updated' \in BOOLEAN /\ op' \in {"NONE", "JOINING", "DATA"}
    BY <1>1 DEF IInv, TypeOK, JoinAccept
  <2>3. /\ joinNonce' \in Nat /\ devNonce' \in Nat /\ answered' \in Nat
        /\ highest' \in Int /\ restarts' \in Nat
    BY <1>1, <1>5 DEF IInv, TypeOK, JoinAccept
  <2>4. /\ accepts' \subseteq Keys /\ frames' \in Seq(Frames)
        /\ heard' \subseteq Nat
    BY DEF IInv, TypeOK, JoinAccept
  <2> QED
    BY <1>1, <1>2, <1>4, <1>6, <2>1, <2>2, <2>3, <2>4 DEF TypeOK
<1>8. ~store.session.joined
  BY <1>1 DEF IInv, StoreFollows
<1>9. NoncesGrow'
  <2>1. \A k \in joins' : k.devNonce < devNonce'
    <3>1. \A k \in joins : k.devNonce < devNonce /\ k.devNonce \in Nat
      BY DEF IInv, NoncesGrow, TypeOK, Keys
    <3>2. new.devNonce = devNonce
      BY DEF new
    <3> QED
      BY <1>1, <1>5, <3>1, <3>2
  <2> QED
    BY <1>1, <2>1 DEF IInv, NoncesGrow, JoinAccept
<1>10. FramesNumbered'
  BY <1>1, <1>2 DEF IInv, NoncesGrow, FramesNumbered, JoinAccept
<1>12. CountersDistinct'
  BY <1>1, <1>2 DEF IInv, NoncesGrow, CountersDistinct, JoinAccept
<1>11. SessionKnown(ctx)'
  BY <1>1, <1>2, <1>4 DEF SessionKnown, JoinAccept
<1> QED
  BY <1>1, <1>4, <1>6, <1>7, <1>8, <1>9, <1>10, <1>11, <1>12 DEF IInv, NoncesSaved,
     SessionKnown, StoreFollows, SavedUnlessData, FirstEpoch, AckIsForThisFrame

LEMMA DataHolds == IInv /\ Data => IInv'
<1> SUFFICES ASSUME IInv, Data PROVE IInv'
  OBVIOUS
<1> DEFINE new == [of |-> keys, counter |-> ctx.up]
<1>1. /\ ctx \in Sessions /\ ctx.joined /\ ctx.of = keys /\ keys \in joins
      /\ frames \in Seq(Frames) /\ frames' = Append(frames, new)
      /\ ctx' = [ctx EXCEPT !.up = ctx.up + 1] /\ op' = "DATA"
      /\ heard' \subseteq heard \cup {Len(frames')} /\ answered' = 0
      /\ keys \in Keys \cup {NoKeys} /\ ctx.up \in Nat
  BY DEF IInv, TypeOK, Data, SessionKnown, NextUp, Sessions
<1>2. ctx' \in Sessions /\ ctx'.up = ctx.up + 1 /\ ctx'.joined = ctx.joined
      /\ ctx'.of = ctx.of /\ ctx'.version = ctx.version
      /\ ctx'.appDown = ctx.appDown /\ ctx'.nwkDown = ctx.nwkDown
  <2>1. ctx.up + 1 \in Nat
    BY <1>1
  <2> QED
    BY <1>1, <2>1 DEF Sessions
<1>3. new \in Frames
  BY <1>1 DEF Frames
<1> HIDE DEF new
<1>4. /\ frames' \in Seq(Frames) /\ Len(frames') = Len(frames) + 1
      /\ DOMAIN frames' = 1..Len(frames) + 1 /\ DOMAIN frames = 1..Len(frames)
      /\ \A i \in 1..Len(frames) : frames'[i] = frames[i]
      /\ frames'[Len(frames) + 1] = new /\ Len(frames) \in Nat
  BY <1>1, <1>3
<1>5. TypeOK'
  BY <1>1, <1>2, <1>4 DEF IInv, TypeOK, Data
<1>6. NoncesGrow'
  <2>1. \A i \in DOMAIN frames' : frames'[i].of \in joins
    BY <1>1, <1>4 DEF IInv, NoncesGrow, new
  <2>2. heard' \subseteq DOMAIN frames'
    BY <1>1, <1>4 DEF IInv, NoncesGrow
  <2> QED
    BY <2>1, <2>2 DEF IInv, NoncesGrow, Data
<1>7. FramesNumbered'
  <2> SUFFICES ASSUME ~restored, NEW i \in DOMAIN frames', frames'[i].of = keys
               PROVE  ctx'.up - frames'[i].counter = Len(frames') + 1 - i
    BY DEF FramesNumbered, Data
  <2>1. CASE i = Len(frames) + 1
    BY <1>1, <1>2, <1>4, <2>1 DEF new
  <2>2. CASE i # Len(frames) + 1
    <3>1. i \in DOMAIN frames /\ frames'[i] = frames[i]
      BY <1>4, <2>2
    <3>2. frames[i].counter \in Nat
      <4>1. frames[i] \in Frames
        BY <1>1, <3>1
      <4> QED
        BY <4>1 DEF Frames
    <3>3. ctx.up - frames[i].counter = Len(frames) + 1 - i
      BY <1>1, <3>1 DEF IInv, FramesNumbered
    <3> QED
      BY <1>1, <1>2, <1>4, <3>1, <3>2, <3>3
  <2> QED
    BY <2>1, <2>2
<1>8. CountersDistinct'
  <2> SUFFICES ASSUME ~restored, NEW i \in DOMAIN frames',
                      NEW j \in DOMAIN frames', frames'[i].of = keys,
                      frames'[i] = frames'[j], i # j
               PROVE  FALSE
    BY DEF CountersDistinct, Data
  <2>1. \A k \in DOMAIN frames : frames[k].of = keys => frames[k] # new
    <3> SUFFICES ASSUME NEW k \in 1..Len(frames), frames[k].of = keys,
                        frames[k] = new
                 PROVE  FALSE
      BY <1>4
    <3>1. ctx.up - frames[k].counter = Len(frames) + 1 - k
      BY <1>1, <1>4 DEF IInv, FramesNumbered
    <3>2. frames[k].counter = ctx.up
      BY DEF new
    <3> QED
      BY <1>1, <1>4, <3>1, <3>2
  <2>2. CASE i \in DOMAIN frames /\ j \in DOMAIN frames
    BY <1>4, <2>2 DEF IInv, CountersDistinct
  <2>3. CASE i = Len(frames) + 1 \/ j = Len(frames) + 1
    BY <1>4, <2>1, <2>3
  <2> QED
    BY <1>4, <2>2, <2>3
<1> QED
  BY <1>1, <1>2, <1>5, <1>6, <1>7, <1>8 DEF Data, IInv, NoncesSaved, SessionKnown,
     StoreFollows, SavedUnlessData, FirstEpoch, AckIsForThisFrame

\* An accepted downlink is of the first epoch and leaves the counters there.
LEMMA DownlinkSynced ==
    ASSUME SessionAssumption, IInv, NEW d \in Downlinks, Downlink(d)
    PROVE  /\ ctx' = ctx /\ d.counter < Epoch
<1>1. /\ d.counter \in Nat /\ d.network \in BOOLEAN /\ Epoch \in Nat \ {0}
      /\ ctx \in Sessions /\ ctx.appDown = 0 /\ ctx.nwkDown = 0
  BY DEF Downlinks, SessionAssumption, IInv, TypeOK, FirstEpoch
<1>2. d.counter % Epoch \in 0..Epoch - 1
  BY <1>1
<1>3. Down(ctx, d.network) = 0
  BY <1>1 DEF Down
<1>4. Derive(0, d.counter % Epoch) = d.counter % Epoch
      /\ Derive(0, d.counter % Epoch) \div Epoch = 0
  BY <1>1, <1>2, FirstEpochStays
<1>5. d.counter = d.counter % Epoch
  BY <1>3, <1>4 DEF Downlink, Authentic
<1>6. 0 % Epoch = 0
  BY <1>1
<1>7. Synced(ctx, d) = ctx
  BY <1>1, <1>3, <1>4, <1>6 DEF Synced, Sessions
<1> QED
  BY <1>2, <1>1, <1>5, <1>7 DEF Downlink

LEMMA DownlinkHolds ==
    ASSUME SessionAssumption, IInv, NEW d \in Downlinks, Downlink(d)
    PROVE  IInv'
<1>1. ctx' = ctx /\ op = "DATA" /\ op' = "NONE" /\ updated' = TRUE
      /\ answered' = d.ack
  BY DownlinkSynced DEF Downlink
<1>2. d \in [of : accepts, network : BOOLEAN, counter : 0..MaxDown,
             ack : heard \cup {0}] /\ (d.ack # 0 => frames[d.ack].of = d.of)
  BY DEF Downlinks
<1>3. d.ack \in heard \cup {0} /\ d.counter \in Int
  BY <1>2
<1>4. TypeOK'
  <2>1. highest' \in Int /\ answered' \in Nat
    <3>1. highest \in Int /\ answered' = d.ack /\ heard \subseteq Nat
      BY <1>1 DEF IInv, TypeOK
    <3>2. highest' \in {highest, d.counter}
      BY DEF Downlink
    <3>3. highest' \in Int
      BY <1>3, <3>1, <3>2
    <3>4. d.ack \in Nat
      <4>1. CASE d.ack = 0
        BY <4>1
      <4>2. CASE d.ack \in heard
        BY <3>1, <4>2
      <4> QED
        BY <1>3, <4>1, <4>2
    <3> QED
      BY <3>1, <3>3, <3>4
  <2> QED
    BY <1>1, <2>1 DEF Downlink, IInv, TypeOK
<1>5. AckIsForThisFrame'
  <2> SUFFICES ASSUME ctx.version = 1, ~restored, d.ack # 0, d.ack # Len(frames)
               PROVE  Len(frames) - d.ack >= Epoch
    BY <1>1 DEF AckIsForThisFrame, Downlink
  <2> DEFINE c == frames[d.ack].counter
  <2>1. /\ d.ack \in DOMAIN frames /\ frames \in Seq(Frames)
        /\ d.ack \in 1..Len(frames) /\ Len(frames) \in Nat
    <3>1. frames \in Seq(Frames) /\ heard \subseteq DOMAIN frames
      BY DEF IInv, NoncesGrow, TypeOK
    <3> QED
      BY <1>3, <3>1
  <2>2. c \in Nat /\ ctx.up \in Nat /\ Epoch \in Nat \ {0}
    <3>1. frames[d.ack] \in Frames
      BY <2>1
    <3> QED
      BY <3>1 DEF IInv, TypeOK, Frames, Sessions, SessionAssumption
  <2>3. frames[d.ack].of = keys /\ c % Epoch = (ctx.up - 1) % Epoch
    BY <1>2 DEF Downlink, Authentic, Confirms
  <2>4. ctx.up - c = Len(frames) + 1 - d.ack
    BY <1>1, <2>1, <2>3 DEF IInv, FramesNumbered, StoreFollows
  <2> HIDE DEF c
  <2>5. ctx.up - 1 \in Nat /\ ctx.up - 1 > c
    BY <2>1, <2>2, <2>4
  <2>6. (ctx.up - 1) - c >= Epoch
    BY <2>2, <2>3, <2>5, SameLowHalf
  <2> QED
    BY <2>1, <2>2, <2>4, <2>6
<1>6. NoncesGrow' /\ FramesNumbered' /\ CountersDistinct'
  BY <1>1 DEF Downlink, IInv, NoncesGrow, FramesNumbered, CountersDistinct
<1> QED
  BY <1>1, <1>4, <1>5, <1>6 DEF Downlink, IInv, NoncesSaved, SessionKnown,
     StoreFollows, SavedUnlessData, FirstEpoch

\* What the end of a trial leaves of the session.
LEMMA MissingPart ==
    ASSUME SessionAssumption, IInv, Missing
    PROVE  /\ accepts' \subseteq Keys /\ accepts \subseteq accepts'
           /\ op' \in {op, "NONE"} /\ ctx' \in Sessions
           /\ ctx'.joined = ctx.joined /\ ctx'.of = ctx.of /\ ctx'.up = ctx.up
           /\ ctx'.version = ctx.version /\ ctx'.appDown = ctx.appDown
           /\ ctx'.nwkDown = ctx.nwkDown
           /\ (op # "DATA" => ctx' = ctx)
           /\ NoncesGrow' /\ FramesNumbered' /\ CountersDistinct' /\ AckIsForThisFrame'
<1>1. accepts' \subseteq Keys /\ accepts \subseteq accepts'
  BY AcceptsGrow DEF Missing, IInv, TypeOK
<1>2. /\ op' \in {op, "NONE"} /\ (op # "DATA" => ctx' = ctx)
      /\ ctx' = ctx \/ \E r \in Rates : ctx' = [ctx EXCEPT !.rate = r]
  BY DEF Missing
<1>3. /\ ctx' \in Sessions
      /\ ctx'.joined = ctx.joined /\ ctx'.of = ctx.of /\ ctx'.up = ctx.up
      /\ ctx'.version = ctx.version /\ ctx'.appDown = ctx.appDown
      /\ ctx'.nwkDown = ctx.nwkDown
  BY <1>2 DEF IInv, TypeOK, Sessions
<1>4. NoncesGrow' /\ FramesNumbered' /\ CountersDistinct' /\ AckIsForThisFrame'
  BY <1>3, QuietPart DEF Missing
<1> QED
  BY <1>1, <1>2, <1>3, <1>4

LEMMA SilenceHolds == SessionAssumption /\ IInv /\ Silence => IInv'
<1> SUFFICES ASSUME SessionAssumption, IInv, Silence PROVE IInv'
  OBVIOUS
<1>1. Missing /\ updated' = TRUE /\ unsaved' = unsaved
  BY DEF Silence
<1>2. TypeOK'
  BY <1>1, MissingPart DEF IInv, TypeOK, Missing
<1> QED
  BY <1>1, <1>2, MissingPart DEF Missing, IInv, NoncesSaved, SessionKnown,
     StoreFollows, SavedUnlessData, FirstEpoch

LEMMA BadFrameHolds == SessionAssumption /\ IInv /\ BadFrame => IInv'
<1> SUFFICES ASSUME SessionAssumption, IInv, BadFrame PROVE IInv'
  OBVIOUS
<1>1. Missing /\ updated' = updated
      /\ unsaved' = (unsaved \/ (op = "DATA" /\ op' = "NONE"))
  BY DEF BadFrame
<1>2. TypeOK'
  BY <1>1, MissingPart DEF IInv, TypeOK, Missing
<1> QED
  BY <1>1, <1>2, MissingPart DEF Missing, IInv, NoncesSaved, SessionKnown,
     StoreFollows, SavedUnlessData, FirstEpoch

LEMMA AbandonHolds == IInv /\ Abandon => IInv'
<1> SUFFICES ASSUME IInv, Abandon PROVE IInv'
  OBVIOUS
<1>1. TypeOK'
  BY DEF Abandon, IInv, TypeOK
<1>2. NoncesGrow' /\ FramesNumbered' /\ CountersDistinct' /\ AckIsForThisFrame'
  BY QuietPart DEF Abandon
<1> QED
  BY <1>1, <1>2 DEF Abandon, IInv, NoncesSaved, SessionKnown, StoreFollows,
     SavedUnlessData, FirstEpoch

LEMMA ForgetHolds == IInv /\ Forget => IInv'
<1> SUFFICES ASSUME IInv, Forget PROVE IInv'
  OBVIOUS
<1>1. /\ ctx' = Forgotten(ctx) /\ Save(Forgotten(ctx)) /\ ctx \in Sessions
      /\ store \in Stores /\ Forgotten(ctx).version = 0
  BY DEF Forget, IInv, TypeOK, Forgotten, Default
<1>2. /\ ctx' \in Sessions /\ ~ctx'.joined /\ ctx'.version = 0
      /\ ctx'.appDown = 0 /\ ctx'.nwkDown = 0
      /\ store' \in Stores /\ store'.session = ctx'
      /\ store'.joinNonce = store.joinNonce
      /\ store'.devNonce = store.devNonce /\ store'.keys = store.keys
  BY <1>1, ForgottenType, SaveType
<1>3. TypeOK'
  BY <1>2 DEF Forget, IInv, TypeOK
<1>4. NoncesGrow' /\ FramesNumbered' /\ CountersDistinct' /\ AckIsForThisFrame'
  BY <1>2, QuietPart DEF Forget
<1> QED
  BY <1>2, <1>3, <1>4 DEF Forget, IInv, NoncesSaved, SessionKnown,
     StoreFollows, SavedUnlessData, FirstEpoch

LEMMA SetRateHolds == ASSUME IInv, NEW r \in Rates, SetRate(r) PROVE IInv'
<1>1. /\ ctx' = [ctx EXCEPT !.rate = r] /\ Save(ctx') /\ ctx \in Sessions
      /\ store \in Stores
  BY DEF SetRate, IInv, TypeOK
<1>2. /\ ctx' \in Sessions
      /\ ctx'.joined = ctx.joined /\ ctx'.of = ctx.of /\ ctx'.up = ctx.up
      /\ ctx'.version = ctx.version /\ ctx'.appDown = ctx.appDown
      /\ ctx'.nwkDown = ctx.nwkDown
  BY <1>1 DEF Sessions
<1>3. /\ store' \in Stores /\ store'.session = ctx'
      /\ store'.joinNonce = store.joinNonce
      /\ store'.devNonce = store.devNonce /\ store'.keys = store.keys
  BY <1>1, <1>2 DEF Save, Stores
<1>4. TypeOK'
  BY <1>2, <1>3 DEF SetRate, IInv, TypeOK
<1>5. NoncesGrow' /\ FramesNumbered' /\ CountersDistinct' /\ AckIsForThisFrame'
  BY <1>2, QuietPart DEF SetRate
<1> QED
  BY <1>2, <1>3, <1>4, <1>5 DEF SetRate, IInv, NoncesSaved, SessionKnown,
     StoreFollows, SavedUnlessData, FirstEpoch

LEMMA RestartHolds == IInv /\ Restart => IInv'
<1> SUFFICES ASSUME IInv, Restart PROVE IInv'
  OBVIOUS
<1>1. store \in Stores /\ store.session \in Sessions /\ keys' = store.keys
      /\ keys \in Keys \cup {NoKeys}
  BY DEF IInv, TypeOK, Stores, Restart
<1>2. /\ ctx' \in Sessions /\ ctx'.appDown = 0 /\ ctx'.nwkDown = 0
      /\ ctx' = store.session \/ ~ctx'.joined
  BY <1>1, DefaultType DEF Restart, IInv, FirstEpoch
<1>3. /\ store' \in Stores /\ store'.session = ctx'
      /\ store'.joinNonce = store.joinNonce
      /\ store'.devNonce = store.devNonce /\ store'.keys = store.keys
  BY <1>1, <1>2 DEF Restart, Save, Stores
<1>4. /\ joinNonce' = joinNonce /\ devNonce' = devNonce /\ keys' = keys
  BY DEF Restart, IInv, NoncesSaved
<1>5. TypeOK'
  <2>1. /\ restored' \in BOOLEAN /\ unsaved' \in BOOLEAN
        /\ updated' \in BOOLEAN /\ op' \in {"NONE", "JOINING", "DATA"}
    BY DEF Restart
  <2>2. answered' \in Nat /\ highest' \in Int /\ restarts' \in Nat
    BY DEF Restart, IInv, TypeOK
  <2> QED
    BY <1>1, <1>2, <1>3, <1>4, <2>1, <2>2 DEF Restart, IInv, TypeOK
<1> QED
  BY <1>1, <1>2, <1>3, <1>4, <1>5 DEF Restart, IInv, NoncesSaved, SessionKnown,
     StoreFollows, NoncesGrow, FramesNumbered, SavedUnlessData, FirstEpoch,
     CountersDistinct, AckIsForThisFrame

LEMMA StepHolds == SessionAssumption /\ IInv /\ [Next]_vars => IInv'
<1> SUFFICES ASSUME SessionAssumption, IInv, [Next]_vars PROVE IInv'
  OBVIOUS
<1>1. CASE UNCHANGED vars
  BY <1>1 DEF vars, IInv, TypeOK, NoncesSaved, SessionKnown, StoreFollows,
     NoncesGrow, FramesNumbered, SavedUnlessData, FirstEpoch, CountersDistinct,
     AckIsForThisFrame
<1>2. CASE Next
  BY <1>2, PushHolds, OtaaHolds, JoinAcceptHolds, DataHolds, DownlinkHolds,
     SilenceHolds, BadFrameHolds, AbandonHolds, ForgetHolds, SetRateHolds,
     RestartHolds DEF Next
<1> QED
  BY <1>1, <1>2

-----------------------------------------------------------------------------
(***************************************************************************)
(* The theorems.                                                           *)
(***************************************************************************)
\* The inductive invariant holds, whatever the bounds.
THEOREM InvariantHolds == Spec => []IInv
<1>1. SessionAssumption
  BY SessionAssumption
<1> QED
  BY <1>1, InitHolds, StepHolds, PTL DEF Spec

\* Types: session, saved session, nonces, keys and messages.
THEOREM TypeCorrect == Spec => []TypeOK
<1>1. IInv => TypeOK
  BY DEF IInv
<1> QED
  BY <1>1, InvariantHolds, PTL

\* Sessions, in hand and saved, go with the keys in force, over any restarts.
THEOREM KeysFit == Spec => []SessionHasItsKeys
<1>1. IInv => SessionHasItsKeys
  BY DEF IInv, SessionHasItsKeys, SessionKnown, NoncesSaved
<1> QED
  BY <1>1, InvariantHolds, PTL

\* A 1.1 session is one the network has granted.
THEOREM SessionGranted == Spec => []NetworkKnowsSession
<1>1. IInv => NetworkKnowsSession
  BY DEF IInv, NetworkKnowsSession, SessionKnown
<1> QED
  BY <1>1, InvariantHolds, PTL

\* No keys are derived twice.
THEOREM KeysFresh == Spec => SessionKeysFresh
<1>1. IInv /\ [Next]_vars =>
        [\A a \in accepts : JoinAccept(a) => keys' \notin joins]_vars
  BY JoinFresh
<1> QED
  BY <1>1, InvariantHolds, PTL DEF Spec, SessionKeysFresh

\* No frame counter is used twice in a session that no restart interrupted.
THEOREM CountersFresh == Spec => []CountersDistinct
<1>1. IInv => CountersDistinct
  BY DEF IInv
<1> QED
  BY <1>1, InvariantHolds, PTL

\* A request that ends in the ordinary way leaves the session saved.
THEOREM SavedCorrect == Spec => []SavedWhenIdle
<1>1. IInv => SavedWhenIdle
  BY DEF IInv, SavedWhenIdle, SavedUnlessData
<1> QED
  BY <1>1, InvariantHolds, PTL

\* A 1.1 acknowledgement is of the frame in hand or of one 2^16 frames older.
THEOREM AckCorrect == Spec => []AckIsForThisFrame
<1>1. IInv => AckIsForThisFrame
  BY DEF IInv
<1> QED
  BY <1>1, InvariantHolds, PTL

\* No downlink with a counter from 2^16 on is ever accepted: the epoch that
\* deriveDownCounter() adds stays 0.
THEOREM OnlyFirstEpochHeard ==
    Spec => [][\A d \in Downlinks : Downlink(d) => d.counter < Epoch]_vars
<1>1. SessionAssumption
  BY SessionAssumption
<1>2. SessionAssumption /\ IInv /\ [Next]_vars =>
        [\A d \in Downlinks : Downlink(d) => d.counter < Epoch]_vars
  BY DownlinkSynced
<1> QED
  BY <1>1, <1>2, InvariantHolds, PTL DEF Spec
=============================================================================
