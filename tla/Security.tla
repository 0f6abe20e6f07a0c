------------------------------ MODULE Security ------------------------------
(***************************************************************************)
(* The security module and its ciphers: src/src/ldl_cmac.c, ldl_ctr.c,     *)
(* ldl_sm.c, and the store of three keys of the Arduino wrapper.           *)
(*                                                                         *)
(* AES itself is in Aes.  A message is a sequence of marks, one for each   *)
(* byte; a digest is the blocks that were absorbed and how the last one    *)
(* was finished; a byte is enciphered with a place in a key stream; a key  *)
(* is the root and the block it was derived from.                          *)
(***************************************************************************)
EXTENDS Integers, Sequences, SequencesExt

BlockSize == 16

-----------------------------------------------------------------------------
(***************************************************************************)
(* CMAC.  x stands for the chain of absorbed blocks, m is the block in     *)
(* hand, which stays until more is known to follow; size is a byte.        *)
(***************************************************************************)
CmacInit == [x |-> <<>>, m |-> [i \in 1..BlockSize |-> 0], size |-> 0]

Overwrite(m, part, in) == SubSeq(m, 1, part) \o in \o SubSeq(m, part + Len(in) + 1, BlockSize)

\* Defect: a last block that is whole is absorbed at once.
NewBlocksMutant(part, len) == (part + len) \div BlockSize

\* Blocks that part bytes in hand and len more make up, but the last, whole or not.
NewBlocks(part, len) == (part + len - 1) \div BlockSize

\* LDL_CMAC_update(): a whole block in hand is absorbed first, then n new ones.
CmacUpdate(ctx, in) ==
    LET part     == ctx.size % BlockSize
        cached   == part = 0 /\ ctx.size > 0
        n        == NewBlocks(part, Len(in))
        Used(b)  == IF b = 0 THEN 0 ELSE BlockSize * b - part
        Block(b) == IF b = 1 THEN Overwrite(ctx.m, part, SubSeq(in, 1, Used(1)))
                             ELSE SubSeq(in, Used(b - 1) + 1, Used(b))
    IN IF in = <<>> THEN ctx
       ELSE [x    |-> ctx.x \o (IF cached THEN <<ctx.m>> ELSE <<>>) \o [b \in 1..n |-> Block(b)],
             m    |-> IF n > 0 THEN Overwrite(Block(n), 0, SubSeq(in, Used(n) + 1, Len(in)))
                               ELSE Overwrite(ctx.m, part, in),
             size |-> (ctx.size + Len(in)) % 256]

\* LDL_CMAC_finish(): a block that is not whole is padded and gets the second
\* subkey, and so is the block of an empty message.
CmacFinish(ctx) ==
    LET part == ctx.size % BlockSize
    IN IF ctx.size = 0 \/ part > 0
         THEN [x |-> ctx.x, last |-> SubSeq(ctx.m, 1, part), subkey |-> "k2"]
         ELSE [x |-> ctx.x, last |-> ctx.m, subkey |-> "k1"]

\* LDL_SM_mic()
Mic(key, hdr, data) ==
    [key |-> key, digest |-> CmacFinish(CmacUpdate(CmacUpdate(CmacInit, hdr), data))]

-----------------------------------------------------------------------------
\* LDL_CTR_encrypt(): the key stream of each byte, from the last byte of the
\* initial value on, which counts the blocks.
KeyStream(iv, first, len) ==
    [p \in 1..len |-> [iv |-> iv, block |-> (first + (p - 1) \div BlockSize) % 256,
                       at |-> (p - 1) % BlockSize]]

-----------------------------------------------------------------------------
(***************************************************************************)
(* Keys.                                                                   *)
(***************************************************************************)
RootKeys    == {"APP", "NWK"}
SessionKeys == {"FNWKSINT", "SNWKSINT", "NWKSENC", "APPS"}
JoinKeys    == {"JSINT", "JSENC"}
KeyNames    == RootKeys \cup SessionKeys \cup JoinKeys

Root(name)             == [root |-> name, i |-> 0, block |-> 0]
Derived(key, i, block) == [root |-> key.root, i |-> i, block |-> block]

\* getKey(): where each key is kept, by default and in the Arduino wrapper.
DefaultSlot(name) == name

\* Defect: the application's key shares the slot too.
ArduinoSlotMutant(name) == IF name \in RootKeys THEN "NWK" ELSE "NWKSENC"

ArduinoSlot(name) ==
    CASE name \in RootKeys -> "NWK"
      [] name = "APPS"     -> "APPS"
      [] OTHER             -> "NWKSENC"

Slot(arduino, name) == IF arduino THEN ArduinoSlot(name) ELSE DefaultSlot(name)

\* LDL_SM_init()
InitialKeys == [name \in KeyNames |-> IF name \in RootKeys THEN Root(name) ELSE Root("NWK")]

\* LDL_SM_updateSessionKey(): only session and join keys are derived.  An update
\* is the key's name, its root, and the first byte of the block.
Update(arduino, block, keys, u) ==
    IF u.key \in RootKeys THEN keys
    ELSE [keys EXCEPT ![Slot(arduino, u.key)] =
                          Derived(keys[Slot(arduino, u.root)], u.i, block)]

UpdateAll(arduino, block, keys, updates) ==
    FoldLeft(LAMBDA k, u : Update(arduino, block, k, u), keys, updates)

U(key, root, i) == [key |-> key, root |-> root, i |-> i]

\* LDL_OPS_deriveKeys(); block stands for the nonces.
DeriveKeys(arduino, block, keys, version) ==
    UpdateAll(arduino, block, keys,
        IF version = 0
          THEN <<U("APPS", "NWK", 2), U("FNWKSINT", "NWK", 1), U("SNWKSINT", "NWK", 1),
                 U("NWKSENC", "NWK", 1)>>
          ELSE <<U("FNWKSINT", "NWK", 1), U("APPS", "APP", 2), U("SNWKSINT", "NWK", 3),
                 U("NWKSENC", "NWK", 4)>>)

\* LDL_OPS_deriveJoinKeys(), from the device's EUI.
DeriveJoinKeys(arduino, keys) ==
    UpdateAll(arduino, 0, keys, <<U("JSENC", "NWK", 5), U("JSINT", "NWK", 6)>>)
=============================================================================
