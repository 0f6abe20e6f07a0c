SPECIFICATION Spec
CONSTANTS
    MaxPacket = 255
    MaxPayload = 250
    Arduino <- Both
    MaxJoins = 2
    JoinLengths <- JoinSizes
    Requests <- RequestSet
    Downlinks <- DownlinkSet
    Lost <- LostBytes
    AesKeys <- KeySet
    AesBlocks <- BlockSet
    Vectors <- Known

INVARIANTS KeysAsNamed FramesProtected SignedWithAES FramesReadBack CommandsReadBack
