------------------------------ MODULE KeyProofs ------------------------------
(***************************************************************************)
(* Proofs about what is kept of the meters.  Their keys: what they seal and *)
(* open (FrameCrypto), where the gateway keeps them (GatewayStore), and the *)
(* programs that ask for them (GatewayMonitor).  What is learnt from them:  *)
(* the frame headers (CompactFrameCache), the statistics and reports       *)
(* (Instrumentation), and the formats of payloads (LoRaFormats).           *)
(*                                                                         *)
(*   - Frames: SealInv and ReadInv.  The cipher's own inverse,              *)
(*     DecryptsBlocks, is taken as the condition it is in CryptoSound:     *)
(*     nothing here depends on the rounds of AES.                          *)
(*   - Store: KeyInv relates the keys in memory, in the database and those *)
(*     under way; LogInv says of each meter what its log tells of it.      *)
(*   - Programs: a plan is known by what it has to do and by what never    *)
(*     follows what (PlanOver), so that plans are joined and taken apart   *)
(*     by lemmas about sets; PlanInv, LinkInv, KeptInv and HandInv say for *)
(*     what is still to do how the connections, the subscriptions and the  *)
(*     radio stand.                                                        *)
(*   - Cache: CacheInv.  The queue holds what the map holds, once each, and *)
(*     what is not fresh from the file lies in it in the order of its use.  *)
(*   - Statistics: RegistryInv says who holds which lock and that no two    *)
(*     devices share their statistics; CountedInv that the windows of a     *)
(*     device are apart, count their errors and miss only old ones;        *)
(*     MeasuresInv what the measures of a link have to do with its samples. *)
(*   - Formats: FormatsInv.  What is counted for a device is the number of  *)
(*     packets heard of each kind, and a format is found as a best guess.   *)
(***************************************************************************)
EXTENDS FrameCrypto, GatewayStore, GatewayMonitor, CompactFrameCache, Instrumentation, LoRaFormats,
  SequenceTheorems, FiniteSetTheorems, WellFoundedInduction, TLAPS

Settings == [fullTag : BOOLEAN, crc : BOOLEAN, hardware : BOOLEAN]

KeyOf(f) == DeriveKey(f.key, f.device)
SealedAs(f, j) == CipherBlock(f.mode, KeyOf(f), IvOf(f.mode, f.device, f.ci), j)
BlocksOf(f) == {SealedAs(f, j) : j \in Nat} \cup {Garbled}
CipherBlocks(f) == Blocks(IF f.mode \in {"cbc", "ecb"} THEN PaddedLength(f.length) ELSE f.length)
SealedOf(f) == [mode : CipherModes, aad : Nat, ci : Nat, crc : BOOLEAN, tag : Nat, length : Nat, blocks : Seq(BlocksOf(f))]

(* The sizes a sealed frame has before anything happens to it.              *)
SizesRight(f, s, settings) ==
  /\ Len(s.blocks) = CipherBlocks(f)
  /\ f.mode = "ctr" => s.length = f.length
  /\ f.mode \in {"cbc", "ecb"} => s.length = PaddedLength(f.length)
  /\ f.mode = "gcm" => s.length = f.length + CrcLength(settings) + s.tag

(* A sealed frame is the frame's own encryption but for what fcHarm says.   *)
SealInv ==
  /\ fcFrame \in FcFrames
  /\ fcSettings \in [{"tx", "rx"} -> Settings]
  /\ fcSealed = NotSealed => fcHarm = Unharmed /\ fcResult = Undecided
  /\ fcSealed # NotSealed =>
       /\ fcSealed \in SealedOf(fcFrame)
       /\ fcSealed.mode = fcFrame.mode /\ fcSealed.aad = AadOf(fcFrame.mode, fcFrame.ci)
       /\ fcFrame.mode = "gcm" => /\ fcSealed.tag = (IF fcSettings["tx"].fullTag THEN 16 ELSE 12)
                                  /\ fcSealed.crc = fcSettings["tx"].crc
       /\ fcHarm = Unharmed \/ fcHarm.what \in {"block", "end", "ci"}
       /\ fcHarm = Unharmed => SizesRight(fcFrame, fcSealed, fcSettings["tx"])
       /\ fcHarm.what # "ci" => fcSealed.ci = CiOfMode(fcFrame.mode)
       /\ \A j \in 1..Len(fcSealed.blocks) :
            fcSealed.blocks[j] = SealedAs(fcFrame, j) \/ (fcHarm.what = "block" /\ fcHarm.at = j)

(* A result is what decrypting gave with the reader's key and device.       *)
ReadInv ==
  fcResult # Undecided =>
    /\ fcSealed # NotSealed
    /\ fcResult \in Results(fcReader.key, fcReader.device) \/ (fcResult = FcError /\ fcReader.key = <<>>)

-----------------------------------------------------------------------------
LEMMA BlocksTyped ==
  ASSUME NEW n \in Nat \ {0}
  PROVE  /\ Blocks(n) \in Nat \ {0} /\ PaddedLength(n) \in Nat \ {0}
         /\ PaddedLength(n) % 16 = 0 /\ Blocks(PaddedLength(n)) \in Nat \ {0}
<1>1. Blocks(n) \in Nat \ {0}
  BY DEF Blocks
<1>2. PICK k \in Nat \ {0} : PaddedLength(n) = k * 16
  BY DEF PaddedLength
<1>3. PaddedLength(n) \in Nat \ {0} /\ PaddedLength(n) % 16 = 0 /\ Blocks(PaddedLength(n)) \in Nat \ {0}
  BY <1>2 DEF Blocks
<1> QED BY <1>1, <1>3

LEMMA FrameTyped ==
  ASSUME NEW f \in FcFrames
  PROVE  /\ f.length \in Nat \ {0} /\ f.ci \in 0..255 /\ f.mode \in CipherModes /\ CipherBlocks(f) \in Nat \ {0}
         /\ CiOfMode(f.mode) \in Nat /\ ModeOfCi(CiOfMode(f.mode)) = f.mode /\ AadOf(f.mode, f.ci) \in Nat
<1>1. f.length \in Nat \ {0} /\ f.ci \in 0..255 /\ f.mode \in CipherModes
  BY FcAssumption DEF FcFrames
<1>2. CipherBlocks(f) \in Nat \ {0}
  BY <1>1, BlocksTyped DEF CipherBlocks
<1>3. CiOfMode(f.mode) \in Nat /\ ModeOfCi(CiOfMode(f.mode)) = f.mode
  BY <1>1 DEF CiOfMode, ModeOfCi, CipherModes
<1>4. AadOf(f.mode, f.ci) \in Nat
  BY <1>1 DEF AadOf
<1> QED BY <1>1, <1>2, <1>3, <1>4

LEMMA CryptInit == FcInit => SealInv /\ ReadInv
BY DEF FcInit, SealInv, ReadInv, Settings, Unharmed, Undecided

LEMMA EncryptKeeps ==
  ASSUME SealInv, ReadInv, EncryptFrame
  PROVE  SealInv' /\ ReadInv'
<1> DEFINE f == fcFrame
           tx == fcSettings["tx"]
           size == IF f.mode = "gcm" THEN GcmSealed(f, tx)
                   ELSE [crc |-> FALSE, tag |-> 0, length |-> IF f.mode = "ctr" THEN f.length ELSE PaddedLength(f.length)]
           n == CipherBlocks(f)
           c == SealBlocks(f.mode, KeyOf(f), IvOf(f.mode, f.device, f.ci), n)
<1>1. /\ fcSealed = NotSealed
      /\ fcSealed' = [mode |-> f.mode, aad |-> AadOf(f.mode, f.ci), ci |-> CiOfMode(f.mode),
                      crc |-> size.crc, tag |-> size.tag, length |-> size.length, blocks |-> c]
      /\ UNCHANGED <<fcSettings, fcFrame, fcHarm, fcReader, fcResult>>
  <2>1. Blocks(IF f.mode \in {"cbc", "ecb"} THEN size.length ELSE f.length) = n
    BY DEF CipherBlocks
  <2> QED BY <2>1 DEF EncryptFrame, KeyOf
<1>2. fcHarm = Unharmed /\ fcResult = Undecided /\ fcHarm' = Unharmed /\ fcResult' = Undecided
  BY <1>1 DEF SealInv
<1>3. f \in FcFrames /\ tx \in Settings
  BY DEF SealInv
<1>4. n \in Nat \ {0} /\ f.length \in Nat \ {0} /\ f.mode \in CipherModes /\ CiOfMode(f.mode) \in Nat /\ AadOf(f.mode, f.ci) \in Nat
  BY <1>3, FrameTyped
<1>5. size.crc \in BOOLEAN /\ size.tag \in Nat /\ size.length \in Nat
  <2>1. PaddedLength(f.length) \in Nat
    BY <1>4, BlocksTyped
  <2>2. CASE f.mode = "gcm"
    <3>1. CrcLength(tx) \in Nat
      BY DEF CrcLength
    <3>2. size = [crc |-> tx.crc, tag |-> IF tx.fullTag THEN 16 ELSE 12,
                  length |-> f.length + CrcLength(tx) + (IF tx.fullTag THEN 16 ELSE 12)]
      BY <2>2 DEF GcmSealed, GcmTag
    <3>3. tx.crc \in BOOLEAN
      BY <1>3 DEF Settings
    <3> HIDE DEF size, tx
    <3>4. size.crc = tx.crc
      BY <3>2
    <3>5. size.tag \in Nat /\ size.length \in Nat
      BY <1>4, <3>1, <3>2
    <3> QED BY <3>3, <3>4, <3>5
  <2>3. CASE f.mode # "gcm"
    BY <1>4, <2>1, <2>3
  <2> QED BY <2>2, <2>3
<1>6. f.mode = "gcm" => /\ size.tag = (IF tx.fullTag THEN 16 ELSE 12) /\ size.crc = tx.crc
                        /\ size.length = f.length + CrcLength(tx) + size.tag
  BY DEF GcmSealed, GcmTag
<1>7. f.mode # "gcm" => size.length = IF f.mode = "ctr" THEN f.length ELSE PaddedLength(f.length)
  OBVIOUS
<1>8. c \in Seq(BlocksOf(f)) /\ Len(c) = n /\ \A j \in 1..n : c[j] = SealedAs(f, j)
  <2>1. c = [j \in 1..n |-> SealedAs(f, j)]
    BY DEF SealBlocks, SealedAs
  <2>2. \A j \in 1..n : SealedAs(f, j) \in BlocksOf(f)
    BY <1>4 DEF BlocksOf
  <2> QED BY <1>4, <2>1, <2>2
<1> HIDE DEF size, n, c
<1>9. fcSealed' \in SealedOf(f)
  BY <1>1, <1>4, <1>5, <1>8 DEF SealedOf
<1>10. SizesRight(f, fcSealed', tx)
  BY <1>1, <1>4, <1>6, <1>7, <1>8 DEF SizesRight, n, CipherModes
<1>11. SealInv'
  BY <1>1, <1>2, <1>3, <1>6, <1>8, <1>9, <1>10, fcSettings \in [{"tx", "rx"} -> Settings] DEF SealInv, NotSealed
<1> QED BY <1>2, <1>11 DEF ReadInv

(* One change on the way, and where it is put down.                         *)
Harms(blocks, length, ci, what, at) ==
  /\ blocks \in Seq(BlocksOf(fcFrame)) /\ length \in Nat /\ ci \in Nat /\ what \in {"block", "end", "ci"}
  /\ fcSealed' = [fcSealed EXCEPT !.blocks = blocks, !.length = length, !.ci = ci]
  /\ fcHarm' = [what |-> what, at |-> at]
  /\ what # "ci" => ci = fcSealed.ci
  /\ \A j \in 1..Len(blocks) : blocks[j] = SealedAs(fcFrame, j) \/ (what = "block" /\ at = j)

LEMMA TamperKeeps ==
  ASSUME SealInv, ReadInv, Tamper
  PROVE  SealInv' /\ ReadInv'
<1> DEFINE s == fcSealed
<1>1. s # NotSealed /\ fcHarm = Unharmed /\ fcResult = Undecided
      /\ UNCHANGED <<fcSettings, fcFrame, fcReader, fcResult>>
  BY DEF Tamper
<1>2. /\ fcFrame \in FcFrames /\ fcSettings \in [{"tx", "rx"} -> Settings] /\ s \in SealedOf(fcFrame)
      /\ s.mode = fcFrame.mode /\ s.aad = AadOf(fcFrame.mode, fcFrame.ci) /\ s.ci = CiOfMode(fcFrame.mode)
      /\ fcFrame.mode = "gcm" => /\ s.tag = (IF fcSettings["tx"].fullTag THEN 16 ELSE 12)
                                 /\ s.crc = fcSettings["tx"].crc
      /\ \A j \in 1..Len(s.blocks) : s.blocks[j] = SealedAs(fcFrame, j)
  BY <1>1 DEF SealInv, Unharmed
<1>3. s.blocks \in Seq(BlocksOf(fcFrame)) /\ Len(s.blocks) \in Nat /\ s.length \in Nat /\ s.mode \in CipherModes
  BY <1>2 DEF SealedOf
<1>4. ASSUME NEW blocks, NEW length, NEW ci, NEW what, NEW at, Harms(blocks, length, ci, what, at)
      PROVE  SealInv' /\ ReadInv'
  <2>1. fcSealed' \in SealedOf(fcFrame) /\ fcSealed'.blocks = blocks /\ fcSealed'.ci = ci
        /\ fcSealed'.mode = s.mode /\ fcSealed'.aad = s.aad /\ fcSealed'.tag = s.tag /\ fcSealed'.crc = s.crc
    BY <1>2, <1>4 DEF SealedOf, Harms
  <2>2. fcHarm'.what = what /\ fcHarm'.at = at /\ fcHarm' # Unharmed
    BY <1>4 DEF Unharmed, Harms
  <2>3. fcSealed' # NotSealed
    BY <2>1, <1>3 DEF NotSealed, CipherModes
  <2> QED BY <1>1, <1>2, <1>4, <2>1, <2>2, <2>3 DEF SealInv, ReadInv, Harms
<1>5. ASSUME NEW i \in DOMAIN s.blocks, fcSealed' = [s EXCEPT !.blocks[i] = Garbled], fcHarm' = [what |-> "block", at |-> i]
      PROVE  SealInv' /\ ReadInv'
  <2> DEFINE blocks == [s.blocks EXCEPT ![i] = Garbled]
  <2>1. Garbled \in BlocksOf(fcFrame)
    BY DEF BlocksOf
  <2>2. blocks \in Seq(BlocksOf(fcFrame)) /\ Len(blocks) = Len(s.blocks)
        /\ \A j \in 1..Len(blocks) : j # i => blocks[j] = s.blocks[j]
    BY <1>3, <1>5, <2>1
  <2>3. fcSealed' = [s EXCEPT !.blocks = blocks, !.length = s.length, !.ci = s.ci]
    BY <1>2, <1>5 DEF SealedOf
  <2> HIDE DEF blocks
  <2>4. \A j \in 1..Len(blocks) : blocks[j] = SealedAs(fcFrame, j) \/ ("block" = "block" /\ i = j)
    BY <1>2, <2>2
  <2>5. s.ci \in Nat /\ "block" \in {"block", "end", "ci"} /\ ("block" # "ci" => s.ci = s.ci)
    BY <1>2 DEF SealedOf
  <2>6. Harms(blocks, s.length, s.ci, "block", i)
    BY <1>3, <1>5, <2>2, <2>3, <2>4, <2>5 DEF Harms
  <2> QED BY <1>4, <2>6
<1>6. ASSUME NEW n \in FcLengths \cup {0},
             fcSealed' = [s EXCEPT !.length = n, !.blocks = FirstBlocks(@, Blocks(n))],
             fcHarm' = [what |-> "end", at |-> n]
      PROVE  SealInv' /\ ReadInv'
  <2> DEFINE m == IF Blocks(n) < Len(s.blocks) THEN Blocks(n) ELSE Len(s.blocks)
             blocks == SubSeq(s.blocks, 1, m)
  <2>1. n \in Nat /\ Blocks(n) \in Nat /\ m \in 0..Len(s.blocks)
    BY <1>3, FcAssumption DEF Blocks
  <2>2. blocks \in Seq(BlocksOf(fcFrame)) /\ Len(blocks) = m /\ \A j \in 1..m : blocks[j] = s.blocks[j]
    <3> HIDE DEF m
    <3> QED BY <1>3, <2>1
  <2>3. fcSealed' = [s EXCEPT !.blocks = blocks, !.length = n, !.ci = s.ci]
    BY <1>2, <1>6 DEF SealedOf, FirstBlocks
  <2> HIDE DEF blocks, m
  <2>4. \A j \in 1..Len(blocks) : blocks[j] = SealedAs(fcFrame, j) \/ ("end" = "block" /\ n = j)
    BY <1>2, <1>3, <2>1, <2>2
  <2>5. s.ci \in Nat /\ "end" \in {"block", "end", "ci"} /\ ("end" # "ci" => s.ci = s.ci)
    BY <1>2 DEF SealedOf
  <2>6. Harms(blocks, n, s.ci, "end", n)
    BY <1>6, <2>1, <2>2, <2>3, <2>4, <2>5 DEF Harms
  <2> QED BY <1>4, <2>6
<1>7. ASSUME NEW ci \in {114, 122, 137, 138, 144}, fcSealed' = [s EXCEPT !.ci = ci], fcHarm' = [what |-> "ci", at |-> 0]
      PROVE  SealInv' /\ ReadInv'
  <2>1. fcSealed' = [s EXCEPT !.blocks = s.blocks, !.length = s.length, !.ci = ci]
    BY <1>2, <1>7 DEF SealedOf
  <2>2. ci \in Nat /\ "ci" \in {"block", "end", "ci"} /\ ("ci" # "ci" => ci = s.ci)
    BY <1>7
  <2>3. \A j \in 1..Len(s.blocks) : s.blocks[j] = SealedAs(fcFrame, j) \/ ("ci" = "block" /\ 0 = j)
    BY <1>2
  <2>4. Harms(s.blocks, s.length, ci, "ci", 0)
    BY <1>3, <1>7, <2>1, <2>2, <2>3 DEF Harms
  <2> QED BY <1>4, <2>4
<1> QED BY <1>5, <1>6, <1>7 DEF Tamper

LEMMA CryptStep == SealInv /\ ReadInv /\ [FcNext]_fcVars => SealInv' /\ ReadInv'
<1> SUFFICES ASSUME SealInv, ReadInv, [FcNext]_fcVars PROVE SealInv' /\ ReadInv'
  OBVIOUS
<1>1. CASE EncryptFrame
  BY <1>1, EncryptKeeps
<1>2. CASE Tamper
  BY <1>2, TamperKeeps
<1>3. ASSUME NEW device, RefuseVendorKey(device) PROVE SealInv' /\ ReadInv'
  <2>1. fcSealed # NotSealed /\ fcResult' = FcError /\ fcReader' = [key |-> <<>>, device |-> device]
        /\ UNCHANGED <<fcSettings, fcFrame, fcSealed, fcHarm>>
    BY <1>3 DEF RefuseVendorKey
  <2>2. fcReader'.key = <<>>
    BY <2>1
  <2> QED BY <2>1, <2>2 DEF SealInv, ReadInv
<1>4. ASSUME NEW key, NEW device, DecryptWith(key, device), fcReader' = [key |-> key, device |-> device]
      PROVE  SealInv' /\ ReadInv'
  <2>1. fcSealed # NotSealed /\ fcResult' \in Results(key, device) /\ UNCHANGED <<fcSettings, fcFrame, fcSealed, fcHarm>>
    BY <1>4 DEF DecryptWith
  <2>2. fcReader'.key = key /\ fcReader'.device = device
    BY <1>4
  <2>3. Results(key, device)' = Results(key, device)
    BY <2>1 DEF Results, GcmResult, GcmTagLength, CbcDecrypt, EcbDecrypt, OwnBlock
  <2> QED BY <2>1, <2>2, <2>3 DEF SealInv, ReadInv
<1>5. CASE UNCHANGED fcVars
  <2>1. UNCHANGED <<fcSettings, fcFrame, fcSealed, fcHarm, fcReader, fcResult>>
    BY <1>5 DEF fcVars
  <2>2. Results(fcReader.key, fcReader.device)' = Results(fcReader.key, fcReader.device)
    BY <2>1 DEF Results, GcmResult, GcmTagLength, CbcDecrypt, EcbDecrypt, OwnBlock
  <2> QED BY <2>1, <2>2 DEF SealInv, ReadInv
<1> QED BY <1>1, <1>2, <1>3, <1>4, <1>5 DEF FcNext, DecryptFrame, DecryptWithVendorKey

-----------------------------------------------------------------------------
(* What the right reader gets of a frame in the modes without tag.          *)

Intact(j) == fcSealed.blocks[j] = SealedAs(fcFrame, j)
Needed(j) == Intact(j) /\ (fcFrame.mode = "cbc" /\ j > 1 => Intact(j - 1))

(* A plaintext of as many blocks, right wherever it was made from blocks    *)
(* that are intact.                                                        *)
Faithful(plain) ==
  /\ plain \in Seq(Nat) /\ Len(plain) = Len(fcSealed.blocks)
  /\ \A j \in 1..Len(fcSealed.blocks) : Needed(j) => plain[j] = j

LEMMA SealedParts ==
  ASSUME SealInv, fcSealed # NotSealed
  PROVE  /\ fcSealed.blocks \in Seq(BlocksOf(fcFrame)) /\ Len(fcSealed.blocks) \in Nat
         /\ DOMAIN fcSealed.blocks = 1..Len(fcSealed.blocks)
         /\ fcSealed.length \in Nat /\ fcSealed.crc \in BOOLEAN /\ fcSealed.ci \in Nat
BY DEF SealInv, SealedOf

LEMMA WholeSizes ==
  ASSUME SealInv, fcSealed # NotSealed, fcFrame.mode # "gcm"
  PROVE  fcHarm = Unharmed =>
           /\ fcSealed.length > 0
           /\ fcFrame.mode \in {"cbc", "ecb"} =>
                /\ fcSealed.length % 16 = 0
                /\ Len(fcSealed.blocks) = Blocks(PaddedLength(fcFrame.length)) /\ Len(fcSealed.blocks) > 0
<1> SUFFICES ASSUME fcHarm = Unharmed
             PROVE  /\ fcSealed.length > 0
                    /\ fcFrame.mode \in {"cbc", "ecb"} =>
                         /\ fcSealed.length % 16 = 0
                         /\ Len(fcSealed.blocks) = Blocks(PaddedLength(fcFrame.length)) /\ Len(fcSealed.blocks) > 0
  OBVIOUS
<1>1. SizesRight(fcFrame, fcSealed, fcSettings["tx"])
  BY DEF SealInv
<1>2. fcFrame.length \in Nat \ {0} /\ fcFrame.mode \in {"ctr", "cbc", "ecb"}
  BY FrameTyped DEF SealInv, CipherModes
<1>3. /\ PaddedLength(fcFrame.length) \in Nat \ {0} /\ PaddedLength(fcFrame.length) % 16 = 0
      /\ Blocks(PaddedLength(fcFrame.length)) \in Nat \ {0}
  BY <1>2, BlocksTyped
<1> QED BY <1>1, <1>2, <1>3 DEF SizesRight, CipherBlocks

LEMMA UnpadsWhole ==
  ASSUME SealInv, fcSealed # NotSealed, fcFrame.mode \in {"cbc", "ecb"}, NEW plain, Faithful(plain), fcHarm = Unharmed
  PROVE  Unpadded(plain, Blocks(PaddedLength(fcFrame.length))) = {FcData(plain)}
<1>1. SUFFICES plain # <<>> /\ plain[Len(plain)] = Blocks(PaddedLength(fcFrame.length))
  BY DEF Unpadded
<1>2. /\ Len(fcSealed.blocks) \in Nat /\ Len(fcSealed.blocks) > 0
      /\ Len(fcSealed.blocks) = Blocks(PaddedLength(fcFrame.length))
  BY WholeSizes, SealedParts
<1>3. \A j \in 1..Len(fcSealed.blocks) : Intact(j)
  BY DEF SealInv, Unharmed, Intact
<1>4. Needed(Len(fcSealed.blocks))
  BY <1>2, <1>3 DEF Needed
<1> QED BY <1>2, <1>4 DEF Faithful

LEMMA ModesFaithful ==
  ASSUME SealInv, fcSealed # NotSealed, RightReader, fcHarm.what # "ci", fcFrame.mode # "gcm"
  PROVE  /\ \A result \in Results(fcReader.key, fcReader.device) :
              result = FcError \/ \E plain : Faithful(plain) /\ result = FcData(plain)
         /\ fcHarm = Unharmed =>
              \A result \in Results(fcReader.key, fcReader.device) : \E plain : Faithful(plain) /\ result = FcData(plain)
<1> DEFINE f == fcFrame
           s == fcSealed
           c == fcSealed.blocks
           key == KeyOf(f)
           iv == IvOf(f.mode, f.device, f.ci)
<1>1. /\ f \in FcFrames /\ f.mode \in {"ctr", "cbc", "ecb"} /\ ModeOfCi(s.ci) = f.mode
      /\ f.length \in Nat \ {0} /\ CipherBlocks(f) \in Nat \ {0}
  BY FrameTyped DEF SealInv, CipherModes
<1>2. c \in Seq(BlocksOf(f)) /\ Len(c) \in Nat /\ DOMAIN c = 1..Len(c) /\ s.length \in Nat
  BY SealedParts
<1>3. fcReader.key = key /\ fcReader.device = f.device /\ IvOf(f.mode, f.device, s.ci) = iv
  <2>1. fcReader = [key |-> key, device |-> f.device]
    BY DEF RightReader, KeyOf
  <2> QED BY <1>1, <2>1 DEF IvOf
<1>4. \A n : OwnBlock("rx", n) = n
  BY DEF RightReader, OwnBlock
<1>5. \A j \in 1..Len(c) : Intact(j) => c[j] = CipherBlock(f.mode, key, iv, j)
  BY DEF Intact, SealedAs
<1>6. \A j \in 1..Len(c) : c[j].of \in Nat
  <2>1. \A b \in BlocksOf(f) : b.of \in Nat
    BY DEF BlocksOf, SealedAs, CipherBlock, Garbled
  <2> QED BY <1>2, <2>1
<1>7. fcHarm = Unharmed => s.length > 0 /\ (f.mode \in {"cbc", "ecb"} => s.length % 16 = 0)
  BY WholeSizes
<1> HIDE DEF f, s, c, key, iv
<1>8. CASE f.mode = "ctr"
  <2> DEFINE plain == CtrProcess(key, iv, c)
  <2>1. Faithful(plain)
    <3>1. plain = [j \in 1..Len(c) |-> IF c[j] = CipherBlock("ctr", key, iv, j) THEN j ELSE 0]
      BY <1>2 DEF CtrProcess
    <3>2. plain \in Seq(Nat) /\ Len(plain) = Len(c)
      BY <1>2, <3>1
    <3>3. \A j \in 1..Len(c) : Intact(j) => plain[j] = j
      BY <1>5, <1>8, <3>1
    <3> QED BY <3>2, <3>3 DEF Faithful, Needed, c
  <2>2. Results(fcReader.key, fcReader.device) = IF s.length > 0 THEN {FcData(plain)} ELSE {FcError}
    BY <1>1, <1>3, <1>8 DEF Results, HasPayload, s, c, f
  <2> QED BY <1>7, <2>1, <2>2
<1>9. CASE f.mode = "cbc"
  <2> DEFINE plain == CbcDecrypt(key, iv, c)
  <2>1. Faithful(plain)
    <3>1. plain = [j \in 1..Len(c) |->
                     IF /\ c[j].mode = "cbc" /\ c[j].key = key
                        /\ IF j = 1 THEN c[1].of = 1 /\ c[1].iv = iv ELSE c[j - 1] = [c[j] EXCEPT !.of = @ - 1]
                     THEN c[j].of ELSE 0]
      BY <1>2, <1>4 DEF CbcDecrypt
    <3>2. plain \in Seq(Nat) /\ Len(plain) = Len(c)
      BY <1>2, <1>6, <3>1
    <3>3. ASSUME NEW j \in 1..Len(c), Needed(j) PROVE plain[j] = j
      <4>1. c[j] = CipherBlock("cbc", key, iv, j)
        BY <1>5, <1>9, <3>3 DEF Needed
      <4>2. c[j].mode = "cbc" /\ c[j].key = key /\ c[j].iv = iv /\ c[j].of = j
        BY <4>1 DEF CipherBlock
      <4>3. j # 1 => c[j - 1] = [c[j] EXCEPT !.of = @ - 1]
        <5>1. SUFFICES ASSUME j # 1 PROVE c[j - 1] = [c[j] EXCEPT !.of = @ - 1]
          OBVIOUS
        <5>2. j - 1 \in 1..Len(c) /\ j > 1
          BY <1>2, <5>1
        <5>3. Intact(j - 1)
          BY <1>9, <3>3, <5>2 DEF Needed, f
        <5>4. c[j - 1] = CipherBlock("cbc", key, iv, j - 1)
          BY <1>5, <1>9, <5>2, <5>3
        <5> QED BY <4>1, <5>4 DEF CipherBlock
      <4> QED BY <3>1, <4>2, <4>3
    <3> HIDE DEF plain
    <3> QED BY <3>2, <3>3 DEF Faithful, c
  <2>2. Results(fcReader.key, fcReader.device) =
          IF s.length > 0 /\ s.length % 16 = 0 THEN Unpadded(plain, Blocks(PaddedLength(f.length))) ELSE {FcError}
    BY <1>1, <1>2, <1>3, <1>9 DEF Results, HasPayload, s, c, f
  <2>3. Unpadded(plain, Blocks(PaddedLength(f.length))) \subseteq {FcError, FcData(plain)}
    BY DEF Unpadded
  <2>4. fcHarm = Unharmed => Unpadded(plain, Blocks(PaddedLength(f.length))) = {FcData(plain)}
    BY <1>9, <2>1, UnpadsWhole DEF f
  <2> HIDE DEF plain
  <2> QED BY <1>7, <1>9, <2>1, <2>2, <2>3, <2>4
<1>10. CASE f.mode = "ecb"
  <2> DEFINE plain == EcbDecrypt(key, c)
  <2>1. Faithful(plain)
    <3>1. plain = [j \in 1..Len(c) |-> IF c[j].mode = "ecb" /\ c[j].key = key THEN c[j].of ELSE 0]
      BY <1>2, <1>4 DEF EcbDecrypt
    <3>2. plain \in Seq(Nat) /\ Len(plain) = Len(c)
      BY <1>2, <1>6, <3>1
    <3>3. ASSUME NEW j \in 1..Len(c), Needed(j) PROVE plain[j] = j
      <4>1. c[j] = CipherBlock("ecb", key, iv, j)
        BY <1>5, <1>10, <3>3 DEF Needed
      <4>2. c[j].mode = "ecb" /\ c[j].key = key /\ c[j].of = j
        BY <4>1 DEF CipherBlock
      <4> QED BY <3>1, <4>2
    <3> HIDE DEF plain
    <3> QED BY <3>2, <3>3 DEF Faithful, c
  <2>2. Results(fcReader.key, fcReader.device) =
          IF s.length > 0 /\ s.length % 16 = 0 THEN Unpadded(plain, Blocks(PaddedLength(f.length))) ELSE {FcError}
    BY <1>1, <1>2, <1>3, <1>10 DEF Results, HasPayload, s, c, f
  <2>3. Unpadded(plain, Blocks(PaddedLength(f.length))) \subseteq {FcError, FcData(plain)}
    BY DEF Unpadded
  <2>4. fcHarm = Unharmed => Unpadded(plain, Blocks(PaddedLength(f.length))) = {FcData(plain)}
    BY <1>10, <2>1, UnpadsWhole DEF f
  <2> HIDE DEF plain
  <2> QED BY <1>7, <1>10, <2>1, <2>2, <2>3, <2>4
<1> QED BY <1>1, <1>8, <1>9, <1>10

-----------------------------------------------------------------------------
(* Mode 9, whoever reads it.                                               *)

LEMMA GcmChecks ==
  ASSUME SealInv, NEW key, NEW device, NEW result \in Results(key, device), ModeOfCi(fcSealed.ci) = "gcm",
         result.kind = "data"
  PROVE  /\ fcHarm = Unharmed
         /\ result = FcData([j \in DOMAIN fcSealed.blocks |-> j] \o IF fcSealed.crc THEN <<0>> ELSE <<>>)
<1>1. result = FcError \/ result = GcmResult(fcSealed, key, IvOf("gcm", device, fcSealed.ci))
  BY DEF Results
<1>2. result # FcError
  BY DEF FcError
<1> QED BY <1>1, <1>2 DEF GcmResult

LEMMA NumbersFirst ==
  ASSUME NEW n \in Nat, NEW more \in Seq(Nat)
  PROVE  /\ SubSeq([j \in 1..n |-> j] \o more, 1, n) = [j \in 1..n |-> j]
         /\ [j \in 1..n |-> j] \o <<>> = [j \in 1..n |-> j]
<1> DEFINE a == [j \in 1..n |-> j]
<1>1. a \in Seq(Nat) /\ Len(a) = n /\ \A j \in 1..n : a[j] = j
  OBVIOUS
<1> HIDE DEF a
<1>2. a \o more \in Seq(Nat) /\ Len(a \o more) = n + Len(more) /\ \A j \in 1..n : (a \o more)[j] = j
  BY <1>1
<1>3. SubSeq(a \o more, 1, n) \in Seq(Nat) /\ Len(SubSeq(a \o more, 1, n)) = n
      /\ \A j \in 1..n : SubSeq(a \o more, 1, n)[j] = j
  BY <1>2
<1>4. SubSeq(a \o more, 1, n) = a
  BY <1>1, <1>3
<1>5. a \o <<>> = a
  BY <1>1
<1> QED BY <1>4, <1>5 DEF a

LEMMA AuthenticHolds ==
  ASSUME SealInv, ReadInv
  PROVE  Authentic
<1> SUFFICES ASSUME fcSealed.mode = "gcm", ModeOfCi(fcSealed.ci) = "gcm", fcResult.kind = "data"
             PROVE  fcHarm = Unharmed /\ SubSeq(fcResult.blocks, 1, PlainBlocks) = [j \in 1..PlainBlocks |-> j]
  BY DEF Authentic
<1>1. fcResult # Undecided /\ fcResult # FcError
  BY DEF Undecided, FcError
<1>2. fcSealed # NotSealed /\ fcResult \in Results(fcReader.key, fcReader.device)
  BY <1>1 DEF ReadInv
<1>3. /\ fcHarm = Unharmed
      /\ fcResult = FcData([j \in DOMAIN fcSealed.blocks |-> j] \o IF fcSealed.crc THEN <<0>> ELSE <<>>)
  BY <1>2, GcmChecks
<1>4. DOMAIN fcSealed.blocks = 1..PlainBlocks
  <2>1. Len(fcSealed.blocks) = CipherBlocks(fcFrame)
    BY <1>2, <1>3 DEF SealInv, SizesRight
  <2> QED BY <1>2, <2>1, SealedParts DEF PlainBlocks, CipherBlocks
<1>5. PlainBlocks \in Nat
  BY FrameTyped DEF SealInv, PlainBlocks, CipherBlocks
<1>6. fcResult.blocks = [j \in 1..PlainBlocks |-> j] \o IF fcSealed.crc THEN <<0>> ELSE <<>>
  BY <1>3, <1>4 DEF FcData
<1> QED BY <1>3, <1>5, <1>6, NumbersFirst

LEMMA RoundTripHolds ==
  ASSUME SealInv, ReadInv
  PROVE  RoundTrip
<1> SUFFICES ASSUME fcResult # Undecided, fcHarm = Unharmed, RightReader
             PROVE  fcResult = FcData([j \in 1..PlainBlocks |-> j])
  BY DEF RoundTrip
<1> DEFINE f == fcFrame
           s == fcSealed
<1>1. fcReader.key = KeyOf(f) /\ fcReader.device = f.device /\ fcReader.key # <<>>
  <2>1. fcReader = [key |-> KeyOf(f), device |-> f.device]
    BY DEF RightReader, KeyOf
  <2>2. KeyOf(f) # <<>>
    BY DEF KeyOf, DeriveKey
  <2> QED BY <2>1, <2>2
<1>2. s # NotSealed /\ fcResult \in Results(fcReader.key, fcReader.device)
  BY <1>1 DEF ReadInv
<1>3. Len(s.blocks) = PlainBlocks /\ PlainBlocks \in Nat /\ DOMAIN s.blocks = 1..PlainBlocks
  <2>1. Len(s.blocks) = CipherBlocks(f)
    BY <1>2 DEF SealInv, SizesRight
  <2> QED BY <1>2, <2>1, SealedParts DEF PlainBlocks, CipherBlocks
<1>4. \A j \in 1..Len(s.blocks) : Intact(j)
  BY <1>2 DEF SealInv, Unharmed, Intact
<1>5. CASE f.mode # "gcm"
  <2>1. PICK plain : Faithful(plain) /\ fcResult = FcData(plain)
    BY <1>2, <1>5, ModesFaithful DEF Unharmed
  <2>2. \A j \in 1..PlainBlocks : plain[j] = j
    BY <1>3, <1>4, <2>1 DEF Faithful, Needed
  <2>3. plain = [j \in 1..PlainBlocks |-> j]
    BY <1>3, <2>1, <2>2 DEF Faithful
  <2> QED BY <2>1, <2>3
<1>6. CASE f.mode = "gcm"
  <2> DEFINE iv == IvOf("gcm", f.device, s.ci)
  <2>1. /\ f \in FcFrames /\ f.length \in Nat \ {0} /\ s.ci = 137 /\ s.mode = "gcm" /\ ModeOfCi(s.ci) = "gcm"
        /\ s.aad = AadOf("gcm", f.ci) /\ s.length = f.length + CrcLength(fcSettings["tx"]) + s.tag
        /\ s.tag = (IF fcSettings["tx"].fullTag THEN 16 ELSE 12) /\ s.crc = fcSettings["tx"].crc
    BY <1>2, <1>6, FrameTyped DEF SealInv, SizesRight, Unharmed, CiOfMode, ModeOfCi
  <2>2. fcSettings["tx"].fullTag /\ fcSettings["rx"].fullTag /\ ~fcSettings["tx"].crc /\ ~fcSettings["rx"].crc
        /\ f.ci % 16 = 9 /\ f.device.access # 256
    BY <1>6 DEF RightReader, GcmAgrees
  <2>3. s.tag = 16 /\ s.length = f.length + 16 /\ s.length >= 16
    BY <2>1, <2>2 DEF CrcLength
  <2>4. GcmTagLength(s) = 16
    BY <2>2, <2>3 DEF GcmTagLength
  <2>5. s.aad = AadOf("gcm", s.ci)
    BY <2>1, <2>2 DEF AadOf
  <2>6. IvOf(f.mode, f.device, f.ci) = iv
    BY <1>6, <2>2 DEF IvOf, GcmIv
  <2>7. s.blocks = [j \in DOMAIN s.blocks |-> CipherBlock("gcm", fcReader.key, iv, j)]
    <3>1. s.blocks \in Seq(BlocksOf(f))
      BY <1>2, SealedParts
    <3>2. \A j \in DOMAIN s.blocks : s.blocks[j] = CipherBlock("gcm", fcReader.key, iv, j)
      BY <1>1, <1>3, <1>4, <1>6, <2>6 DEF Intact, SealedAs
    <3> QED BY <3>1, <3>2
  <2>8. ~s.crc
    BY <2>1, <2>2
  <2> HIDE DEF iv
  <2>9. GcmResult(s, fcReader.key, iv) = FcData([j \in DOMAIN s.blocks |-> j] \o <<>>)
    BY <2>1, <2>2, <2>3, <2>4, <2>5, <2>7, <2>8 DEF GcmResult
  <2>10. Results(fcReader.key, fcReader.device) = {GcmResult(s, fcReader.key, iv)}
    BY <1>1, <2>1, <2>3 DEF Results, HasPayload, iv
  <2> QED BY <1>2, <1>3, <2>9, <2>10, NumbersFirst
<1> QED BY <1>5, <1>6

LEMMA SpoilsHolds ==
  ASSUME SealInv, ReadInv
  PROVE  SpoilsLocally
<1> SUFFICES ASSUME fcResult.kind = "data", fcHarm.what \in {"block", "end"}, RightReader, NEW j \in DOMAIN fcResult.blocks
             PROVE  \/ fcResult.blocks[j] = j
                    \/ fcHarm.what = "block" /\ j \in {fcHarm.at} \cup (IF fcFrame.mode = "cbc" THEN {fcHarm.at + 1} ELSE {})
  BY DEF SpoilsLocally
<1>1. fcResult # Undecided /\ fcResult # FcError /\ fcHarm # Unharmed
  BY DEF Undecided, FcError, Unharmed
<1>2. fcSealed # NotSealed /\ fcResult \in Results(fcReader.key, fcReader.device)
  BY <1>1 DEF ReadInv
<1>3. fcFrame.mode # "gcm"
  <2>1. SUFFICES ASSUME fcFrame.mode = "gcm" PROVE FALSE
    OBVIOUS
  <2>2. ModeOfCi(fcSealed.ci) = "gcm"
    BY <1>2, <2>1 DEF SealInv, CiOfMode, ModeOfCi
  <2> QED BY <1>1, <1>2, <2>2, GcmChecks
<1>4. PICK plain : Faithful(plain) /\ fcResult = FcData(plain)
  BY <1>1, <1>2, <1>3, ModesFaithful
<1>5. Len(fcSealed.blocks) \in Nat /\ fcResult.blocks = plain /\ j \in 1..Len(fcSealed.blocks)
  <2>1. fcResult.blocks = plain
    BY <1>4 DEF FcData
  <2> QED BY <1>2, <1>4, <2>1, SealedParts DEF Faithful
<1>6. \A i \in 1..Len(fcSealed.blocks) : Intact(i) \/ (fcHarm.what = "block" /\ fcHarm.at = i)
  BY <1>2 DEF SealInv, Intact
<1>7. CASE Needed(j)
  BY <1>4, <1>5, <1>7 DEF Faithful
<1>8. CASE ~Intact(j)
  BY <1>5, <1>6, <1>8
<1>9. CASE fcFrame.mode = "cbc" /\ j > 1 /\ ~Intact(j - 1)
  <2>1. j - 1 \in 1..Len(fcSealed.blocks)
    BY <1>5, <1>9
  <2>2. fcHarm.what = "block" /\ fcHarm.at = j - 1
    BY <1>6, <1>9, <2>1
  <2>3. fcHarm.at + 1 = j
    BY <1>5, <2>2
  <2> QED BY <1>9, <2>2, <2>3
<1> QED BY <1>7, <1>8, <1>9 DEF Needed

-----------------------------------------------------------------------------
(* Digests tell apart whatever they are made of.                           *)
LEMMA DigestsHold == DigestsBind
<1>1. ASSUME NEW n \in 0..130 PROVE 64 * ShaBlocks(n) >= n + 9 /\ 64 * (ShaBlocks(n) - 1) < n + 9
  BY DEF ShaBlocks
<1>2. ASSUME NEW k1 \in FcKeys, NEW k2 \in FcKeys, NEW c1 \in 1..2, NEW c2 \in 1..2
      PROVE  QundisResponse(FALSE, k1, c1) = QundisResponse(FALSE, k2, c2) <=> k1 = k2 /\ c1 = c2
  BY DEF QundisResponse, HmacSha1, Digest
<1>3. ASSUME NEW k1 \in FcKeys, NEW k2 \in FcKeys, NEW m1 \in MicMessages, NEW m2 \in MicMessages
      PROVE  MicVerifies(k1, m1, LorawanMic(k2, m2)) <=> k1 = k2 /\ m1 = m2
  <2>1. MicVerifies(k1, m1, LorawanMic(k2, m2)) =>
          /\ k1 = k2 /\ m1.direction = m2.direction /\ m1.address = m2.address /\ m1.counter = m2.counter
          /\ m1.text = m2.text /\ m1.length = m2.length
    BY DEF MicVerifies, LorawanMic, MicHeader
  <2>2. ASSUME m1.direction = m2.direction, m1.address = m2.address, m1.counter = m2.counter,
               m1.text = m2.text, m1.length = m2.length
        PROVE  m1 = m2
    BY <2>2 DEF MicMessages
  <2> QED BY <2>1, <2>2 DEF MicVerifies
<1> QED BY <1>1, <1>2, <1>3 DEF DigestsBind

LEMMA CryptHolds == SealInv /\ ReadInv => CryptoSound
BY AuthenticHolds, RoundTripHolds, SpoilsHolds, DigestsHold DEF CryptoSound

-----------------------------------------------------------------------------
(* The keys of the gateway.                                                *)

KeyTyped ==
  /\ gsUp \in BOOLEAN
  /\ gsDb \in [GsMeters -> GsKeys \cup {NoKey}] /\ gsMem \in [GsMeters -> GsKeys \cup {NoKey}]
  /\ gsCommitted \in [GsMeters -> SUBSET GsKeys]
  /\ gsInbox \in [GsBrokers -> Seq([meter : GsMeters, key : GsKeys \cup {Malformed}])]
  /\ gsInstalling \in [GsBrokers -> {NoKeyMessage} \cup [meter : GsMeters, key : GsKeys]]

Installs(b, m) == gsInstalling[b] # NoKeyMessage /\ gsInstalling[b].meter = m

(* What is being installed is committed, and for a meter that was never     *)
(* raced it is one broker that installs, and what the store has.           *)
Installing ==
  /\ ~gsUp => \A b \in GsBrokers : gsInstalling[b] = NoKeyMessage
  /\ \A m \in GsMeters : gsDb[m] # NoKey => gsDb[m] \in gsCommitted[m]
  /\ \A b \in GsBrokers, m \in GsMeters : Installs(b, m) => gsInstalling[b].key \in gsCommitted[m]
  /\ \A m \in GsMeters \ gsRaced : \A b, c \in GsBrokers :
       Installs(b, m) => gsInstalling[b].key = gsDb[m] /\ (Installs(c, m) => b = c)

InMemory ==
  gsUp => \A m \in GsMeters :
    /\ gsMem[m] \in gsCommitted[m] \cup {GsSeed[m]}
    /\ gsDb[m] = NoKey \/ gsMem[m] = gsDb[m] \/ m \in gsRaced \/ \E b \in GsBrokers : Installs(b, m)

KeyInv == KeyTyped /\ Installing /\ InMemory

LEMMA KeysStart == GsInit => KeyInv
<1> SUFFICES ASSUME GsInit PROVE KeyInv
  OBVIOUS
<1>1. KeyTyped
  <2>1. gsDb \in [GsMeters -> GsKeys \cup {NoKey}] /\ gsMem = gsDb /\ gsUp = FALSE
    BY DEF GsInit
  <2>2. gsCommitted \in [GsMeters -> SUBSET GsKeys]
    BY DEF GsInit
  <2>3. gsInbox \in [GsBrokers -> Seq([meter : GsMeters, key : GsKeys \cup {Malformed}])]
    BY EmptySeq DEF GsInit
  <2>4. gsInstalling \in [GsBrokers -> {NoKeyMessage} \cup [meter : GsMeters, key : GsKeys]]
    BY DEF GsInit
  <2> QED BY <2>1, <2>2, <2>3, <2>4 DEF KeyTyped
<1>2. Installing
  BY DEF GsInit, Installing, Installs
<1> QED BY <1>1, <1>2 DEF KeyInv, InMemory, GsInit

LEMMA InstallStep == KeyInv /\ [KeyNext \/ DeviceNext]_gsVars => KeyInv'
<1> SUFFICES ASSUME KeyInv, [KeyNext \/ DeviceNext]_gsVars PROVE KeyInv'
  OBVIOUS
<1> USE DEF KeyInv
<1>0. /\ gsUp \in BOOLEAN
      /\ gsDb \in [GsMeters -> GsKeys \cup {NoKey}] /\ gsMem \in [GsMeters -> GsKeys \cup {NoKey}]
      /\ gsCommitted \in [GsMeters -> SUBSET GsKeys]
      /\ gsInbox \in [GsBrokers -> Seq([meter : GsMeters, key : GsKeys \cup {Malformed}])]
      /\ gsInstalling \in [GsBrokers -> {NoKeyMessage} \cup [meter : GsMeters, key : GsKeys]]
      /\ NoKey \notin GsKeys /\ Malformed \notin GsKeys /\ GsSeed \in [GsMeters -> GsKeys \cup {NoKey}]
  BY GsAssumption DEF KeyTyped
<1>1. CASE StartMonitor
  <2>1. /\ gsUp' /\ gsMem' = Loaded(gsDb) /\ UNCHANGED <<gsDb, gsInbox, gsInstalling, gsCommitted, gsRaced>> /\ ~gsUp
        /\ gsUp' \in BOOLEAN
    BY <1>1 DEF StartMonitor
  <2>2. KeyTyped'
    BY <1>0, <2>1 DEF KeyTyped, Loaded
  <2>3. Installing'
    BY <2>1 DEF Installing, Installs
  <2>4. InMemory'
    BY <1>0, <2>1 DEF Installing, InMemory, Loaded
  <2> QED BY <2>2, <2>3, <2>4
<1>2. CASE StopMonitor
  <2>1. /\ ~gsUp' /\ gsUp' \in BOOLEAN /\ gsMem' = [m \in GsMeters |-> NoKey] /\ UNCHANGED <<gsDb, gsInbox, gsCommitted, gsRaced>>
        /\ gsInstalling' = [b \in GsBrokers |-> NoKeyMessage]
    BY <1>2 DEF StopMonitor
  <2>2. KeyTyped'
    BY <1>0, <2>1 DEF KeyTyped
  <2>3. Installing'
    BY <2>1 DEF Installing, Installs
  <2> QED BY <2>1, <2>2, <2>3 DEF InMemory
<1>3. ASSUME NEW b \in GsBrokers, StoreKey(b) PROVE KeyInv'
  <2> DEFINE msg == Head(gsInbox[b])
             m == msg.meter
             key == msg.key
  <2>1. /\ gsUp /\ gsInstalling[b] = NoKeyMessage /\ gsInbox[b] # <<>>
        /\ gsInbox' = [gsInbox EXCEPT ![b] = Tail(@)] /\ UNCHANGED <<gsUp, gsMem>>
    BY <1>3 DEF StoreKey
  <2>2. msg \in [meter : GsMeters, key : GsKeys \cup {Malformed}] /\ Tail(gsInbox[b]) \in Seq([meter : GsMeters, key : GsKeys \cup {Malformed}])
    BY <1>0, <2>1, HeadTailProperties
  <2>3. CASE UNCHANGED <<gsDb, gsCommitted, gsInstalling, gsRaced>>
    <3>1. KeyTyped'
      BY <1>0, <2>1, <2>2, <2>3 DEF KeyTyped
    <3>2. Installing' /\ InMemory'
      BY <2>1, <2>3 DEF Installing, InMemory, Installs
    <3> QED BY <3>1, <3>2
  <2>4. CASE /\ key # Malformed /\ Committed(m, key)
             /\ gsInstalling' = [gsInstalling EXCEPT ![b] = msg]
             /\ gsRaced' = IF \E c \in GsBrokers : gsInstalling[c].meter = m THEN gsRaced \cup {m} ELSE gsRaced
    <3>1. m \in GsMeters /\ key \in GsKeys /\ msg \in [meter : GsMeters, key : GsKeys] /\ msg # NoKeyMessage
      BY <1>0, <2>2, <2>4 DEF NoKeyMessage
    <3> HIDE DEF msg
    <3>2. gsDb' = [gsDb EXCEPT ![m] = key] /\ gsCommitted' = [gsCommitted EXCEPT ![m] = @ \cup {key}]
      BY <2>4 DEF Committed
    <3>3. KeyTyped'
      BY <1>0, <2>1, <2>2, <2>4, <3>1, <3>2 DEF KeyTyped, msg
    <3>4. /\ \A d \in GsMeters : (d # m => gsDb'[d] = gsDb[d] /\ gsCommitted'[d] = gsCommitted[d])
                                 /\ gsCommitted[d] \subseteq gsCommitted'[d]
          /\ gsDb'[m] = key /\ key \in gsCommitted'[m]
      BY <1>0, <3>1, <3>2
    <3>5. /\ \A c \in GsBrokers : c # b => gsInstalling'[c] = gsInstalling[c]
          /\ gsInstalling'[b] = msg /\ gsInstalling'[b].key = key
          /\ \A d \in GsMeters : Installs(b, d)' <=> d = m
          /\ \A d \in GsMeters, c \in GsBrokers : c # b => (Installs(c, d)' <=> Installs(c, d))
          /\ \A d \in GsMeters : ~Installs(b, d)
      BY <1>0, <2>1, <2>4, <3>1 DEF Installs
    <3>6. gsRaced \subseteq gsRaced' /\ (m \notin gsRaced' => \A c \in GsBrokers : ~Installs(c, m))
      BY <2>4 DEF Installs
    <3>7. Installing'
      <4>1. \A d \in GsMeters : gsDb'[d] # NoKey => gsDb'[d] \in gsCommitted'[d]
        BY <3>4 DEF Installing
      <4>2. \A c \in GsBrokers, d \in GsMeters : Installs(c, d)' => gsInstalling'[c].key \in gsCommitted'[d]
        BY <3>4, <3>5 DEF Installing
      <4>3. ASSUME NEW d \in GsMeters \ gsRaced', NEW c \in GsBrokers, NEW e \in GsBrokers, Installs(c, d)'
            PROVE  gsInstalling'[c].key = gsDb'[d] /\ (Installs(e, d)' => c = e)
        <5>1. CASE d = m
          BY <3>4, <3>5, <3>6, <4>3, <5>1
        <5>2. CASE d # m
          BY <3>4, <3>5, <3>6, <4>3, <5>2 DEF Installing
        <5> QED BY <5>1, <5>2
      <4> QED BY <2>1, <4>1, <4>2, <4>3 DEF Installing
    <3>8. InMemory'
      <4> SUFFICES ASSUME NEW d \in GsMeters
                   PROVE  /\ gsMem'[d] \in gsCommitted'[d] \cup {GsSeed[d]}
                          /\ gsDb'[d] = NoKey \/ gsMem'[d] = gsDb'[d] \/ d \in gsRaced' \/ \E c \in GsBrokers : Installs(c, d)'
        BY DEF InMemory
      <4>1. /\ gsMem[d] \in gsCommitted[d] \cup {GsSeed[d]}
            /\ gsDb[d] = NoKey \/ gsMem[d] = gsDb[d] \/ d \in gsRaced \/ \E c \in GsBrokers : Installs(c, d)
        BY <2>1 DEF InMemory
      <4>2. CASE d = m
        BY <2>1, <3>4, <3>5, <4>1, <4>2
      <4>3. CASE d # m
        BY <2>1, <3>4, <3>5, <3>6, <4>1, <4>3
      <4> QED BY <4>2, <4>3
    <3> QED BY <3>3, <3>7, <3>8
  <2> QED BY <1>3, <2>3, <2>4 DEF StoreKey
<1>4. ASSUME NEW b \in GsBrokers, InstallKey(b) PROVE KeyInv'
  <2> DEFINE msg == gsInstalling[b]
  <2>1. /\ msg # NoKeyMessage /\ gsMem' = [gsMem EXCEPT ![msg.meter] = msg.key]
        /\ gsInstalling' = [gsInstalling EXCEPT ![b] = NoKeyMessage] /\ UNCHANGED <<gsUp, gsDb, gsInbox, gsCommitted, gsRaced>>
    BY <1>4 DEF InstallKey
  <2>2. msg \in [meter : GsMeters, key : GsKeys] /\ msg.meter \in GsMeters /\ msg.key \in GsKeys
    BY <1>0, <2>1
  <2>3. /\ \A c \in GsBrokers : gsInstalling'[c] = IF c = b THEN NoKeyMessage ELSE gsInstalling[c]
        /\ \A d \in GsMeters : gsMem'[d] = IF d = msg.meter THEN msg.key ELSE gsMem[d]
        /\ \A d \in GsMeters : Installs(b, d) <=> d = msg.meter
        /\ \A d \in GsMeters, c \in GsBrokers : Installs(c, d)' <=> Installs(c, d) /\ c # b
    BY <1>0, <2>1, <2>2 DEF Installs
  <2>4. KeyTyped'
    BY <1>0, <2>1, <2>2 DEF KeyTyped
  <2>5. Installing'
    BY <2>1, <2>3 DEF Installing
  <2>6. InMemory'
    <3> SUFFICES ASSUME gsUp, NEW d \in GsMeters
                 PROVE  /\ gsMem'[d] \in gsCommitted'[d] \cup {GsSeed[d]}
                        /\ gsDb'[d] = NoKey \/ gsMem'[d] = gsDb'[d] \/ d \in gsRaced' \/ \E c \in GsBrokers : Installs(c, d)'
      BY <2>1 DEF InMemory
    <3>1. CASE d = msg.meter
      <4>1. gsMem'[d] = msg.key /\ msg.key \in gsCommitted[d] /\ (d \notin gsRaced => msg.key = gsDb[d])
        BY <2>3, <3>1 DEF Installing
      <4> QED BY <2>1, <4>1
    <3>2. CASE d # msg.meter
      BY <2>1, <2>3, <3>2 DEF InMemory
    <3> QED BY <3>1, <3>2
  <2> QED BY <2>4, <2>5, <2>6
<1>5. ASSUME NEW b \in GsBrokers, NEW m \in GsMeters, NEW key \in GsKeys \cup {Malformed}, PushKey(b, m, key) PROVE KeyInv'
  <2>1. /\ gsInbox' = [gsInbox EXCEPT ![b] = Append(@, [meter |-> m, key |-> key])]
        /\ UNCHANGED <<gsUp, gsDb, gsMem, gsInstalling, gsCommitted, gsRaced>>
    BY <1>5 DEF PushKey
  <2>2. Append(gsInbox[b], [meter |-> m, key |-> key]) \in Seq([meter : GsMeters, key : GsKeys \cup {Malformed}])
    <3>1. gsInbox[b] \in Seq([meter : GsMeters, key : GsKeys \cup {Malformed}])
      BY <1>0
    <3>2. [meter |-> m, key |-> key] \in [meter : GsMeters, key : GsKeys \cup {Malformed}]
      OBVIOUS
    <3> QED BY <3>1, <3>2, AppendProperties
  <2>3. KeyTyped'
    BY <1>0, <2>1, <2>2 DEF KeyTyped
  <2>4. Installing' /\ InMemory'
    BY <2>1 DEF Installing, InMemory, Installs
  <2> QED BY <2>3, <2>4
<1>6. ASSUME NEW m \in GsMeters, NEW key \in GsKeys, ImportKey(m, key) PROVE KeyInv'
  <2>1. /\ ~gsUp /\ gsDb' = [gsDb EXCEPT ![m] = key] /\ gsCommitted' = [gsCommitted EXCEPT ![m] = @ \cup {key}]
        /\ UNCHANGED <<gsUp, gsMem, gsInbox, gsInstalling, gsRaced>>
    BY <1>6 DEF ImportKey, Committed
  <2>2. KeyTyped'
    BY <1>0, <2>1 DEF KeyTyped
  <2>3. Installing'
    BY <1>0, <2>1 DEF Installing, Installs
  <2> QED BY <2>1, <2>2, <2>3 DEF InMemory
<1>7. ASSUME NEW m \in GsMeters, RemoveKey(m) PROVE KeyInv'
  <2>1. /\ ~gsUp /\ gsDb' = [gsDb EXCEPT ![m] = NoKey] /\ UNCHANGED <<gsUp, gsMem, gsInbox, gsInstalling, gsRaced, gsCommitted>>
    BY <1>7 DEF RemoveKey
  <2>2. KeyTyped'
    BY <1>0, <2>1 DEF KeyTyped
  <2>3. Installing'
    BY <1>0, <2>1 DEF Installing, Installs
  <2> QED BY <2>1, <2>2, <2>3 DEF InMemory
<1>8. ASSUME UNCHANGED <<gsUp, keyVars>> PROVE KeyInv'
  <2>1. UNCHANGED <<gsUp, gsDb, gsMem, gsInbox, gsInstalling, gsCommitted, gsRaced>>
    BY <1>8 DEF keyVars
  <2>2. KeyTyped'
    BY <2>1 DEF KeyTyped
  <2>3. Installing'
    BY <2>1 DEF Installing, Installs
  <2>4. InMemory'
    BY <2>1 DEF InMemory, Installs
  <2> QED BY <2>2, <2>3, <2>4
<1>9. CASE DeviceNext /\ ~LifeNext
  BY <1>8, <1>9 DEF DeviceNext, GsElapse, RecordFrame, CheckSilence, PruneGhosts, ImportDump
<1>10. CASE UNCHANGED gsVars
  BY <1>8, <1>10 DEF gsVars, keyVars
<1> QED BY <1>1, <1>2, <1>3, <1>4, <1>5, <1>6, <1>7, <1>9, <1>10 DEF KeyNext, DeviceNext, LifeNext

LEMMA KeysHold == KeyInv => KeysDurable
BY DEF KeyInv, InMemory, KeysDurable, Installs

-----------------------------------------------------------------------------
(* The devices of the gateway and their histories.                          *)

Happening == {"first_seen", "key", "silent", "resumed"}
Record == [ok : Nat, fail : Nat, key : BOOLEAN, silent : BOOLEAN, seen : Nat]

(* A history tells of a device that is known or not, and silent or not.     *)
FirstSeen(h) == {i \in DOMAIN h : h[i] = "first_seen"}
InTurns(h) ==
  \A i \in DOMAIN h : (h[i] = "silent" => ~Silent(h, i - 1)) /\ (h[i] = "resumed" => Silent(h, i - 1))
LogTells(h, known, silent) ==
  /\ h \in Seq(Happening) /\ FirstSeen(h) = (IF known THEN {1} ELSE {}) /\ InTurns(h)
  /\ silent <=> Silent(h, Len(h))
  /\ known \/ h = <<>>

DevTyped ==
  /\ DOMAIN gsDevices \subseteq GsMeters /\ gsDevices \in [DOMAIN gsDevices -> Record]
  /\ gsLog \in [GsMeters -> Seq(Happening)] /\ gsNow \in Nat

LogInv ==
  /\ DevTyped
  /\ \A m \in GsMeters \ gsMerged : /\ LogTells(gsLog[m], Known(m), Known(m) /\ gsDevices[m].silent)
                                    /\ Known(m) => gsDevices[m].ok > 0

LEMMA EmptyTells == LogTells(<<>>, FALSE, FALSE)
<1>1. <<>> \in Seq(Happening) /\ Len(<<>>) = 0
  BY EmptySeq
<1>2. DOMAIN <<>> = {}
  BY <1>1
<1>3. ~Silent(<<>>, 0)
  BY DEF Silent
<1> QED BY <1>1, <1>2, <1>3 DEF LogTells, FirstSeen, InTurns

(* An event more: whether the device is silent after it, and the turns.     *)
LEMMA SilentAppend ==
  ASSUME NEW h \in Seq(Happening), NEW k \in Happening
  PROVE  /\ \A n \in 0..Len(h) : Silent(Append(h, k), n) <=> Silent(h, n)
         /\ Silent(Append(h, k), Len(h) + 1) <=> k = "silent" \/ (k # "resumed" /\ Silent(h, Len(h)))
<1> DEFINE g == Append(h, k)
<1>1. PICK n \in Nat : n = Len(h)
  BY LenProperties
<1>2. Len(g) = n + 1 /\ g[n + 1] = k /\ \A i \in 1..n : g[i] = h[i]
  BY <1>1, AppendProperties
<1> HIDE DEF g
<1>3. ASSUME NEW l \in 0..n PROVE Silent(g, l) <=> Silent(h, l)
  <2>1. \A i \in 1..l : i \in 1..n
    BY <1>1
  <2>2. \A i \in 1..l : \A j \in i + 1..l : j \in 1..n
    BY <1>1
  <2> QED BY <1>2, <2>1, <2>2 DEF Silent
<1>4. CASE k = "silent"
  <2>1. n + 1 \in 1..n + 1 /\ g[n + 1] = "silent" /\ \A j \in n + 1 + 1..n + 1 : g[j] # "resumed"
    BY <1>1, <1>2, <1>4
  <2>2. Silent(g, n + 1)
    BY <2>1 DEF Silent
  <2> QED BY <1>1, <1>3, <1>4, <2>2 DEF g
<1>5. CASE k = "resumed"
  <2>1. ASSUME NEW i \in 1..n + 1, g[i] = "silent" PROVE \E j \in i + 1..n + 1 : g[j] = "resumed"
    <3>1. i # n + 1
      BY <1>2, <1>5, <2>1
    <3>2. n + 1 \in i + 1..n + 1
      BY <1>1, <3>1
    <3> QED BY <1>2, <1>5, <3>2
  <2>2. ~Silent(g, n + 1)
    BY <2>1 DEF Silent
  <2> QED BY <1>1, <1>3, <1>5, <2>2 DEF g
<1>6. CASE k \notin {"silent", "resumed"}
  <2>1. ASSUME Silent(h, n) PROVE Silent(g, n + 1)
    <3>1. PICK i \in 1..n : h[i] = "silent" /\ \A j \in i + 1..n : h[j] # "resumed"
      BY <2>1 DEF Silent
    <3>2. i \in 1..n + 1 /\ g[i] = "silent"
      BY <1>1, <1>2, <3>1
    <3>3. \A j \in i + 1..n + 1 : j = n + 1 \/ (j \in i + 1..n /\ j \in 1..n)
      BY <1>1, <3>1
    <3>4. \A j \in i + 1..n + 1 : g[j] # "resumed"
      BY <1>2, <1>6, <3>1, <3>3
    <3> QED BY <3>2, <3>4 DEF Silent
  <2>2. ASSUME Silent(g, n + 1) PROVE Silent(h, n)
    <3>1. PICK i \in 1..n + 1 : g[i] = "silent" /\ \A j \in i + 1..n + 1 : g[j] # "resumed"
      BY <2>2 DEF Silent
    <3>2. i # n + 1
      BY <1>2, <1>6, <3>1
    <3>3. i \in 1..n /\ \A j \in i + 1..n : j \in i + 1..n + 1 /\ j \in 1..n
      BY <1>1, <3>1, <3>2
    <3>4. h[i] = "silent" /\ \A j \in i + 1..n : h[j] # "resumed"
      BY <1>2, <3>1, <3>3
    <3> QED BY <3>3, <3>4 DEF Silent
  <2> QED BY <1>1, <1>3, <1>6, <2>1, <2>2 DEF g
<1> QED BY <1>4, <1>5, <1>6

LEMMA TellsMore ==
  ASSUME NEW h, NEW known \in BOOLEAN, NEW silent \in BOOLEAN, LogTells(h, known, silent),
         NEW k \in Happening,
         (k = "first_seen") <=> ~known, k = "silent" => ~silent, k = "resumed" => silent
  PROVE  /\ k \in {"first_seen", "key"} => LogTells(Append(h, k), TRUE, silent)
         /\ k = "silent" => LogTells(Append(h, k), TRUE, TRUE)
         /\ k = "resumed" => LogTells(Append(h, k), TRUE, FALSE)
<1> DEFINE g == Append(h, k)
<1>0. /\ h \in Seq(Happening) /\ FirstSeen(h) = (IF known THEN {1} ELSE {}) /\ InTurns(h)
      /\ silent <=> Silent(h, Len(h))
      /\ known \/ h = <<>>
  BY DEF LogTells
<1>1. PICK n \in Nat : n = Len(h)
  BY <1>0, LenProperties
<1>2. g \in Seq(Happening) /\ Len(g) = n + 1 /\ g[n + 1] = k /\ \A i \in 1..n : g[i] = h[i]
  BY <1>0, <1>1, AppendProperties
<1>3. DOMAIN g = 1..n + 1 /\ DOMAIN h = 1..n
  BY <1>0, <1>1, <1>2, LenProperties
<1>4. /\ \A l \in 0..n : Silent(g, l) <=> Silent(h, l)
      /\ Silent(g, n + 1) <=> k = "silent" \/ (k # "resumed" /\ Silent(h, n))
  BY <1>0, <1>1, SilentAppend
<1> HIDE DEF g
<1>5. InTurns(g)
  <2> SUFFICES ASSUME NEW i \in 1..n + 1
               PROVE  (g[i] = "silent" => ~Silent(g, i - 1)) /\ (g[i] = "resumed" => Silent(g, i - 1))
    BY <1>3 DEF InTurns
  <2>1. CASE i \in 1..n
    <3>1. i - 1 \in 0..n /\ g[i] = h[i]
      BY <1>1, <1>2, <2>1
    <3> QED BY <1>0, <1>3, <1>4, <2>1, <3>1 DEF InTurns
  <2>2. CASE i = n + 1
    <3>1. i - 1 = n /\ n \in 0..n /\ g[i] = k
      BY <1>1, <1>2, <2>2
    <3> QED BY <1>0, <1>1, <1>4, <3>1
  <2> QED BY <1>1, <2>1, <2>2
<1>6. FirstSeen(g) = {1}
  <2>1. \A i : i \in FirstSeen(g) <=> i \in FirstSeen(h) \/ (i = n + 1 /\ k = "first_seen")
    <3>1. \A i : i \in 1..n + 1 <=> i \in 1..n \/ i = n + 1
      BY <1>1
    <3>2. n + 1 \notin 1..n
      BY <1>1
    <3> QED BY <1>2, <1>3, <3>1, <3>2 DEF FirstSeen
  <2>2. CASE known
    BY <1>0, <2>1, <2>2
  <2>3. CASE ~known
    <3>1. n = 0
      BY <1>0, <1>1, <2>3, EmptySeq
    <3> QED BY <1>0, <2>1, <2>3, <3>1
  <2> QED BY <2>2, <2>3
<1>7. \A s \in BOOLEAN : (s <=> Silent(g, n + 1)) => LogTells(g, TRUE, s)
  BY <1>2, <1>5, <1>6 DEF LogTells
<1>8. k \in {"first_seen", "key"} => (silent <=> Silent(g, n + 1))
  BY <1>0, <1>1, <1>4
<1>9. (k = "silent" => (TRUE <=> Silent(g, n + 1))) /\ (k = "resumed" => (FALSE <=> Silent(g, n + 1)))
  BY <1>4
<1> QED BY <1>7, <1>8, <1>9 DEF g

LEMMA EventAppends ==
  ASSUME NEW h \in Seq(Happening), NEW k \in Happening, NEW c \in BOOLEAN
  PROVE  /\ c => h \o Event(k, c) = Append(h, k)
         /\ ~c => h \o Event(k, c) = h
         /\ h \o Event(k, c) \in Seq(Happening)
<1>1. CASE c
  <2>1. h \o Event(k, c) = h \o <<k>>
    BY <1>1 DEF Event
  <2>2. Append(h, k) = h \o <<k>> /\ Append(h, k) \in Seq(Happening)
    BY AppendIsConcat, AppendProperties
  <2> QED BY <1>1, <2>1, <2>2
<1>2. CASE ~c
  <2>1. h \o Event(k, c) = h \o <<>>
    BY <1>2 DEF Event
  <2>2. h \o <<>> = h
    BY ConcatEmptySeq
  <2> QED BY <1>2, <2>1, <2>2
<1> QED BY <1>1, <1>2

LEMMA LogStarts == GsInit => LogInv
<1> SUFFICES ASSUME GsInit PROVE LogInv
  OBVIOUS
<1>1. gsDevices = [m \in {} |-> 0] /\ gsLog = [m \in GsMeters |-> <<>>] /\ gsNow = 0
  BY DEF GsInit, NoDevice
<1>2. DOMAIN gsDevices = {} /\ \A m : ~Known(m)
  BY <1>1 DEF Known
<1>3. DevTyped
  <2>1. gsLog \in [GsMeters -> Seq(Happening)]
    BY <1>1, EmptySeq
  <2>2. gsDevices \in [DOMAIN gsDevices -> Record]
    BY <1>1, <1>2
  <2> QED BY <1>1, <1>2, <2>1, <2>2 DEF DevTyped
<1>4. ASSUME NEW m \in GsMeters PROVE LogTells(gsLog[m], Known(m), Known(m) /\ gsDevices[m].silent)
  <2>1. gsLog[m] = <<>> /\ ~Known(m)
    BY <1>1, <1>2
  <2>2. Known(m) \in BOOLEAN
    BY DEF Known
  <2>3. Known(m) = FALSE /\ (Known(m) /\ gsDevices[m].silent) = FALSE
    BY <2>1, <2>2
  <2> QED BY <2>1, <2>3, EmptyTells
<1> QED BY <1>2, <1>3, <1>4 DEF LogInv

(* What one step does to the history of a meter, if its own are those of     *)
(* the record.                                                              *)
LEMMA SeenStep ==
  ASSUME KeyInv, LogInv, NEW m \in GsMeters, gsDevices' = Upsert(m, Seen(m)), UNCHANGED <<gsNow, gsMerged>>,
         gsLog' = [gsLog EXCEPT ![m] = @ \o Event("first_seen", ~Known(m))
                                         \o Event("key", gsMem[m] # NoKey /\ ~(Known(m) /\ gsDevices[m].key))
                                         \o Event("resumed", Known(m) /\ gsDevices[m].silent)]
  PROVE  LogInv'
<1> DEFINE known == Known(m)
           silent == Known(m) /\ gsDevices[m].silent
           keyed == gsMem[m] # NoKey /\ ~(Known(m) /\ gsDevices[m].key)
           h0 == gsLog[m]
           h1 == h0 \o Event("first_seen", ~known)
           h2 == h1 \o Event("key", keyed)
           h3 == h2 \o Event("resumed", silent)
<1>0. /\ DOMAIN gsDevices \subseteq GsMeters /\ gsDevices \in [DOMAIN gsDevices -> Record]
      /\ gsLog \in [GsMeters -> Seq(Happening)] /\ gsNow \in Nat
      /\ known \in BOOLEAN /\ silent \in BOOLEAN /\ keyed \in BOOLEAN /\ (silent => known)
  <2>1. /\ DOMAIN gsDevices \subseteq GsMeters /\ gsDevices \in [DOMAIN gsDevices -> Record]
        /\ gsLog \in [GsMeters -> Seq(Happening)] /\ gsNow \in Nat
    BY DEF LogInv, DevTyped
  <2>2. known \in BOOLEAN /\ silent \in BOOLEAN /\ keyed \in BOOLEAN /\ (silent => known)
    BY DEF Known
  <2> QED BY <2>1, <2>2
<1>1. gsLog' = [gsLog EXCEPT ![m] = h3]
  OBVIOUS
<1> HIDE DEF known, silent, keyed
<1>2. h0 \in Seq(Happening) /\ h1 \in Seq(Happening) /\ h2 \in Seq(Happening) /\ h3 \in Seq(Happening)
  <2>1. h0 \in Seq(Happening)
    BY <1>0
  <2>2. h1 \in Seq(Happening)
    BY <1>0, <2>1, EventAppends DEF Happening
  <2>3. h2 \in Seq(Happening)
    BY <1>0, <2>2, EventAppends DEF Happening
  <2>4. h3 \in Seq(Happening)
    BY <1>0, <2>3, EventAppends DEF Happening
  <2> QED BY <2>1, <2>2, <2>3, <2>4
<1>3. DOMAIN gsDevices' = DOMAIN gsDevices \cup {m} /\ \A d \in DOMAIN gsDevices' : gsDevices'[d] = IF d = m THEN Seen(m) ELSE gsDevices[d]
  BY DEF Upsert
<1>4. Seen(m) \in Record /\ Seen(m).ok > 0 /\ Seen(m).silent = FALSE
  <2>1. known => gsDevices[m].ok \in Nat /\ gsDevices[m].fail \in Nat
    BY <1>0 DEF known, Known, Record
  <2>2. /\ (IF Known(m) THEN gsDevices[m].ok ELSE 0) + 1 \in Nat /\ (IF Known(m) THEN gsDevices[m].ok ELSE 0) + 1 > 0
        /\ (IF Known(m) THEN gsDevices[m].fail ELSE 0) \in Nat
    BY <2>1 DEF known
  <2>3. (gsMem[m] # NoKey) \in BOOLEAN
    OBVIOUS
  <2> QED BY <1>0, <2>2, <2>3 DEF Seen, Record
<1>5. DevTyped'
  <2>1. DOMAIN gsDevices' \subseteq GsMeters /\ gsDevices' \in [DOMAIN gsDevices' -> Record]
    <3>1. gsDevices' = [d \in DOMAIN gsDevices' |-> gsDevices'[d]]
      BY DEF Upsert
    <3>2. \A d \in DOMAIN gsDevices' : gsDevices'[d] \in Record
      BY <1>0, <1>3, <1>4
    <3> QED BY <1>0, <1>3, <3>1, <3>2
  <2> QED BY <1>0, <1>1, <1>2, <2>1 DEF DevTyped
<1>6. ASSUME NEW d \in GsMeters \ gsMerged'
      PROVE  LogTells(gsLog'[d], Known(d)', Known(d)' /\ gsDevices'[d].silent) /\ (Known(d)' => gsDevices'[d].ok > 0)
  <2>1. CASE d = m
    <3>1. LogTells(h0, known, silent)
      BY <1>6, <2>1 DEF LogInv, known, silent
    <3>2. LogTells(h1, TRUE, silent)
      <4>1. CASE known
        BY <1>0, <1>2, <3>1, <4>1, EventAppends DEF Happening
      <4>2. CASE ~known
        <5>1. h1 = Append(h0, "first_seen")
          BY <1>0, <1>2, <4>2, EventAppends DEF Happening
        <5> QED BY <1>0, <3>1, <4>2, <5>1, TellsMore DEF Happening
      <4> QED BY <1>0, <4>1, <4>2
    <3> HIDE DEF h1
    <3>3. LogTells(h2, TRUE, silent)
      <4>1. CASE keyed
        <5>1. h2 = Append(h1, "key")
          BY <1>0, <1>2, <4>1, EventAppends DEF Happening
        <5> QED BY <1>0, <3>2, <5>1, TellsMore DEF Happening
      <4>2. CASE ~keyed
        BY <1>0, <1>2, <3>2, <4>2, EventAppends DEF Happening
      <4> QED BY <1>0, <4>1, <4>2
    <3> HIDE DEF h2
    <3>4. LogTells(h3, TRUE, FALSE)
      <4>1. CASE silent
        <5>1. h3 = Append(h2, "resumed")
          BY <1>0, <1>2, <4>1, EventAppends DEF Happening
        <5> QED BY <1>0, <3>3, <4>1, <5>1, TellsMore DEF Happening
      <4>2. CASE ~silent
        <5>1. h3 = h2
          BY <1>0, <1>2, <4>2, EventAppends DEF Happening
        <5>2. silent = FALSE
          BY <1>0, <4>2
        <5> QED BY <3>3, <5>1, <5>2
      <4> QED BY <1>0, <4>1, <4>2
    <3> HIDE DEF h3
    <3>5. m \in DOMAIN gsDevices' /\ gsDevices'[m] = Seen(m) /\ gsLog'[m] = h3
      BY <1>0, <1>1, <1>3
    <3>6. Known(m)' = TRUE /\ (Known(m)' /\ gsDevices'[m].silent) = FALSE
      BY <1>4, <3>5 DEF Known
    <3> QED BY <1>4, <2>1, <3>4, <3>5, <3>6
  <2>2. CASE d # m
    <3>1. gsLog'[d] = gsLog[d]
      BY <1>0, <1>1, <2>2
    <3>2. (Known(d)' <=> Known(d)) /\ (Known(d) => gsDevices'[d] = gsDevices[d])
      BY <1>3, <2>2 DEF Known
    <3>3. Known(d)' = Known(d) /\ (Known(d)' /\ gsDevices'[d].silent) = (Known(d) /\ gsDevices[d].silent)
      BY <3>2 DEF Known
    <3> QED BY <1>6, <3>1, <3>2, <3>3 DEF LogInv
  <2> QED BY <2>1, <2>2
<1> QED BY <1>5, <1>6 DEF LogInv

LEMMA LogSteps == KeyInv /\ LogInv /\ [KeyNext \/ DeviceNext]_gsVars => LogInv'
<1> SUFFICES ASSUME KeyInv, LogInv, [KeyNext \/ DeviceNext]_gsVars PROVE LogInv'
  OBVIOUS
<1>0. /\ DOMAIN gsDevices \subseteq GsMeters /\ gsDevices \in [DOMAIN gsDevices -> Record]
      /\ gsLog \in [GsMeters -> Seq(Happening)] /\ gsNow \in Nat /\ DevTyped
      /\ \A m \in GsMeters \ gsMerged : /\ LogTells(gsLog[m], Known(m), Known(m) /\ gsDevices[m].silent)
                                        /\ Known(m) => gsDevices[m].ok > 0
  BY DEF LogInv, DevTyped
<1>1. ASSUME UNCHANGED <<gsDevices, gsLog, gsMerged>>, gsNow' \in Nat PROVE LogInv'
  BY <1>0, <1>1 DEF LogInv, DevTyped, Known
(* One device's record changes, but not whether it is silent.               *)
<1>2. ASSUME NEW m \in DOMAIN gsDevices, gsDevices' = Upsert(m, Failed(gsDevices[m])), UNCHANGED <<gsLog, gsMerged, gsNow>>
      PROVE  LogInv'
  <2>1. Failed(gsDevices[m]) \in Record /\ Failed(gsDevices[m]).silent = gsDevices[m].silent /\ Failed(gsDevices[m]).ok = gsDevices[m].ok
    <3>1. gsDevices[m] \in [ok : Nat, fail : Nat, key : BOOLEAN, silent : BOOLEAN, seen : Nat]
      BY <1>0 DEF Record
    <3>2. gsDevices[m].fail + 1 \in Nat
      BY <3>1
    <3> QED BY <3>1, <3>2 DEF Failed, Record
  <2>2. DOMAIN gsDevices' = DOMAIN gsDevices /\ \A d \in DOMAIN gsDevices : gsDevices'[d] = IF d = m THEN Failed(gsDevices[m]) ELSE gsDevices[d]
    BY <1>2 DEF Upsert
  <2>3. gsDevices' \in [DOMAIN gsDevices -> Record]
    <3>1. gsDevices' = [d \in DOMAIN gsDevices' |-> gsDevices'[d]]
      BY <1>2 DEF Upsert
    <3> QED BY <1>0, <2>1, <2>2, <3>1
  <2>4. \A d \in GsMeters : /\ Known(d)' = Known(d)
                            /\ (Known(d)' /\ gsDevices'[d].silent) = (Known(d) /\ gsDevices[d].silent)
                            /\ Known(d) => gsDevices'[d].ok = gsDevices[d].ok
    BY <2>1, <2>2 DEF Known
  <2> QED BY <1>0, <1>2, <2>2, <2>3, <2>4 DEF LogInv, DevTyped
<1>3. ASSUME NEW m \in GsMeters, NEW crcOk \in BOOLEAN, RecordFrame(m, crcOk) PROVE LogInv'
  <2>1. UNCHANGED <<gsNow, gsMerged>>
    BY <1>3 DEF RecordFrame
  <2>2. CASE UNCHANGED <<gsDevices, gsLog>>
    BY <1>0, <1>1, <2>1, <2>2
  <2>3. CASE Known(m) /\ gsDevices' = Upsert(m, Failed(gsDevices[m])) /\ UNCHANGED gsLog
    BY <1>2, <2>1, <2>3 DEF Known
  <2>4. CASE /\ gsDevices' = Upsert(m, Seen(m))
             /\ gsLog' = [gsLog EXCEPT ![m] = @ \o Event("first_seen", ~Known(m))
                                              \o Event("key", gsMem[m] # NoKey /\ ~(Known(m) /\ gsDevices[m].key))
                                              \o Event("resumed", Known(m) /\ gsDevices[m].silent)]
    BY <2>1, <2>4, SeenStep
  <2> QED BY <1>3, <2>2, <2>3, <2>4 DEF RecordFrame
<1>4. CASE CheckSilence
  <2> DEFINE quiet == {m \in DOMAIN gsDevices : ~gsDevices[m].silent /\ gsDevices[m].seen + GsSilence < gsNow}
  <2>1. /\ gsDevices' = [m \in DOMAIN gsDevices |-> IF m \in quiet THEN [gsDevices[m] EXCEPT !.silent = TRUE] ELSE gsDevices[m]]
        /\ gsLog' = [m \in GsMeters |-> gsLog[m] \o Event("silent", m \in quiet)]
        /\ UNCHANGED <<gsNow, gsMerged>>
    BY <1>4 DEF CheckSilence
  <2>2. \A m \in quiet : m \in DOMAIN gsDevices /\ ~gsDevices[m].silent
    OBVIOUS
  <2> HIDE DEF quiet
  <2>3. DOMAIN gsDevices' = DOMAIN gsDevices /\ gsDevices' \in [DOMAIN gsDevices -> Record]
    <3>1. \A m \in DOMAIN gsDevices : gsDevices[m] \in Record /\ [gsDevices[m] EXCEPT !.silent = TRUE] \in Record
      BY <1>0 DEF Record
    <3> QED BY <2>1, <3>1
  <2>4. \A m \in GsMeters : /\ gsLog'[m] \in Seq(Happening)
                            /\ m \in quiet => gsLog'[m] = Append(gsLog[m], "silent")
                            /\ m \notin quiet => gsLog'[m] = gsLog[m]
    <3> SUFFICES ASSUME NEW m \in GsMeters
                 PROVE  /\ gsLog'[m] \in Seq(Happening)
                        /\ m \in quiet => gsLog'[m] = Append(gsLog[m], "silent")
                        /\ m \notin quiet => gsLog'[m] = gsLog[m]
      OBVIOUS
    <3>1. gsLog'[m] = gsLog[m] \o Event("silent", m \in quiet) /\ gsLog[m] \in Seq(Happening)
      BY <1>0, <2>1
    <3>2. (m \in quiet) \in BOOLEAN /\ "silent" \in Happening
      BY DEF Happening
    <3> QED BY <3>1, <3>2, EventAppends
  <2>5. DevTyped'
    <3>1. gsLog' \in [GsMeters -> Seq(Happening)]
      BY <2>1, <2>4
    <3> QED BY <1>0, <2>1, <2>3, <3>1 DEF DevTyped
  <2>6. ASSUME NEW m \in GsMeters \ gsMerged'
        PROVE  LogTells(gsLog'[m], Known(m)', Known(m)' /\ gsDevices'[m].silent) /\ (Known(m)' => gsDevices'[m].ok > 0)
    <3>0. LogTells(gsLog[m], Known(m), Known(m) /\ gsDevices[m].silent) /\ (Known(m) => gsDevices[m].ok > 0)
      BY <1>0, <2>1
    <3>1. CASE m \in quiet
      <4>1. m \in DOMAIN gsDevices /\ ~gsDevices[m].silent /\ gsDevices'[m] = [gsDevices[m] EXCEPT !.silent = TRUE]
            /\ gsDevices[m] \in Record
        BY <1>0, <2>1, <2>2, <3>1
      <4>2. gsDevices'[m].silent = TRUE /\ gsDevices'[m].ok = gsDevices[m].ok
        BY <4>1 DEF Record
      <4>3. Known(m) = TRUE /\ (Known(m) /\ gsDevices[m].silent) = FALSE
        BY <4>1 DEF Known
      <4>4. Known(m)' = TRUE /\ (Known(m)' /\ gsDevices'[m].silent) = TRUE
        BY <2>3, <4>1, <4>2 DEF Known
      <4>5. LogTells(gsLog[m], TRUE, FALSE)
        BY <3>0, <4>3
      <4>6. LogTells(Append(gsLog[m], "silent"), TRUE, TRUE)
        BY <4>5, TellsMore DEF Happening
      <4> QED BY <2>4, <3>0, <3>1, <4>2, <4>3, <4>4, <4>6
    <3>2. CASE m \notin quiet
      <4>1. gsLog'[m] = gsLog[m] /\ (m \in DOMAIN gsDevices => gsDevices'[m] = gsDevices[m])
        BY <2>1, <2>4, <3>2
      <4>2. Known(m)' = Known(m) /\ (Known(m)' /\ gsDevices'[m].silent) = (Known(m) /\ gsDevices[m].silent)
        BY <2>3, <4>1 DEF Known
      <4> QED BY <3>0, <4>1, <4>2 DEF Known
    <3> QED BY <3>1, <3>2
  <2> QED BY <2>5, <2>6 DEF LogInv
<1>5. CASE PruneGhosts
  <2> DEFINE ghosts == {m \in DOMAIN gsDevices : gsDevices[m].ok = 0}
  <2>1. /\ gsDevices' = [m \in DOMAIN gsDevices \ ghosts |-> gsDevices[m]]
        /\ gsLog' = [m \in GsMeters |-> IF m \in ghosts THEN <<>> ELSE gsLog[m]]
        /\ gsMerged' = gsMerged \ ghosts /\ UNCHANGED gsNow
    BY <1>5 DEF PruneGhosts
  <2> HIDE DEF ghosts
  <2>2. DevTyped'
    <3>1. gsLog' \in [GsMeters -> Seq(Happening)]
      BY <1>0, <2>1, EmptySeq
    <3> QED BY <1>0, <2>1, <3>1 DEF DevTyped
  <2>3. ASSUME NEW m \in GsMeters \ gsMerged'
        PROVE  LogTells(gsLog'[m], Known(m)', Known(m)' /\ gsDevices'[m].silent) /\ (Known(m)' => gsDevices'[m].ok > 0)
    <3>1. CASE m \in ghosts
      <4>1. gsLog'[m] = <<>> /\ m \notin DOMAIN gsDevices'
        BY <2>1, <3>1
      <4>2. Known(m)' = FALSE /\ (Known(m)' /\ gsDevices'[m].silent) = FALSE
        BY <4>1 DEF Known
      <4> QED BY <4>1, <4>2, EmptyTells
    <3>2. CASE m \notin ghosts
      <4>1. m \notin gsMerged /\ gsLog'[m] = gsLog[m]
        BY <2>1, <3>2
      <4>2. (m \in DOMAIN gsDevices' <=> m \in DOMAIN gsDevices) /\ (m \in DOMAIN gsDevices => gsDevices'[m] = gsDevices[m])
        BY <2>1, <3>2
      <4>3. Known(m)' = Known(m) /\ (Known(m)' /\ gsDevices'[m].silent) = (Known(m) /\ gsDevices[m].silent)
        BY <4>2 DEF Known
      <4> QED BY <1>0, <4>1, <4>2, <4>3 DEF Known
    <3> QED BY <3>1, <3>2
  <2> QED BY <2>2, <2>3 DEF LogInv
<1>6. ASSUME NEW m \in GsMeters, NEW ok \in {0, 1}, NEW silent \in BOOLEAN, ImportDump(m, ok, silent) PROVE LogInv'
  <2> DEFINE rec == IF Known(m) THEN [gsDevices[m] EXCEPT !.ok = @ + ok, !.fail = @ + 1]
                    ELSE [ok |-> ok, fail |-> 1, key |-> FALSE, silent |-> silent, seen |-> 0]
             h == gsLog[m] \o Event("first_seen", TRUE) \o Event("silent", silent)
  <2>1. /\ gsDevices' = Upsert(m, rec) /\ gsLog' = [gsLog EXCEPT ![m] = h]
        /\ gsMerged' = gsMerged \cup {m} /\ UNCHANGED gsNow
    BY <1>6 DEF ImportDump
  <2>2. rec \in Record
    <3>1. CASE Known(m)
      <4>1. gsDevices[m] \in [ok : Nat, fail : Nat, key : BOOLEAN, silent : BOOLEAN, seen : Nat]
        BY <1>0, <3>1 DEF Known, Record
      <4>2. gsDevices[m].ok + ok \in Nat /\ gsDevices[m].fail + 1 \in Nat
        BY <4>1
      <4> QED BY <3>1, <4>1, <4>2 DEF Record
    <3>2. CASE ~Known(m)
      BY <3>2 DEF Record
    <3> QED BY <3>1, <3>2
  <2>3. h \in Seq(Happening)
    <3>1. gsLog[m] \in Seq(Happening) /\ "first_seen" \in Happening /\ "silent" \in Happening
      BY <1>0 DEF Happening
    <3>2. gsLog[m] \o Event("first_seen", TRUE) \in Seq(Happening)
      BY <3>1, EventAppends
    <3> QED BY <3>1, <3>2, EventAppends
  <2> HIDE DEF rec, h
  <2>4. DOMAIN gsDevices' = DOMAIN gsDevices \cup {m} /\ \A d \in DOMAIN gsDevices' : gsDevices'[d] = IF d = m THEN rec ELSE gsDevices[d]
    BY <2>1 DEF Upsert
  <2>5. DevTyped'
    <3>1. gsDevices' = [d \in DOMAIN gsDevices' |-> gsDevices'[d]]
      BY <2>1 DEF Upsert
    <3>2. \A d \in DOMAIN gsDevices' : gsDevices'[d] \in Record
      BY <1>0, <2>2, <2>4
    <3>3. gsDevices' \in [DOMAIN gsDevices' -> Record]
      BY <3>1, <3>2
    <3>4. gsLog' \in [GsMeters -> Seq(Happening)]
      BY <1>0, <2>1, <2>3
    <3> QED BY <1>0, <2>1, <2>4, <3>3, <3>4 DEF DevTyped
  <2>6. ASSUME NEW d \in GsMeters \ gsMerged'
        PROVE  LogTells(gsLog'[d], Known(d)', Known(d)' /\ gsDevices'[d].silent) /\ (Known(d)' => gsDevices'[d].ok > 0)
    <3>1. d # m /\ d \in GsMeters \ gsMerged
      BY <2>1, <2>6
    <3>2. gsLog'[d] = gsLog[d] /\ (d \in DOMAIN gsDevices' <=> d \in DOMAIN gsDevices) /\ (d \in DOMAIN gsDevices => gsDevices'[d] = gsDevices[d])
      BY <1>0, <2>1, <2>4, <3>1
    <3>3. Known(d)' = Known(d) /\ (Known(d)' /\ gsDevices'[d].silent) = (Known(d) /\ gsDevices[d].silent)
      BY <3>2 DEF Known
    <3> QED BY <1>0, <3>1, <3>2, <3>3 DEF Known
  <2> QED BY <2>5, <2>6 DEF LogInv
<1>7. CASE GsElapse
  BY <1>0, <1>1, <1>7 DEF GsElapse, deviceVars
<1>8. CASE KeyNext
  <2>1. UNCHANGED <<gsDevices, gsLog, gsMerged, gsNow>>
    BY <1>8 DEF KeyNext, LifeNext, StartMonitor, StopMonitor, StoreKey, InstallKey, PushKey, RemoveKey, ImportKey, deviceVars
  <2> QED BY <1>0, <1>1, <2>1
<1>9. CASE LifeNext
  BY <1>8, <1>9 DEF KeyNext
<1>10. CASE UNCHANGED gsVars
  BY <1>0, <1>1, <1>10 DEF gsVars
<1> QED BY <1>3, <1>4, <1>5, <1>6, <1>7, <1>8, <1>9, <1>10 DEF DeviceNext

LEMMA LogHolds == LogInv => LogTruthful
<1> SUFFICES ASSUME LogInv, NEW m \in GsMeters \ gsMerged
             PROVE  LET history == gsLog[m]
                    IN  /\ {i \in DOMAIN history : history[i] = "first_seen"} = IF Known(m) THEN {1} ELSE {}
                        /\ \A i \in DOMAIN history : /\ history[i] = "silent" => ~Silent(history, i - 1)
                                                     /\ history[i] = "resumed" => Silent(history, i - 1)
                        /\ Known(m) => gsDevices[m].ok > 0 /\ gsDevices[m].silent = Silent(history, Len(history))
  BY DEF LogTruthful
<1>1. LogTells(gsLog[m], Known(m), Known(m) /\ gsDevices[m].silent) /\ (Known(m) => gsDevices[m].ok > 0)
  BY DEF LogInv
<1>2. Known(m) => gsDevices[m].silent = Silent(gsLog[m], Len(gsLog[m]))
  <2> SUFFICES ASSUME Known(m) PROVE gsDevices[m].silent = Silent(gsLog[m], Len(gsLog[m]))
    OBVIOUS
  <2>1. gsDevices[m].silent \in BOOLEAN
    BY DEF LogInv, DevTyped, Record, Known
  <2>2. Silent(gsLog[m], Len(gsLog[m])) \in BOOLEAN
    BY DEF Silent
  <2>3. gsDevices[m].silent <=> Silent(gsLog[m], Len(gsLog[m]))
    BY <1>1 DEF LogTells
  <2> QED BY <2>1, <2>2, <2>3
<1> QED BY <1>1, <1>2 DEF LogTells, FirstSeen, InTurns

-----------------------------------------------------------------------------
(* The steps of the programs.                                              *)
Do(op)        == [op |-> op, broker |-> "main", what |-> "none"]
Req(b, what)  == [op |-> "send", broker |-> b, what |-> what]
Conn(b, will) == [op |-> "connect", broker |-> b, what |-> will]

MainRequest == {"online", "offline", "subscribe", "startup", "health", "data"}
KeyRequest  == {"subscribe", "startup"}
Act         == {"store", "open", "start", "drop", "raw", "park", "return", "exit"}
GmStep ==
  {Do(op) : op \in Act} \cup {Req("main", what) : what \in MainRequest} \cup {Req("keys", what) : what \in KeyRequest}
  \cup {Conn("main", "will"), Conn("main", "none"), Conn("keys", "none")}

StepsOf(tool) ==
  CASE tool = "monitor" -> GmStep \ {Conn("main", "none")}
    [] tool = "run"     -> {Do("open"), Do("start"), Conn("main", "none"), Req("main", "subscribe"), Req("main", "data")}
    [] tool = "capture" -> {Do("open"), Do("start"), Do("return")}
    [] tool = "sweep"   -> {Do("raw"), Do("store"), Do("return")}
    [] tool = "probe-raw" -> {Do("raw"), Do("return")}
    [] OTHER            -> {}

(* What no plan does after a step.                                         *)
NeverAfter(s, t) ==
  \/ s = t /\ s # Do("raw")
  \/ \E b \in Brokers : s = Req(b, "startup") /\ t = Req(b, "subscribe")
  \/ s = Req("main", "online") /\ t = Conn("main", "will")
  \/ s = Do("open") /\ t \in {Do("raw"), Do("drop")}
  \/ s = Do("raw") /\ t = Do("drop")
  \/ s = Do("return") \/ s = Do("exit")

Members(plan) == {plan[i] : i \in DOMAIN plan}
PlanOver(plan, S) ==
  /\ plan \in Seq(GmStep) /\ Members(plan) = S
  /\ \A i, j \in DOMAIN plan : i < j => ~NeverAfter(plan[i], plan[j])

LEMMA StepNames ==
  /\ \A p, q : Do(p) = Do(q) <=> p = q
  /\ \A p, b, w : Do(p) = Req(b, w) <=> p = "send" /\ b = "main" /\ w = "none"
  /\ \A p, b, w : Do(p) = Conn(b, w) <=> p = "connect" /\ b = "main" /\ w = "none"
  /\ \A b, w, c, x : Req(b, w) = Req(c, x) <=> b = c /\ w = x
  /\ \A b, w, c, x : Conn(b, w) = Conn(c, x) <=> b = c /\ w = x
  /\ \A b, w, c, x : Req(b, w) # Conn(c, x)
  /\ \A p : Do(p).op = p
  /\ \A b, w : Req(b, w).op = "send" /\ Req(b, w).broker = b /\ Req(b, w).what = w
  /\ \A b, w : Conn(b, w).op = "connect" /\ Conn(b, w).broker = b /\ Conn(b, w).what = w
  BY DEF Do, Req, Conn

LEMMA StepKinds ==
  ASSUME NEW s \in GmStep
  PROVE  /\ s.op = "send" => s = Req(s.broker, s.what) /\ ((s.broker = "main" /\ s.what \in MainRequest)
                                                          \/ (s.broker = "keys" /\ s.what \in KeyRequest))
         /\ s.op = "connect" => s \in {Conn("main", "will"), Conn("main", "none"), Conn("keys", "none")}
         /\ s.op \notin {"send", "connect"} => s = Do(s.op) /\ s.op \in Act
  <1>1. ASSUME NEW p \in Act, s = Do(p) PROVE s.op = p /\ p \notin {"send", "connect"}
    BY <1>1, StepNames DEF Act
  <1>2. ASSUME NEW w \in MainRequest, s = Req("main", w) PROVE s.op = "send" /\ s.broker = "main" /\ s.what = w
    BY <1>2, StepNames
  <1>3. ASSUME NEW w \in KeyRequest, s = Req("keys", w) PROVE s.op = "send" /\ s.broker = "keys" /\ s.what = w
    BY <1>3, StepNames
  <1>4. \A b, w : s = Conn(b, w) => s.op = "connect"
    BY StepNames
  <1>5. \/ \E p \in Act : s = Do(p)
        \/ \E w \in MainRequest : s = Req("main", w)
        \/ \E w \in KeyRequest : s = Req("keys", w)
        \/ s \in {Conn("main", "will"), Conn("main", "none"), Conn("keys", "none")}
    BY DEF GmStep
  <1>6. ASSUME NEW p \in Act, s = Do(p) PROVE s.op \notin {"send", "connect"} /\ s = Do(s.op) /\ s.op \in Act
    BY <1>1, <1>6
  <1>7. ASSUME NEW w \in MainRequest, s = Req("main", w)
        PROVE  s.op = "send" /\ s = Req(s.broker, s.what) /\ s.broker = "main" /\ s.what \in MainRequest
    BY <1>2, <1>7
  <1>8. ASSUME NEW w \in KeyRequest, s = Req("keys", w)
        PROVE  s.op = "send" /\ s = Req(s.broker, s.what) /\ s.broker = "keys" /\ s.what \in KeyRequest
    BY <1>3, <1>8
  <1>9. "send" # "connect" OBVIOUS
  <1>10. CASE s \in {Conn("main", "will"), Conn("main", "none"), Conn("keys", "none")}
    BY <1>4, <1>9, <1>10
  <1>11. CASE \E p \in Act : s = Do(p) BY <1>6, <1>11
  <1>12. CASE \E w \in MainRequest : s = Req("main", w)
    <2>1. s.op = "send" /\ s = Req(s.broker, s.what) /\ s.broker = "main" /\ s.what \in MainRequest
      BY <1>7, <1>12
    <2>2. s.op # "connect" /\ ~(s.op \notin {"send", "connect"}) BY <1>9, <2>1
    <2> QED BY <2>1, <2>2
  <1>13. CASE \E w \in KeyRequest : s = Req("keys", w) BY <1>8, <1>9, <1>13
  <1> QED BY <1>5, <1>10, <1>11, <1>12, <1>13

LEMMA StepsAre ==
  /\ \A p \in Act : Do(p) \in GmStep
  /\ \A w \in MainRequest : Req("main", w) \in GmStep
  /\ \A w \in KeyRequest : Req("keys", w) \in GmStep
  /\ {Conn("main", "will"), Conn("main", "none"), Conn("keys", "none")} \subseteq GmStep
  BY DEF GmStep

LEMMA NoStep == PlanOver(<<>>, {})
  BY EmptySeq DEF PlanOver, Members

LEMMA OneStep == ASSUME NEW s \in GmStep PROVE PlanOver(<<s>>, {s})
  <1>1. <<s>> \in Seq(GmStep) /\ DOMAIN <<s>> = {1} /\ <<s>>[1] = s
    OBVIOUS
  <1> QED BY <1>1 DEF PlanOver, Members

LEMMA StepsJoined ==
  ASSUME NEW s, NEW t, NEW S, NEW T, PlanOver(s, S), PlanOver(t, T),
         \A x \in S, y \in T : ~NeverAfter(x, y)
  PROVE  PlanOver(s \o t, S \cup T)
  <1> DEFINE u == s \o t
  <1>1. s \in Seq(GmStep) /\ t \in Seq(GmStep) BY DEF PlanOver
  <1>2. /\ u \in Seq(GmStep) /\ Len(u) = Len(s) + Len(t) /\ Len(s) \in Nat /\ Len(t) \in Nat
        /\ DOMAIN u = 1..Len(u) /\ DOMAIN s = 1..Len(s) /\ DOMAIN t = 1..Len(t)
        /\ \A i \in 1..Len(u) : u[i] = IF i <= Len(s) THEN s[i] ELSE t[i - Len(s)]
    BY <1>1, ConcatProperties
  <1> HIDE DEF u
  <1>3. \A i \in DOMAIN s : s[i] \in S /\ i \in DOMAIN u /\ u[i] = s[i]
    BY <1>2 DEF PlanOver, Members
  <1>4. \A i \in DOMAIN t : t[i] \in T /\ Len(s) + i \in DOMAIN u /\ u[Len(s) + i] = t[i]
    BY <1>2 DEF PlanOver, Members
  <1>5. \A i \in DOMAIN u : IF i <= Len(s) THEN i \in DOMAIN s /\ u[i] = s[i]
                            ELSE i - Len(s) \in DOMAIN t /\ u[i] = t[i - Len(s)]
    BY <1>2
  <1>6. Members(u) = S \cup T
    <2>1. ASSUME NEW x \in Members(u) PROVE x \in S \cup T
      <3>1. PICK i \in DOMAIN u : x = u[i] BY DEF Members
      <3> QED BY <1>3, <1>4, <1>5, <3>1
    <2>2. ASSUME NEW x \in S PROVE x \in Members(u)
      <3>1. PICK i \in DOMAIN s : x = s[i] BY DEF PlanOver, Members
      <3> QED BY <1>3, <3>1 DEF Members
    <2>3. ASSUME NEW x \in T PROVE x \in Members(u)
      <3>1. PICK i \in DOMAIN t : x = t[i] BY DEF PlanOver, Members
      <3> QED BY <1>4, <3>1 DEF Members
    <2> QED BY <2>1, <2>2, <2>3
  <1>7. ASSUME NEW i \in DOMAIN u, NEW j \in DOMAIN u, i < j PROVE ~NeverAfter(u[i], u[j])
    <2>1. i \in Nat /\ j \in Nat BY <1>2
    <2>2. CASE j <= Len(s) BY <1>5, <1>7, <2>1, <2>2, <1>2 DEF PlanOver
    <2>3. CASE i > Len(s)
      <3>1. i - Len(s) < j - Len(s) /\ ~(i <= Len(s)) /\ ~(j <= Len(s)) BY <1>7, <2>1, <2>3, <1>2
      <3> QED BY <1>5, <3>1 DEF PlanOver
    <2>4. CASE i <= Len(s) /\ j > Len(s)
      <3>1. u[i] \in S BY <1>3, <1>5, <2>4
      <3>2. ~(j <= Len(s)) BY <2>1, <2>4, <1>2
      <3>3. u[j] \in T BY <1>4, <1>5, <3>2
      <3> QED BY <3>1, <3>3
    <2> QED BY <2>1, <2>2, <2>3, <2>4, <1>2
  <1> QED BY <1>2, <1>6, <1>7 DEF PlanOver, u

LEMMA StepTaken ==
  ASSUME NEW plan, NEW S, PlanOver(plan, S), plan # <<>>
  PROVE  /\ Head(plan) \in S /\ Head(plan) \in GmStep
         /\ S = {Head(plan)} \cup Members(Tail(plan))
         /\ PlanOver(Tail(plan), Members(Tail(plan)))
         /\ \A x \in Members(Tail(plan)) : ~NeverAfter(Head(plan), x)
  <1>1. plan \in Seq(GmStep) BY DEF PlanOver
  <1>2. /\ Tail(plan) \in Seq(GmStep) /\ Len(Tail(plan)) = Len(plan) - 1 /\ Len(plan) \in Nat \ {0}
        /\ DOMAIN plan = 1..Len(plan) /\ DOMAIN Tail(plan) = 1..Len(plan) - 1
        /\ \A i \in 1..Len(plan) - 1 : Tail(plan)[i] = plan[i + 1]
    BY <1>1, HeadTailProperties, EmptySeq
  <1>3. Head(plan) = plan[1] /\ 1 \in DOMAIN plan BY <1>1, <1>2
  <1>4. Head(plan) \in S /\ Head(plan) \in GmStep BY <1>1, <1>3, <1>2, ElementOfSeq DEF PlanOver, Members
  <1>5. \A i \in DOMAIN Tail(plan) : i + 1 \in DOMAIN plan /\ 1 < i + 1 /\ Tail(plan)[i] = plan[i + 1] BY <1>2
  <1>6. S = {Head(plan)} \cup Members(Tail(plan))
    <2>1. ASSUME NEW x \in S PROVE x \in {Head(plan)} \cup Members(Tail(plan))
      <3>1. PICK i \in DOMAIN plan : x = plan[i] BY DEF PlanOver, Members
      <3>2. CASE i = 1 BY <1>3, <3>1, <3>2
      <3>3. CASE i # 1
        <4>1. i - 1 \in DOMAIN Tail(plan) /\ Tail(plan)[i - 1] = plan[i] BY <1>2, <3>3
        <4> QED BY <3>1, <4>1 DEF Members
      <3> QED BY <3>2, <3>3
    <2>2. Members(Tail(plan)) \subseteq S BY <1>5 DEF PlanOver, Members
    <2> QED BY <1>4, <2>1, <2>2
  <1>7. \A i, j \in DOMAIN Tail(plan) : i < j => ~NeverAfter(Tail(plan)[i], Tail(plan)[j])
    BY <1>2, <1>5 DEF PlanOver
  <1>8. \A x \in Members(Tail(plan)) : ~NeverAfter(Head(plan), x)
    BY <1>3, <1>5 DEF PlanOver, Members
  <1> QED BY <1>2, <1>4, <1>6, <1>7, <1>8 DEF PlanOver

-----------------------------------------------------------------------------
(* What the programs have to do.                                           *)

MonitorSteps(config) ==
  {Do("store"), Conn("main", "will"), Req("main", "online"), Req("main", "startup"), Do("open"), Do("start")}
  \cup (IF config.control THEN {Req("main", "subscribe")} ELSE {})
  \cup (IF config.keys THEN {Conn("keys", "none"), Req("keys", "subscribe"), Req("keys", "startup")} ELSE {})
LiveSteps(config) ==
  {Do("open"), Conn("main", "none"), Do("start")} \cup (IF config.control THEN {Req("main", "subscribe")} ELSE {})

LEMMA OnePlan ==
  /\ \A p \in Act : PlanOver(Does(p), {Do(p)})
  /\ \A w \in MainRequest : PlanOver(Asks("main", w), {Req("main", w)})
  /\ \A w \in KeyRequest : PlanOver(Asks("keys", w), {Req("keys", w)})
  /\ PlanOver(Connects("main", "will"), {Conn("main", "will")})
  /\ PlanOver(Connects("main", "none"), {Conn("main", "none")})
  /\ PlanOver(Connects("keys", "none"), {Conn("keys", "none")})
  BY OneStep, StepsAre DEF Does, Asks, Connects, Do, Req, Conn

LEMMA IfSoPlan ==
  ASSUME NEW c, NEW s, NEW S, PlanOver(s, S)
  PROVE  PlanOver(IfSo(c, s), IF c THEN S ELSE {})
  BY NoStep DEF IfSo

LEMMA MonitorPlans ==
  ASSUME NEW config
  PROVE  PlanOver(MonitorPlan(config), MonitorSteps(config))
  <1> DEFINE sub == IF config.control THEN {Req("main", "subscribe")} ELSE {}
             key == IF config.keys THEN {Conn("keys", "none"), Req("keys", "subscribe"), Req("keys", "startup")} ELSE {}
  <1>1. PlanOver(IfSo(config.control, Asks("main", "subscribe")), sub)
    BY OnePlan, IfSoPlan DEF MainRequest
  <1>2. PlanOver(Connects("main", "will") \o Asks("main", "online"), {Conn("main", "will"), Req("main", "online")})
    <2>1. ~NeverAfter(Conn("main", "will"), Req("main", "online")) BY StepNames DEF NeverAfter
    <2> QED BY <2>1, OnePlan, StepsJoined DEF MainRequest
  <1>3. PlanOver(Connects("main", "will") \o Asks("main", "online") \o IfSo(config.control, Asks("main", "subscribe")),
                 {Conn("main", "will"), Req("main", "online")} \cup sub)
    <2>1. \A x \in {Conn("main", "will"), Req("main", "online")}, y \in sub : ~NeverAfter(x, y)
      BY StepNames DEF NeverAfter
    <2> HIDE DEF sub
    <2> QED BY <1>1, <1>2, <2>1, StepsJoined
  <1>4. PlanOver(MainBroker(config), {Conn("main", "will"), Req("main", "online")} \cup sub \cup {Req("main", "startup")})
    <2>1. \A x \in {Conn("main", "will"), Req("main", "online")} \cup sub, y \in {Req("main", "startup")} : ~NeverAfter(x, y)
      BY StepNames DEF NeverAfter
    <2> HIDE DEF sub
    <2> QED BY <1>3, <2>1, OnePlan, StepsJoined DEF MainRequest, MainBroker
  <1>5. PlanOver(KeyBroker(config), key)
    <2>1. PlanOver(Connects("keys", "none") \o Asks("keys", "subscribe"), {Conn("keys", "none"), Req("keys", "subscribe")})
      <3>1. ~NeverAfter(Conn("keys", "none"), Req("keys", "subscribe")) BY StepNames DEF NeverAfter
      <3> QED BY <3>1, OnePlan, StepsJoined DEF KeyRequest
    <2>2. PlanOver(Connects("keys", "none") \o Asks("keys", "subscribe") \o Asks("keys", "startup"),
                   {Conn("keys", "none"), Req("keys", "subscribe"), Req("keys", "startup")})
      <3>1. \A x \in {Conn("keys", "none"), Req("keys", "subscribe")}, y \in {Req("keys", "startup")} : ~NeverAfter(x, y)
        BY StepNames DEF NeverAfter
      <3>2. {Conn("keys", "none"), Req("keys", "subscribe")} \cup {Req("keys", "startup")}
              = {Conn("keys", "none"), Req("keys", "subscribe"), Req("keys", "startup")} OBVIOUS
      <3> QED BY <2>1, <3>1, <3>2, OnePlan, StepsJoined DEF KeyRequest
    <2> QED BY <2>2, IfSoPlan DEF KeyBroker
  <1>6. PlanOver(Does("store") \o MainBroker(config),
                 {Do("store")} \cup ({Conn("main", "will"), Req("main", "online")} \cup sub \cup {Req("main", "startup")}))
    <2>1. \A x \in {Do("store")}, y \in {Conn("main", "will"), Req("main", "online")} \cup sub \cup {Req("main", "startup")} :
             ~NeverAfter(x, y)
      BY StepNames DEF NeverAfter
    <2> HIDE DEF sub
    <2> QED BY <1>4, <2>1, OnePlan, StepsJoined DEF Act
  <1> DEFINE most == {Do("store")} \cup ({Conn("main", "will"), Req("main", "online")} \cup sub \cup {Req("main", "startup")})
  <1>7. PlanOver(Does("store") \o MainBroker(config) \o KeyBroker(config), most \cup key)
    <2>1. \A x \in most, y \in key : ~NeverAfter(x, y)
      <3>1. \A x \in most : x \notin {Do("return"), Do("exit"), Do("raw"), Do("open"), Req("keys", "startup")}
        BY StepNames
      <3>2. \A x \in most : x \notin key
        BY StepNames
      <3>3. \A y \in key : y \notin {Req("main", "subscribe"), Conn("main", "will"), Do("raw"), Do("drop")}
        BY StepNames
      <3>4. \A y \in key, b \in Brokers : y = Req(b, "subscribe") => b = "keys"
        BY <3>3 DEF Brokers
      <3> HIDE DEF most, key
      <3> QED BY <3>1, <3>2, <3>3, <3>4 DEF NeverAfter, Brokers
    <2> HIDE DEF most, key
    <2> QED BY <1>5, <1>6, <2>1, StepsJoined DEF most
  <1>8. PlanOver(Does("store") \o MainBroker(config) \o KeyBroker(config) \o Does("open"), most \cup key \cup {Do("open")})
    <2>1. \A x \in most \cup key : x \notin {Do("return"), Do("exit"), Do("open"), Do("raw")}
      BY StepNames
    <2>2. \A x \in most \cup key, y \in {Do("open")} : ~NeverAfter(x, y)
      <3> HIDE DEF most, key
      <3> QED BY <2>1, StepNames DEF NeverAfter
    <2> HIDE DEF most, key
    <2> QED BY <1>7, <2>2, OnePlan, StepsJoined DEF Act
  <1>9. PlanOver(MonitorPlan(config), most \cup key \cup {Do("open")} \cup {Do("start")})
    <2>1. \A x \in most \cup key \cup {Do("open")} : x \notin {Do("return"), Do("exit"), Do("start")}
      BY StepNames
    <2>2. \A x \in most \cup key \cup {Do("open")}, y \in {Do("start")} : ~NeverAfter(x, y)
      <3> HIDE DEF most, key
      <3> QED BY <2>1, StepNames DEF NeverAfter
    <2> HIDE DEF most, key
    <2> QED BY <1>8, <2>2, OnePlan, StepsJoined DEF Act, MonitorPlan
  <1>10. most \cup key \cup {Do("open")} \cup {Do("start")} = MonitorSteps(config)
    <2> HIDE DEF key
    <2> SUFFICES most \cup {Do("open")} \cup {Do("start")} =
             {Do("store"), Conn("main", "will"), Req("main", "online"), Req("main", "startup"), Do("open"), Do("start")} \cup sub
      BY DEF MonitorSteps, key
    <2> HIDE DEF sub
    <2> QED OBVIOUS
  <1> QED BY <1>9, <1>10

LEMMA LivePlans ==
  ASSUME NEW config
  PROVE  PlanOver(LivePlan(config), LiveSteps(config))
  <1> DEFINE sub == IF config.control THEN {Req("main", "subscribe")} ELSE {}
  <1>1. PlanOver(IfSo(config.control, Asks("main", "subscribe")), sub)
    BY OnePlan, IfSoPlan DEF MainRequest
  <1>2. PlanOver(Does("open") \o Connects("main", "none"), {Do("open")} \cup {Conn("main", "none")})
    <2>1. ~NeverAfter(Do("open"), Conn("main", "none")) BY StepNames DEF NeverAfter
    <2> QED BY <2>1, OnePlan, StepsJoined DEF Act
  <1>3. PlanOver(Does("open") \o Connects("main", "none") \o IfSo(config.control, Asks("main", "subscribe")),
                 {Do("open")} \cup {Conn("main", "none")} \cup sub)
    <2>1. \A x \in {Do("open")} \cup {Conn("main", "none")}, y \in sub : ~NeverAfter(x, y)
      BY StepNames DEF NeverAfter
    <2> HIDE DEF sub
    <2> QED BY <1>1, <1>2, <2>1, StepsJoined
  <1>4. PlanOver(LivePlan(config), {Do("open")} \cup {Conn("main", "none")} \cup sub \cup {Do("start")})
    <2>1. \A x \in {Do("open")} \cup {Conn("main", "none")} \cup sub, y \in {Do("start")} : ~NeverAfter(x, y)
      BY StepNames DEF NeverAfter
    <2> HIDE DEF sub
    <2> QED BY <1>3, <2>1, OnePlan, StepsJoined DEF Act, LivePlan
  <1>5. {Do("open")} \cup {Conn("main", "none")} \cup sub \cup {Do("start")} = LiveSteps(config)
    BY DEF LiveSteps
  <1> QED BY <1>4, <1>5

LEMMA OtherPlans ==
  /\ PlanOver(RestorePlan, {Do("open"), Do("start")})
  /\ PlanOver(SweepPlan, {Do("drop"), Do("raw"), Do("open"), Do("start")})
  /\ PlanOver(CapturePlan, {Do("open"), Do("start")})
  /\ PlanOver(SweepTool, {Do("raw"), Do("store"), Do("return")})
  /\ PlanOver(ProbePlan, {Do("raw"), Do("return")})
  <1>1. PlanOver(Does("open") \o Does("start"), {Do("open"), Do("start")})
    <2>1. ~NeverAfter(Do("open"), Do("start")) BY StepNames DEF NeverAfter
    <2> QED BY <2>1, OnePlan, StepsJoined DEF Act
  <1>2. PlanOver(Does("raw") \o Does("raw"), {Do("raw")})
    <2>1. ~NeverAfter(Do("raw"), Do("raw")) BY StepNames DEF NeverAfter
    <2>2. {Do("raw")} \cup {Do("raw")} = {Do("raw")} OBVIOUS
    <2>3. PlanOver(Does("raw"), {Do("raw")}) BY OnePlan DEF Act
    <2> QED BY <2>1, <2>2, <2>3, StepsJoined
  <1>3. PlanOver(Does("drop") \o Does("raw") \o Does("raw") \o RestorePlan, {Do("drop"), Do("raw"), Do("open"), Do("start")})
    <2>1. PlanOver(Does("drop") \o Does("raw"), {Do("drop")} \cup {Do("raw")})
      <3>1. ~NeverAfter(Do("drop"), Do("raw")) BY StepNames DEF NeverAfter
      <3> QED BY <3>1, OnePlan, StepsJoined DEF Act
    <2>2. PlanOver(Does("drop") \o Does("raw") \o Does("raw"), {Do("drop")} \cup {Do("raw")} \cup {Do("raw")})
      <3>1. \A x \in {Do("drop")} \cup {Do("raw")}, y \in {Do("raw")} : ~NeverAfter(x, y) BY StepNames DEF NeverAfter
      <3>2. PlanOver(Does("raw"), {Do("raw")}) BY OnePlan DEF Act
      <3> QED BY <2>1, <3>1, <3>2, StepsJoined
    <2>3. PlanOver(Does("drop") \o Does("raw") \o Does("raw") \o RestorePlan,
                   {Do("drop")} \cup {Do("raw")} \cup {Do("raw")} \cup {Do("open"), Do("start")})
      <3>1. \A x \in {Do("drop")} \cup {Do("raw")} \cup {Do("raw")}, y \in {Do("open"), Do("start")} : ~NeverAfter(x, y)
        BY StepNames DEF NeverAfter
      <3> QED BY <1>1, <2>2, <3>1, StepsJoined DEF RestorePlan
    <2>4. {Do("drop")} \cup {Do("raw")} \cup {Do("raw")} \cup {Do("open"), Do("start")}
            = {Do("drop"), Do("raw"), Do("open"), Do("start")} OBVIOUS
    <2> QED BY <2>3, <2>4
  <1>4. PlanOver(Does("raw") \o Does("raw") \o Does("store") \o Does("return"), {Do("raw"), Do("store"), Do("return")})
    <2>1. PlanOver(Does("raw") \o Does("raw") \o Does("store"), {Do("raw")} \cup {Do("store")})
      <3>1. ~NeverAfter(Do("raw"), Do("store")) BY StepNames DEF NeverAfter
      <3> QED BY <1>2, <3>1, OnePlan, StepsJoined DEF Act
    <2>2. PlanOver(Does("raw") \o Does("raw") \o Does("store") \o Does("return"), {Do("raw")} \cup {Do("store")} \cup {Do("return")})
      <3>1. \A x \in {Do("raw")} \cup {Do("store")}, y \in {Do("return")} : ~NeverAfter(x, y) BY StepNames DEF NeverAfter
      <3> QED BY <2>1, <3>1, OnePlan, StepsJoined DEF Act
    <2>3. {Do("raw")} \cup {Do("store")} \cup {Do("return")} = {Do("raw"), Do("store"), Do("return")} OBVIOUS
    <2> QED BY <2>2, <2>3
  <1>5. PlanOver(Does("raw") \o Does("return"), {Do("raw"), Do("return")})
    <2>1. ~NeverAfter(Do("raw"), Do("return")) BY StepNames DEF NeverAfter
    <2> QED BY <2>1, OnePlan, StepsJoined DEF Act
  <1> QED BY <1>1, <1>3, <1>4, <1>5 DEF RestorePlan, SweepPlan, CapturePlan, SweepTool, ProbePlan

LEMMA RoundPlans ==
  /\ PlanOver(Asks("main", "offline") \o Does("park") \o Does("return"), {Req("main", "offline"), Do("park"), Do("return")})
  /\ PlanOver(Asks("main", "health"), {Req("main", "health")})
  /\ PlanOver(Asks("main", "health") \o Asks("main", "offline") \o Does("exit"),
              {Req("main", "health"), Req("main", "offline"), Do("exit")})
  /\ PlanOver(Asks("main", "data"), {Req("main", "data")})
  /\ PlanOver(Does("return"), {Do("return")})
  <1>1. PlanOver(Asks("main", "offline") \o Does("park") \o Does("return"), {Req("main", "offline"), Do("park"), Do("return")})
    <2>1. PlanOver(Asks("main", "offline") \o Does("park"), {Req("main", "offline")} \cup {Do("park")})
      <3>1. ~NeverAfter(Req("main", "offline"), Do("park")) BY StepNames DEF NeverAfter
      <3> QED BY <3>1, OnePlan, StepsJoined DEF Act, MainRequest
    <2>2. PlanOver(Asks("main", "offline") \o Does("park") \o Does("return"),
                   {Req("main", "offline")} \cup {Do("park")} \cup {Do("return")})
      <3>1. \A x \in {Req("main", "offline")} \cup {Do("park")}, y \in {Do("return")} : ~NeverAfter(x, y)
        BY StepNames DEF NeverAfter
      <3> QED BY <2>1, <3>1, OnePlan, StepsJoined DEF Act
    <2>3. {Req("main", "offline")} \cup {Do("park")} \cup {Do("return")} = {Req("main", "offline"), Do("park"), Do("return")}
      OBVIOUS
    <2> QED BY <2>2, <2>3
  <1>2. PlanOver(Asks("main", "health") \o Asks("main", "offline") \o Does("exit"),
                 {Req("main", "health"), Req("main", "offline"), Do("exit")})
    <2>1. PlanOver(Asks("main", "health") \o Asks("main", "offline"), {Req("main", "health")} \cup {Req("main", "offline")})
      <3>1. ~NeverAfter(Req("main", "health"), Req("main", "offline")) BY StepNames DEF NeverAfter
      <3> QED BY <3>1, OnePlan, StepsJoined DEF MainRequest
    <2>2. PlanOver(Asks("main", "health") \o Asks("main", "offline") \o Does("exit"),
                   {Req("main", "health")} \cup {Req("main", "offline")} \cup {Do("exit")})
      <3>1. \A x \in {Req("main", "health")} \cup {Req("main", "offline")}, y \in {Do("exit")} : ~NeverAfter(x, y)
        BY StepNames DEF NeverAfter
      <3> QED BY <2>1, <3>1, OnePlan, StepsJoined DEF Act
    <2>3. {Req("main", "health")} \cup {Req("main", "offline")} \cup {Do("exit")}
            = {Req("main", "health"), Req("main", "offline"), Do("exit")} OBVIOUS
    <2> QED BY <2>2, <2>3
  <1> QED BY <1>1, <1>2, OnePlan DEF Act, MainRequest

-----------------------------------------------------------------------------
(* What holds of a program and of what it has to do.                       *)

Programs == {"monitor", "run", "capture", "sweep", "probe-raw"}
GmLinks  == [at : {"none", "lost", "up"}, will : BOOLEAN, alive : BOOLEAN, arms : BOOLEAN]
GmPasts  == [lost : BOOLEAN, fault : BOOLEAN, end : {"none", "killed", "error", "return", "exit"}, deaf : SUBSET Brokers]
GmTyped ==
  /\ gmConfig \in GmConfigs /\ gmTool \in Programs \cup {"none"} /\ gmAsked \in BOOLEAN
  /\ gmQueue \in [Brokers -> Seq(MainRequest)] /\ gmKept \in [Brokers -> BOOLEAN]
  /\ gmLink \in [Brokers -> GmLinks] /\ gmPast \in GmPasts
  /\ gmRadio \in [users : SUBSET {"driver", "raw"}, mode : {"Standby", "Rx", "Sleep"},
                  set : {"other", "wmbus", "raw"}, burst : BOOLEAN]

ToDo    == Members(gmPlan)
Ending  == Do("return") \in ToDo \/ Do("exit") \in ToDo
Parting == {Req("main", "health"), Req("main", "offline"), Do("park"), Do("return"), Do("exit")}
Sweeps  == {Do("drop"), Do("raw"), Do("open"), Do("start")}

PlanInv ==
  /\ PlanOver(gmPlan, ToDo) /\ ToDo \subseteq StepsOf(gmTool)
  /\ gmTool = "monitor" /\ (Do("drop") \in ToDo \/ Do("raw") \in ToDo) => ToDo \subseteq Sweeps /\ Do("open") \in ToDo
  /\ gmTool = "monitor" /\ Ending => ToDo \subseteq Parting
  /\ Do("park") \in ToDo => Do("return") \in ToDo
  /\ Req("main", "offline") \in ToDo => Ending
  /\ gmAsked => gmTool \in {"none", "monitor"}
  /\ gmPast.end # "none" => gmTool = "none"

PlanPops == gmPlan # <<>> /\ gmPlan' = Tail(gmPlan)

LEMMA Taken ==
  ASSUME PlanInv, PlanPops
  PROVE  /\ Head(gmPlan) \in ToDo /\ Head(gmPlan) \in GmStep
         /\ ToDo = {Head(gmPlan)} \cup ToDo'
         /\ PlanOver(gmPlan', ToDo')
         /\ \A x \in ToDo' : ~NeverAfter(Head(gmPlan), x)
  BY StepTaken DEF PlanInv, PlanPops, ToDo

LEMMA PlanTaken ==
  ASSUME PlanInv, PlanPops, gmTool' = gmTool, gmAsked' = gmAsked, gmPast'.end = gmPast.end
  PROVE  PlanInv'
  <1> DEFINE h == Head(gmPlan)
  <1>1. ToDo = {h} \cup ToDo' /\ PlanOver(gmPlan', ToDo') /\ \A x \in ToDo' : ~NeverAfter(h, x)
    BY Taken
  <1>2. h = Do("open") => Do("raw") \notin ToDo' /\ Do("drop") \notin ToDo'
    BY <1>1 DEF NeverAfter
  <1>3. h \in {Do("return"), Do("exit")} => ToDo' = {}
    BY <1>1 DEF NeverAfter
  <1> HIDE DEF h
  <1>4. gmTool' = "monitor" /\ (Do("drop") \in ToDo' \/ Do("raw") \in ToDo') => ToDo' \subseteq Sweeps /\ Do("open") \in ToDo'
    BY <1>1, <1>2 DEF PlanInv, Sweeps
  <1>5. gmTool' = "monitor" /\ Ending' => ToDo' \subseteq Parting
    BY <1>1 DEF PlanInv, Ending, Parting
  <1>6. Do("park") \in ToDo' => Do("return") \in ToDo'
    BY <1>1, <1>3 DEF PlanInv
  <1>7. Req("main", "offline") \in ToDo' => Ending'
    BY <1>1, <1>3 DEF PlanInv, Ending
  <1> QED BY <1>1, <1>4, <1>5, <1>6, <1>7 DEF PlanInv, Sweeps, Parting

LEMMA PlanKept ==
  ASSUME PlanInv, gmPlan' = gmPlan, gmTool' = gmTool, gmPast'.end = gmPast.end,
         gmAsked' => gmAsked \/ gmTool = "monitor"
  PROVE  PlanInv'
  BY DEF PlanInv, ToDo, Ending, Sweeps, Parting

LEMMA PlanEnded ==
  ASSUME gmTool' = "none", gmPlan' = <<>>
  PROVE  PlanInv' /\ ToDo' = {}
  <1>1. PlanOver(gmPlan', {}) /\ ToDo' = {}
    BY NoStep DEF PlanOver, ToDo
  <1> QED BY <1>1 DEF PlanInv, Ending

LEMMA PlanMade ==
  ASSUME NEW S, PlanOver(gmPlan', S), S \subseteq StepsOf(gmTool'), gmPast'.end = "none",
         gmAsked' => gmTool' \in {"none", "monitor"},
         gmTool' = "monitor" /\ (Do("drop") \in S \/ Do("raw") \in S) => S \subseteq Sweeps /\ Do("open") \in S,
         gmTool' = "monitor" /\ (Do("return") \in S \/ Do("exit") \in S) => S \subseteq Parting,
         Do("park") \in S => Do("return") \in S,
         Req("main", "offline") \in S => Do("return") \in S \/ Do("exit") \in S
  PROVE  PlanInv' /\ ToDo' = S
  <1>1. ToDo' = S BY DEF PlanOver, ToDo
  <1> QED BY <1>1 DEF PlanInv, Ending, Sweeps, Parting

LEMMA StepOf ==
  ASSUME PlanInv, NEW op, Step(op)
  PROVE  /\ Head(gmPlan) \in ToDo /\ Head(gmPlan) \in GmStep /\ Head(gmPlan).op = op
         /\ op \notin {"send", "connect"} => Head(gmPlan) = Do(op)
  <1>1. PlanOver(gmPlan, ToDo) /\ gmPlan # <<>> /\ Head(gmPlan).op = op
    BY DEF PlanInv, Step
  <1>2. Head(gmPlan) \in ToDo /\ Head(gmPlan) \in GmStep
    BY <1>1, StepTaken
  <1> QED BY <1>1, <1>2, StepKinds

LEMMA BrokerOf ==
  ASSUME PlanInv
  PROVE  /\ Step("send") => /\ Head(gmPlan) = Req(Head(gmPlan).broker, Head(gmPlan).what)
                            /\ Head(gmPlan).broker \in Brokers /\ Head(gmPlan).what \in MainRequest
                            /\ Head(gmPlan).broker = "keys" => Head(gmPlan).what \in KeyRequest
         /\ Step("connect") => /\ Head(gmPlan).broker \in Brokers
                               /\ Head(gmPlan) = Conn(Head(gmPlan).broker, Head(gmPlan).what)
                               /\ Head(gmPlan).broker = "keys" => Head(gmPlan).what = "none"
  <1>1. ASSUME Step("send")
        PROVE  /\ Head(gmPlan) = Req(Head(gmPlan).broker, Head(gmPlan).what)
               /\ Head(gmPlan).broker \in Brokers /\ Head(gmPlan).what \in MainRequest
               /\ Head(gmPlan).broker = "keys" => Head(gmPlan).what \in KeyRequest
    <2>1. Head(gmPlan) \in GmStep /\ Head(gmPlan).op = "send" BY <1>1, StepOf
    <2>2. KeyRequest \subseteq MainRequest BY DEF KeyRequest, MainRequest
    <2> QED BY <2>1, <2>2, StepKinds DEF Brokers
  <1>2. ASSUME Step("connect")
        PROVE  /\ Head(gmPlan).broker \in Brokers
               /\ Head(gmPlan) = Conn(Head(gmPlan).broker, Head(gmPlan).what)
               /\ Head(gmPlan).broker = "keys" => Head(gmPlan).what = "none"
    <2>1. Head(gmPlan) \in {Conn("main", "will"), Conn("main", "none"), Conn("keys", "none")}
      <3>1. Head(gmPlan) \in GmStep /\ Head(gmPlan).op = "connect" BY <1>2, StepOf
      <3> QED BY <3>1, StepKinds
    <2> QED BY <2>1, StepNames DEF Brokers
  <1> QED BY <1>1, <1>2

LEMMA TypedStart == GmInit => GmTyped
  <1> SUFFICES ASSUME GmInit PROVE GmTyped OBVIOUS
  <1>1. NoLink \in GmLinks /\ NoPast \in GmPasts BY DEF NoLink, NoPast, GmLinks, GmPasts
  <1>2. <<>> \in Seq(MainRequest) OBVIOUS
  <1>3. gmQueue \in [Brokers -> Seq(MainRequest)] BY <1>2 DEF GmInit
  <1>4. gmLink \in [Brokers -> GmLinks] BY <1>1 DEF GmInit
  <1> QED BY <1>1, <1>3, <1>4 DEF GmInit, GmTyped

LEMMA TypedEnds ==
  ASSUME GmTyped, NEW how \in {"killed", "error", "return", "exit"}, ProcessEnds(how)
  PROVE  GmTyped'
  <1>1. <<>> \in Seq(MainRequest) OBVIOUS
  <1>2. gmQueue' \in [Brokers -> Seq(MainRequest)] BY <1>1 DEF ProcessEnds
  <1>3. ASSUME NEW b \in Brokers
        PROVE  [gmLink[b] EXCEPT !.alive = FALSE, !.at = IF @ = "up" THEN "lost" ELSE @] \in GmLinks
    <2>1. gmLink[b] \in GmLinks BY DEF GmTyped
    <2> QED BY <2>1 DEF GmLinks
  <1>4. gmLink' \in [Brokers -> GmLinks] BY <1>3 DEF ProcessEnds
  <1>5. gmPast' \in GmPasts BY DEF ProcessEnds, GmTyped, GmPasts
  <1> QED BY <1>2, <1>4, <1>5 DEF GmTyped, ProcessEnds

LEMMA TypedStep == GmTyped /\ PlanInv /\ [GmNext]_gmVars => GmTyped'
  <1> SUFFICES ASSUME GmTyped, PlanInv, [GmNext]_gmVars PROVE GmTyped'
    OBVIOUS
  <1>1. CASE StartProgram
    BY <1>1 DEF GmTyped, StartProgram, gmNet, NoPast, Programs, GmPasts
  <1>2. CASE Killed
    BY <1>2, TypedEnds DEF Killed
  <1>3. CASE Asked \/ Store \/ StartRx \/ Shutdown \/ Sweep \/ Live \/ Capture
    BY <1>3 DEF GmTyped, Asked, Store, StartRx, Shutdown, Sweep, Live, Capture, Round, Sound, gmNet
  <1>4. CASE Report
    BY <1>4 DEF GmTyped, Report, Round, gmNet
  <1>5. CASE Connect
    <2>1. Head(gmPlan).broker \in Brokers BY <1>5, BrokerOf DEF Connect
    <2> DEFINE b == Head(gmPlan).broker
    <2>2. gmLink' = [gmLink EXCEPT ![b] = [gmLink[b] EXCEPT !.alive = TRUE, !.arms = Head(gmPlan).what = "will"]]
      BY <1>5, <2>1 DEF GmTyped, Connect
    <2>3. [gmLink[b] EXCEPT !.alive = TRUE, !.arms = Head(gmPlan).what = "will"] \in GmLinks
      <3>1. gmLink[b] \in GmLinks BY <2>1 DEF GmTyped
      <3>2. PICK arms \in BOOLEAN : arms = (Head(gmPlan).what = "will") OBVIOUS
      <3>3. [gmLink[b] EXCEPT !.alive = TRUE, !.arms = arms] \in GmLinks BY <3>1 DEF GmLinks
      <3> QED BY <3>2, <3>3
    <2>4. gmLink' \in [Brokers -> GmLinks] BY <2>1, <2>2, <2>3 DEF GmTyped
    <2> QED BY <1>5, <2>4 DEF GmTyped, Connect, Sound
  <1>6. CASE SendRequest
    <2>1. Head(gmPlan).broker \in Brokers /\ Head(gmPlan).what \in MainRequest BY <1>6, BrokerOf DEF SendRequest
    <2> QED BY <1>6, <2>1 DEF GmTyped, SendRequest, Sound
  <1>7. CASE Open
    BY <1>7 DEF GmTyped, Open, Sound, gmNet
  <1>8. CASE DropRadio
    BY <1>8 DEF GmTyped, DropRadio, Sound, gmNet
  <1>9. CASE BurstEnds \/ Park
    BY <1>9 DEF GmTyped, BurstEnds, Park, Sound, gmNet
  <1>10. CASE CaptureBegins
    BY <1>10 DEF GmTyped, CaptureBegins, gmNet
  <1>11. CASE CaptureEnds
    BY <1>11 DEF GmTyped, CaptureEnds, Sound, gmNet
  <1>12. CASE Returns
    BY <1>12, TypedEnds DEF Returns
  <1>13. CASE StepFails
    <2>1. CASE ProcessEnds("error") BY <2>1, TypedEnds
    <2>2. CASE ~ProcessEnds("error")
      <3>1. CASE gmRadio' = [gmRadio EXCEPT !.users = @ \ {"raw"}] /\ UNCHANGED <<gmConfig, gmTool, gmAsked, gmNet, gmPast>>
        BY <3>1 DEF GmTyped, gmNet
      <3>2. CASE gmPast' = [gmPast EXCEPT !.fault = TRUE] /\ UNCHANGED <<gmConfig, gmTool, gmAsked, gmNet, gmRadio>>
        <4>1. gmPast' \in GmPasts BY <3>2 DEF GmTyped, GmPasts
        <4> QED BY <3>2, <4>1 DEF GmTyped, gmNet
      <3> QED BY <1>13, <2>2, <3>1, <3>2 DEF StepFails
    <2> QED BY <2>1, <2>2
  <1>14. CASE PollFails
    BY <1>14, TypedEnds DEF PollFails
  <1>15. ASSUME NEW b \in Brokers, Reconnects(b) \/ Notices(b) \/ LinkLost(b) PROVE GmTyped'
    <2>1. gmLink' \in [Brokers -> GmLinks]
      <3>1. PICK at \in {"none", "lost", "up"}, will \in BOOLEAN :
                gmLink' = [gmLink EXCEPT ![b] = [gmLink[b] EXCEPT !.at = at, !.will = will]]
        <4>1. gmLink[b] \in GmLinks BY DEF GmTyped
        <4>2. CASE Reconnects(b)
          <5>1. gmLink' = [gmLink EXCEPT ![b] = [gmLink[b] EXCEPT !.at = "up", !.will = gmLink[b].arms]]
            BY <4>2 DEF Reconnects, GmTyped
          <5> QED BY <4>1, <5>1 DEF GmLinks
        <4>3. CASE Notices(b)
          <5>1. gmLink' = [gmLink EXCEPT ![b] = [gmLink[b] EXCEPT !.at = "none", !.will = FALSE]]
            BY <4>3 DEF Notices, GmTyped
          <5> QED BY <4>1, <5>1
        <4>4. CASE LinkLost(b)
          <5>1. gmLink' = [gmLink EXCEPT ![b] = [gmLink[b] EXCEPT !.at = "lost", !.will = gmLink[b].will]]
            BY <4>1, <4>4 DEF LinkLost, GmTyped, GmLinks
          <5> QED BY <4>1, <5>1 DEF GmLinks
        <4> QED BY <1>15, <4>2, <4>3, <4>4
      <3>2. [gmLink[b] EXCEPT !.at = at, !.will = will] \in GmLinks
        <4>1. gmLink[b] \in GmLinks BY DEF GmTyped
        <4> QED BY <4>1 DEF GmLinks
      <3> QED BY <3>1, <3>2 DEF GmTyped
    <2>2. gmPast' \in GmPasts
      BY <1>15 DEF GmTyped, Reconnects, Notices, LinkLost, GmPasts
    <2> QED BY <1>15, <2>1, <2>2 DEF GmTyped, Reconnects, Notices, LinkLost
  <1>16. ASSUME NEW b \in Brokers, Delivers(b) PROVE GmTyped'
    <2>1. gmQueue' \in [Brokers -> Seq(MainRequest)]
      BY <1>16 DEF GmTyped, Delivers
    <2>2. gmKept' \in [Brokers -> BOOLEAN]
      BY <1>16 DEF GmTyped, Delivers, Delivered
    <2>3. gmLink' \in [Brokers -> GmLinks]
      <3>1. gmLink' = gmLink \/ gmLink' = [gmLink EXCEPT ![b] = [gmLink[b] EXCEPT !.at = "lost"]]
        BY <1>16 DEF Delivers, GmTyped
      <3>2. [gmLink[b] EXCEPT !.at = "lost"] \in GmLinks BY DEF GmTyped, GmLinks
      <3> QED BY <3>1, <3>2 DEF GmTyped
    <2>4. gmPast' \in GmPasts
      <3>1. PICK deaf \in SUBSET Brokers, lost \in BOOLEAN : gmPast' = [gmPast EXCEPT !.lost = lost, !.deaf = deaf]
        BY <1>16 DEF GmTyped, Delivers, GmPasts
      <3> QED BY <3>1 DEF GmTyped, GmPasts
    <2> QED BY <1>16, <2>1, <2>2, <2>3, <2>4 DEF GmTyped, Delivers
  <1>17. CASE UNCHANGED gmVars
    BY <1>17 DEF GmTyped, gmVars
  <1> QED BY <1>1, <1>2, <1>3, <1>4, <1>5, <1>6, <1>7, <1>8, <1>9, <1>10, <1>11, <1>12, <1>13, <1>14, <1>15, <1>16, <1>17
          DEF GmNext

LEMMA PlanStart == GmInit => PlanInv
  <1> SUFFICES ASSUME GmInit PROVE PlanInv OBVIOUS
  <1>1. PlanOver(gmPlan, {}) /\ ToDo = {} BY NoStep DEF GmInit, PlanOver, ToDo
  <1> QED BY <1>1 DEF PlanInv, Ending, GmInit, NoPast

(* What a program starts with.                                             *)
PlanSteps(tool) ==
  CASE tool = "monitor" -> MonitorSteps(gmConfig)
    [] tool = "run"     -> LiveSteps(gmConfig)
    [] tool = "capture" -> {Do("open"), Do("start")}
    [] tool = "sweep"   -> {Do("raw"), Do("store"), Do("return")}
    [] OTHER            -> {Do("raw"), Do("return")}

LEMMA ProgramPlans ==
  ASSUME NEW tool \in Programs
  PROVE  PlanOver(PlanOf(tool), PlanSteps(tool)) /\ PlanSteps(tool) \subseteq StepsOf(tool)
  <1>1. PlanOver(PlanOf(tool), PlanSteps(tool))
    BY MonitorPlans, LivePlans, OtherPlans DEF PlanOf, PlanSteps, Programs
  <1>2. CASE tool = "monitor"
    <2>1. MonitorSteps(gmConfig) \subseteq GmStep
      BY StepsAre DEF MonitorSteps, Act, MainRequest, KeyRequest
    <2>2. Conn("main", "none") \notin MonitorSteps(gmConfig)
      BY StepNames DEF MonitorSteps
    <2> QED BY <1>1, <1>2, <2>1, <2>2 DEF PlanSteps, StepsOf
  <1>3. CASE tool # "monitor"
    BY <1>1, <1>3 DEF PlanSteps, StepsOf, Programs, LiveSteps
  <1> QED BY <1>2, <1>3

LEMMA PlanStep == GmTyped /\ PlanInv /\ [GmNext]_gmVars => PlanInv'
  <1> SUFFICES ASSUME GmTyped, PlanInv, [GmNext]_gmVars PROVE PlanInv'
    OBVIOUS
  <1>1. CASE StartProgram
    <2>1. gmTool' \in Programs BY <1>1 DEF StartProgram, Programs
    <2>2. PlanOver(gmPlan', PlanSteps(gmTool')) /\ PlanSteps(gmTool') \subseteq StepsOf(gmTool')
      BY <1>1, <2>1, ProgramPlans DEF StartProgram
    <2>3. gmTool' = "monitor" => /\ Do("drop") \notin PlanSteps(gmTool') /\ Do("raw") \notin PlanSteps(gmTool')
                                 /\ Do("return") \notin PlanSteps(gmTool') /\ Do("exit") \notin PlanSteps(gmTool')
      BY StepNames DEF PlanSteps, MonitorSteps
    <2>4. Do("park") \notin PlanSteps(gmTool') /\ Req("main", "offline") \notin PlanSteps(gmTool')
      BY <2>1, StepNames DEF PlanSteps, MonitorSteps, LiveSteps, Programs
    <2>5. gmPast'.end = "none" /\ ~gmAsked' BY <1>1 DEF StartProgram, NoPast
    <2> QED BY <2>2, <2>3, <2>4, <2>5, PlanMade
  <1>2. CASE Killed \/ Returns \/ PollFails
    BY <1>2, PlanEnded DEF Killed, Returns, PollFails, ProcessEnds
  <1>3. CASE Store \/ Connect \/ SendRequest \/ Open \/ StartRx \/ DropRadio \/ CaptureEnds \/ Park
    <2>1. PlanPops BY <1>3 DEF PlanPops, Store, Connect, SendRequest, Open, StartRx, DropRadio, CaptureEnds, Park, Step, Steps
    <2>2. gmTool' = gmTool /\ gmAsked' = gmAsked /\ gmPast' = gmPast
      BY <1>3 DEF Store, Connect, SendRequest, Open, StartRx, DropRadio, CaptureEnds, Park, Sound
    <2> QED BY <2>1, <2>2, PlanTaken
  <1>4. CASE Asked \/ BurstEnds \/ CaptureBegins \/ UNCHANGED gmVars
    BY <1>4, PlanKept DEF Asked, BurstEnds, CaptureBegins, gmVars
  <1>5. ASSUME NEW b \in Brokers, Reconnects(b) \/ Notices(b) \/ LinkLost(b) \/ Delivers(b) PROVE PlanInv'
    <2>1. gmPlan' = gmPlan /\ gmTool' = gmTool /\ gmAsked' = gmAsked
      BY <1>5 DEF Reconnects, Notices, LinkLost, Delivers
    <2>2. gmPast'.end = gmPast.end
      BY <1>5 DEF Reconnects, Notices, LinkLost, Delivers, GmTyped, GmPasts
    <2> QED BY <2>1, <2>2, PlanKept
  <1>6. CASE StepFails
    <2>1. CASE ProcessEnds("error") BY <2>1, PlanEnded DEF ProcessEnds
    <2>2. CASE Step("raw") /\ gmTool = "monitor" /\ gmPlan' = RestorePlan /\ UNCHANGED <<gmTool, gmAsked, gmPast>>
      <3>1. PlanOver(gmPlan', {Do("open"), Do("start")}) BY <2>2, OtherPlans
      <3>2. {Do("open"), Do("start")} \subseteq StepsOf("monitor")
        BY StepsAre, StepNames DEF StepsOf, Act
      <3>3. gmPast'.end = "none" /\ (gmAsked' => gmTool' \in {"none", "monitor"}) BY <2>2 DEF PlanInv
      <3>4. {Do("open"), Do("start")} \cap {Do("drop"), Do("raw"), Do("return"), Do("exit"), Do("park"), Req("main", "offline")} = {}
        BY StepNames
      <3> QED BY <2>2, <3>1, <3>2, <3>3, <3>4, PlanMade
    <2>3. CASE Step("park") /\ Steps /\ gmPast' = [gmPast EXCEPT !.fault = TRUE] /\ UNCHANGED <<gmTool, gmAsked>>
      BY <2>3, PlanTaken DEF PlanPops, Step, Steps, GmTyped, GmPasts
    <2> QED BY <1>6, <2>1, <2>2, <2>3 DEF StepFails
  <1>7. CASE Shutdown
    <2>1. PlanOver(gmPlan', {Req("main", "offline"), Do("park"), Do("return")}) BY <1>7, RoundPlans DEF Shutdown
    <2>2. {Req("main", "offline"), Do("park"), Do("return")} \subseteq StepsOf("monitor")
      BY StepsAre, StepNames DEF StepsOf, Act, MainRequest
    <2>3. gmTool' = "monitor" /\ gmPast'.end = "none" BY <1>7 DEF Shutdown, AtTop, PlanInv
    <2>4. {Req("main", "offline"), Do("park"), Do("return")} \cap {Do("drop"), Do("raw")} = {} BY StepNames
    <2> QED BY <2>1, <2>2, <2>3, <2>4, PlanMade DEF Parting
  <1>8. CASE Report
    <2>1. \E S \in {{Req("main", "health")}, {Req("main", "health"), Req("main", "offline"), Do("exit")}} : PlanOver(gmPlan', S)
      BY <1>8, RoundPlans DEF Report, Round
    <2>2. PICK S \in {{Req("main", "health")}, {Req("main", "health"), Req("main", "offline"), Do("exit")}} : PlanOver(gmPlan', S)
      BY <2>1
    <2>3. S \subseteq StepsOf("monitor")
      BY StepsAre, StepNames DEF StepsOf, Act, MainRequest
    <2>4. gmTool' = "monitor" /\ gmPast'.end = "none" BY <1>8 DEF Report, Round, AtTop, PlanInv
    <2>5. S \cap {Do("drop"), Do("raw"), Do("park")} = {} /\ S \subseteq Parting /\ (Req("main", "offline") \in S => Do("exit") \in S)
      BY StepNames DEF Parting
    <2> QED BY <2>2, <2>3, <2>4, <2>5, PlanMade
  <1>9. CASE Sweep
    <2>1. PlanOver(gmPlan', Sweeps) BY <1>9, OtherPlans DEF Sweep, Round, Sweeps
    <2>2. Sweeps \subseteq StepsOf("monitor")
      BY StepsAre, StepNames DEF StepsOf, Act, Sweeps
    <2>3. gmTool' = "monitor" /\ gmPast'.end = "none" BY <1>9 DEF Sweep, Round, AtTop, PlanInv
    <2>4. Sweeps \cap {Do("return"), Do("exit"), Do("park"), Req("main", "offline")} = {} /\ Do("open") \in Sweeps
      BY StepNames DEF Sweeps
    <2> QED BY <2>1, <2>2, <2>3, <2>4, PlanMade
  <1>10. CASE Live
    <2>1. PlanOver(gmPlan', {Req("main", "data")}) BY <1>10, RoundPlans DEF Live, Round
    <2>2. {Req("main", "data")} \subseteq StepsOf("run") BY DEF StepsOf
    <2>3. gmTool' = "run" /\ gmPast'.end = "none" /\ gmAsked' = gmAsked BY <1>10 DEF Live, Round, AtTop, PlanInv
    <2>4. {Req("main", "data")} \cap {Do("park"), Req("main", "offline")} = {} BY StepNames
    <2>5. ~gmAsked BY <1>10 DEF PlanInv, Live, AtTop
    <2> QED BY <2>1, <2>2, <2>3, <2>4, <2>5, PlanMade
  <1>11. CASE Capture
    <2>1. PlanOver(gmPlan', {Do("return")}) BY <1>11, RoundPlans DEF Capture, Round
    <2>2. {Do("return")} \subseteq StepsOf("capture") BY DEF StepsOf
    <2>3. gmTool' = "capture" /\ gmPast'.end = "none" /\ gmAsked' = gmAsked BY <1>11 DEF Capture, Round, AtTop, PlanInv
    <2>4. {Do("return")} \cap {Do("park"), Req("main", "offline")} = {} BY StepNames
    <2>5. ~gmAsked BY <1>11 DEF PlanInv, Capture, AtTop
    <2> QED BY <2>1, <2>2, <2>3, <2>4, <2>5, PlanMade
  <1> QED BY <1>1, <1>2, <1>3, <1>4, <1>5, <1>6, <1>7, <1>8, <1>9, <1>10, <1>11 DEF GmNext

-----------------------------------------------------------------------------
(* Who has the radio.                                                      *)

RadioReceives == "driver" \in gmRadio.users /\ gmRadio.mode = "Rx" /\ gmRadio.set = "wmbus"
HandInv ==
  /\ gmTool = "none" => gmRadio.users = {} /\ ~gmRadio.burst
  /\ ~({"driver", "raw"} \subseteq gmRadio.users)
  /\ "raw" \in gmRadio.users => gmPlan # <<>> /\ Head(gmPlan) = Do("raw")
  /\ Do("raw") \in ToDo => "driver" \notin gmRadio.users \/ Do("drop") \in ToDo
  /\ gmRadio.burst => Do("open") \in ToDo
  /\ gmTool \in {"monitor", "run"} /\ ~gmPast.fault => Do("open") \in ToDo \/ Ending \/ RadioReceives
  /\ gmTool = "monitor" /\ ~gmPast.fault /\ Do("return") \in ToDo => Do("park") \in ToDo \/ gmRadio.mode = "Sleep"
  /\ gmPast.end = "return" /\ gmAsked /\ ~gmPast.fault => gmRadio.mode = "Sleep"
  /\ gmRadio.set = "raw" /\ gmRadio.mode = "Rx" =>
       IF gmTool = "none" THEN gmPast.end \in {"killed", "error"} ELSE Do("open") \in ToDo \/ Do("raw") \in ToDo

LEMMA OnlyMonitor ==
  ASSUME PlanInv, GmTyped, gmTool # "monitor"
  PROVE  ToDo \cap {Do("drop"), Do("park"), Do("exit"), Conn("main", "will"), Req("main", "online"),
                    Req("main", "offline"), Req("main", "startup")} = {}
  <1>1. ToDo \subseteq StepsOf(gmTool) BY DEF PlanInv
  <1>2. CASE gmTool = "run" BY <1>1, <1>2, StepNames DEF StepsOf
  <1>3. CASE gmTool = "capture" BY <1>1, <1>3, StepNames DEF StepsOf
  <1>4. CASE gmTool = "sweep" BY <1>1, <1>4, StepNames DEF StepsOf
  <1>5. CASE gmTool = "probe-raw" BY <1>1, <1>5, StepNames DEF StepsOf
  <1>6. CASE gmTool = "none" BY <1>1, <1>6 DEF StepsOf
  <1> QED BY <1>2, <1>3, <1>4, <1>5, <1>6 DEF GmTyped, Programs

LEMMA NothingToDo ==
  ASSUME PlanInv
  PROVE  (gmPlan = <<>> \/ gmTool = "none") => ToDo = {}
  <1>1. gmPlan = <<>> => ToDo = {} BY DEF ToDo, Members
  <1>2. gmTool = "none" => ToDo = {} BY DEF PlanInv, StepsOf
  <1> QED BY <1>1, <1>2

LEMMA HandStart == GmInit => HandInv
  <1> SUFFICES ASSUME GmInit PROVE HandInv OBVIOUS
  <1>1. ToDo = {} BY PlanStart, NothingToDo DEF GmInit
  <1> QED BY <1>1 DEF GmInit, HandInv, NoPast

LEMMA HandEnds ==
  ASSUME GmTyped, PlanInv, HandInv, gmTool # "none",
         NEW how, ProcessEnds(how),
         how \in {"killed", "error"} \/ (gmPlan # <<>> /\ Head(gmPlan) = Do(how) /\ how \in {"return", "exit"})
  PROVE  HandInv'
  <1>1. ToDo' = {} /\ gmTool' = "none" BY PlanEnded DEF ProcessEnds
  <1>2. gmRadio'.users = {} /\ ~gmRadio'.burst /\ gmRadio'.mode = gmRadio.mode /\ gmRadio'.set = gmRadio.set
    BY DEF ProcessEnds, GmTyped
  <1>3. gmPast'.end = how /\ gmAsked' = gmAsked /\ (gmPast'.fault = (gmPast.fault \/ how = "error"))
    BY DEF ProcessEnds, GmTyped, GmPasts
  <1>4. ASSUME how \notin {"killed", "error"} PROVE ToDo = {Do(how)}
    <2>1. gmPlan # <<>> /\ Head(gmPlan) = Do(how) /\ how \in {"return", "exit"} BY <1>4
    <2>2. ToDo = {Head(gmPlan)} \cup Members(Tail(gmPlan)) /\ \A x \in Members(Tail(gmPlan)) : ~NeverAfter(Head(gmPlan), x)
      BY <2>1, StepTaken DEF PlanInv
    <2>3. Members(Tail(gmPlan)) = {} BY <2>1, <2>2 DEF NeverAfter
    <2> QED BY <2>1, <2>2, <2>3
  <1>5. gmRadio'.set = "raw" /\ gmRadio'.mode = "Rx" => how \in {"killed", "error"}
    BY <1>2, <1>4, StepNames DEF HandInv
  <1>6. how = "return" /\ gmAsked' /\ ~gmPast'.fault => gmRadio'.mode = "Sleep"
    <2> SUFFICES ASSUME how = "return", gmAsked, ~gmPast.fault PROVE gmRadio.mode = "Sleep"
      BY <1>2, <1>3
    <2>1. gmTool = "monitor" BY DEF PlanInv
    <2>2. Do("return") \in ToDo /\ Do("park") \notin ToDo BY <1>4, StepNames
    <2> QED BY <2>1, <2>2 DEF HandInv
  <1> QED BY <1>1, <1>2, <1>3, <1>5, <1>6 DEF HandInv

(* Steps that are not about the radio.                                     *)
LEMMA HandTaken ==
  ASSUME PlanInv, HandInv, PlanPops, gmTool' = gmTool, gmAsked' = gmAsked, gmPast' = gmPast, gmRadio' = gmRadio, 
         Head(gmPlan) \notin {Do(op) : op \in {"raw", "drop", "open", "park", "return", "exit"}}
  PROVE  HandInv'
  <1>1. ToDo = {Head(gmPlan)} \cup ToDo' BY Taken
  <1>2. \A op \in {"raw", "drop", "open", "park", "return", "exit"} : Do(op) \in ToDo <=> Do(op) \in ToDo'
    BY <1>1
  <1>3. "raw" \notin gmRadio.users BY DEF HandInv
  <1>4. Ending => Ending' BY <1>2 DEF Ending
  <1>5. RadioReceives => RadioReceives' BY DEF RadioReceives
  <1> QED BY <1>2, <1>3, <1>4, <1>5 DEF HandInv

LEMMA HandKept ==
  ASSUME HandInv, gmPlan' = gmPlan, gmTool' = gmTool, gmRadio' = gmRadio,
         gmPast'.fault = gmPast.fault, gmPast'.end = gmPast.end, gmAsked' => gmAsked \/ gmPast.end = "none"
  PROVE  HandInv'
  <1>1. ToDo' = ToDo /\ Ending' = Ending /\ RadioReceives' = RadioReceives BY DEF ToDo, Ending, RadioReceives
  <1> QED BY <1>1 DEF HandInv

(* The loops.                                                              *)
LEMMA HandRound ==
  ASSUME PlanInv, HandInv, gmPlan = <<>>, gmTool' = gmTool, gmAsked' = gmAsked, gmPast' = gmPast, gmRadio' = gmRadio,
         gmTool # "none", Do("raw") \in ToDo' => Do("drop") \in ToDo', Do("return") \in ToDo' => Do("park") \in ToDo' \/ gmTool # "monitor"
  PROVE  HandInv'
  <1>1. ToDo = {} BY NothingToDo
  <1>2. RadioReceives' = RadioReceives /\ ~Ending BY <1>1 DEF RadioReceives, Ending
  <1>3. "raw" \notin gmRadio.users BY DEF HandInv
  <1> QED BY <1>1, <1>2, <1>3 DEF HandInv

LEMMA HandStep == GmTyped /\ PlanInv /\ PlanInv' /\ HandInv /\ [GmNext]_gmVars => HandInv'
  <1> SUFFICES ASSUME GmTyped, PlanInv, PlanInv', HandInv, [GmNext]_gmVars PROVE HandInv'
    OBVIOUS
  <1>1. CASE StartProgram
    <2>1. gmTool' \in Programs BY <1>1 DEF StartProgram, Programs
    <2>2. ToDo' = PlanSteps(gmTool')
      BY <1>1, <2>1, ProgramPlans DEF StartProgram, PlanOver, ToDo
    <2>3. gmTool' = "monitor" => Do("open") \in ToDo' /\ Do("return") \notin ToDo'
      BY <2>2, StepNames DEF PlanSteps, MonitorSteps
    <2>4. gmTool' = "run" => Do("open") \in ToDo' BY <2>2 DEF PlanSteps, LiveSteps
    <2>5. Do("open") \in ToDo' \/ Do("raw") \in ToDo' BY <2>1, <2>2, <2>3, <2>4 DEF PlanSteps, Programs
    <2>6. gmRadio' = gmRadio /\ gmRadio.users = {} /\ ~gmRadio.burst /\ gmPast'.end = "none" /\ gmTool' # "none"
      BY <1>1, <2>1 DEF StartProgram, HandInv, NoPast, Programs
    <2> QED BY <2>1, <2>3, <2>4, <2>5, <2>6 DEF HandInv
  <1>2. CASE Killed
    BY <1>2, HandEnds DEF Killed
  <1>3. CASE PollFails
    BY <1>3, HandEnds DEF PollFails, AtTop
  <1>4. CASE Returns
    <2>1. Head(gmPlan) \in GmStep BY <1>4, StepTaken DEF Returns, PlanInv
    <2>2. "return" \notin {"send", "connect"} /\ "exit" \notin {"send", "connect"} OBVIOUS
    <2>3. Head(gmPlan) = Do(Head(gmPlan).op) BY <1>4, <2>1, <2>2, StepKinds DEF Returns
    <2> QED BY <1>4, <2>3, HandEnds DEF Returns
  <1>5. CASE Store \/ StartRx \/ Connect \/ SendRequest
    <2>1. PlanPops /\ gmTool' = gmTool /\ gmAsked' = gmAsked /\ gmPast' = gmPast /\ gmRadio' = gmRadio
      BY <1>5 DEF PlanPops, Store, Connect, SendRequest, StartRx, Step, Steps, Sound
    <2>2. Head(gmPlan).op \in {"store", "start", "connect", "send"}
      BY <1>5 DEF Store, Connect, SendRequest, StartRx, Step
    <2>3. Head(gmPlan) \notin {Do(op) : op \in {"raw", "drop", "open", "park", "return", "exit"}}
      BY <2>2, StepNames
    <2> QED BY <2>1, <2>3, HandTaken
  <1>6. CASE Open
    <2>1. PlanPops /\ gmTool' = gmTool /\ gmAsked' = gmAsked /\ gmPast' = gmPast /\ Head(gmPlan) = Do("open") /\ gmTool # "none"
      BY <1>6, StepOf DEF PlanPops, Open, Step, Steps, Sound
    <2>2. ToDo = {Do("open")} \cup ToDo' /\ Do("raw") \notin ToDo'
      BY <2>1, Taken DEF NeverAfter
    <2>3. "raw" \notin gmRadio.users BY <2>1, StepNames DEF HandInv
    <2>4. gmRadio'.users = gmRadio.users \cup {"driver"} /\ gmRadio'.mode = "Rx" /\ gmRadio'.set = "wmbus" /\ ~gmRadio'.burst
      BY <1>6 DEF Open, GmTyped
    <2>5. gmTool = "monitor" => Do("return") \notin ToDo'
      <3>1. Do("open") \notin Parting BY StepNames DEF Parting
      <3> QED BY <2>2, <3>1 DEF PlanInv, Ending
    <2>6. RadioReceives' BY <2>4 DEF RadioReceives
    <2>7. gmPast'.end = "none" BY <2>1 DEF PlanInv, GmTyped, GmPasts
    <2> QED BY <2>1, <2>2, <2>3, <2>4, <2>5, <2>6, <2>7 DEF HandInv
  <1>7. CASE DropRadio
    <2>1. PlanPops /\ gmTool' = gmTool /\ gmAsked' = gmAsked /\ gmPast' = gmPast /\ Head(gmPlan) = Do("drop") /\ gmTool # "none"
      BY <1>7, StepOf DEF PlanPops, DropRadio, Step, Steps, Sound
    <2>2. ToDo = {Do("drop")} \cup ToDo' BY <2>1, Taken
    <2>3. gmTool = "monitor"
      BY <2>1, <2>2, OnlyMonitor DEF PlanInv
    <2>4. Do("open") \in ToDo' /\ Do("return") \notin ToDo'
      BY <2>2, <2>3, StepNames DEF PlanInv, Sweeps
    <2>5. "raw" \notin gmRadio.users BY <2>1, StepNames DEF HandInv
    <2>6. gmRadio'.users = gmRadio.users \ {"driver"} /\ gmRadio'.mode = gmRadio.mode /\ gmRadio'.set = gmRadio.set
      BY <1>7 DEF DropRadio, GmTyped
    <2>7. gmPast'.end = "none" BY <2>1 DEF PlanInv, GmTyped, GmPasts
    <2> QED BY <2>1, <2>2, <2>3, <2>4, <2>5, <2>6, <2>7 DEF HandInv
  <1>8. CASE BurstEnds
    <2>1. ToDo' = ToDo /\ Ending' = Ending /\ gmTool' = gmTool /\ gmPlan' = gmPlan /\ gmPast' = gmPast /\ gmAsked' = gmAsked
      BY <1>8 DEF BurstEnds, ToDo, Ending
    <2>2. Do("open") \in ToDo /\ gmTool # "none" BY <1>8 DEF BurstEnds, HandInv
    <2>3. gmRadio'.users = gmRadio.users /\ ~gmRadio'.burst BY <1>8 DEF BurstEnds, GmTyped
    <2>4. gmTool = "monitor" => Do("return") \notin ToDo BY <2>2, StepNames DEF PlanInv, Ending, Parting
    <2>5. gmPast'.end = "none" BY <2>1, <2>2 DEF PlanInv, GmTyped, GmPasts
    <2> QED BY <2>1, <2>2, <2>3, <2>4, <2>5 DEF HandInv
  <1>9. CASE CaptureBegins
    <2>1. ToDo' = ToDo /\ Ending' = Ending /\ gmTool' = gmTool /\ gmPlan' = gmPlan /\ gmPast' = gmPast /\ gmAsked' = gmAsked
      BY <1>9 DEF CaptureBegins, ToDo, Ending
    <2>2. Head(gmPlan) = Do("raw") /\ Do("raw") \in ToDo /\ gmTool # "none" /\ gmPlan # <<>>
      BY <1>9, StepOf DEF CaptureBegins, Step
    <2>3. gmRadio'.users = gmRadio.users \cup {"raw"} /\ gmRadio'.burst = gmRadio.burst
      BY <1>9 DEF CaptureBegins, GmTyped
    <2>4. ToDo = {Head(gmPlan)} \cup Members(Tail(gmPlan)) /\ \A x \in Members(Tail(gmPlan)) : ~NeverAfter(Head(gmPlan), x)
      BY <2>2, StepTaken DEF PlanInv
    <2>5. Do("drop") \notin ToDo BY <2>2, <2>4, StepNames DEF NeverAfter
    <2>6. "driver" \notin gmRadio.users BY <2>2, <2>5 DEF HandInv
    <2>7. gmTool = "monitor" => Do("open") \in ToDo /\ Do("return") \notin ToDo
      BY <2>2, StepNames DEF PlanInv, Sweeps
    <2>8. gmTool # "run" BY <2>2, StepNames DEF PlanInv, StepsOf
    <2>9. gmPast'.end = "none" BY <2>1, <2>2 DEF PlanInv, GmTyped, GmPasts
    <2> QED BY <2>1, <2>2, <2>3, <2>5, <2>6, <2>7, <2>8, <2>9 DEF HandInv
  <1>10. CASE CaptureEnds
    <2>1. PlanPops /\ gmTool' = gmTool /\ gmAsked' = gmAsked /\ gmPast' = gmPast /\ Head(gmPlan) = Do("raw") /\ gmTool # "none"
      BY <1>10, StepOf DEF PlanPops, CaptureEnds, Step, Steps, Sound
    <2>2. ToDo = {Do("raw")} \cup ToDo' BY <2>1, Taken
    <2>3. gmRadio'.users = gmRadio.users \ {"raw"} /\ gmRadio'.mode = "Standby" /\ ~gmRadio'.burst
      BY <1>10 DEF CaptureEnds, GmTyped
    <2>4. gmTool = "monitor" => Do("open") \in ToDo' /\ Do("return") \notin ToDo'
      BY <2>2, StepNames DEF PlanInv, Sweeps
    <2>5. gmTool # "run" BY <2>2, StepNames DEF PlanInv, StepsOf
    <2>6. gmPast'.end = "none" BY <2>1 DEF PlanInv, GmTyped, GmPasts
    <2>7. "driver" \notin gmRadio'.users
      BY <1>10, <2>3 DEF CaptureEnds, HandInv
    <2> QED BY <2>1, <2>2, <2>3, <2>4, <2>5, <2>6, <2>7 DEF HandInv
  <1>11. CASE Park \/ (Step("park") /\ Steps /\ gmPast' = [gmPast EXCEPT !.fault = TRUE]
                       /\ UNCHANGED <<gmConfig, gmTool, gmAsked, gmFailed, gmNet, gmRadio>>)
    <2>1. PlanPops /\ gmTool' = gmTool /\ gmAsked' = gmAsked /\ Head(gmPlan) = Do("park") /\ gmTool # "none"
      BY <1>11, StepOf DEF PlanPops, Park, Step, Steps, Sound
    <2>2. ToDo = {Do("park")} \cup ToDo' BY <2>1, Taken
    <2>3. gmTool = "monitor"
      BY <2>1, <2>2, OnlyMonitor DEF PlanInv
    <2>4. Do("return") \in ToDo /\ Do("return") \in ToDo' BY <2>2, StepNames DEF PlanInv
    <2>5. ToDo \subseteq Parting BY <2>3, <2>4 DEF PlanInv, Ending
    <2>6. Do("open") \notin ToDo /\ Do("raw") \notin ToDo BY <2>5, StepNames DEF Parting
    <2>7. gmPast'.end = "none" /\ (gmPast'.fault \/ gmPast' = gmPast) BY <1>11, <2>1 DEF Park, PlanInv, GmTyped, GmPasts
    <2>8. gmRadio'.users = gmRadio.users /\ gmRadio'.burst = gmRadio.burst /\ gmRadio'.set = gmRadio.set
          /\ (gmRadio'.mode = "Sleep" \/ (gmPast'.fault /\ gmRadio'.mode = gmRadio.mode))
      BY <1>11 DEF Park, GmTyped, GmPasts
    <2>9. Ending' BY <2>4 DEF Ending
    <2>10. ~gmRadio.burst /\ "raw" \notin gmRadio.users /\ ~({"driver", "raw"} \subseteq gmRadio.users)
           /\ ~(gmRadio.set = "raw" /\ gmRadio.mode = "Rx")
      BY <2>1, <2>6, StepNames DEF HandInv
    <2> QED BY <2>1, <2>2, <2>4, <2>6, <2>7, <2>8, <2>9, <2>10 DEF HandInv
  <1>12. CASE StepFails
    <2>1. CASE ProcessEnds("error")
      <3>1. gmTool # "none" BY <1>12, NothingToDo, StepTaken DEF StepFails, PlanInv
      <3> QED BY <2>1, <3>1, HandEnds
    <2>2. CASE Step("raw") /\ gmTool = "monitor" /\ gmPlan' = RestorePlan /\ UNCHANGED <<gmTool, gmAsked, gmPast>>
               /\ gmRadio' = [gmRadio EXCEPT !.users = @ \ {"raw"}]
      <3>1. ToDo' = {Do("open"), Do("start")} BY <2>2, OtherPlans DEF PlanOver, ToDo
      <3>2. Do("open") \in ToDo' /\ Do("raw") \notin ToDo' /\ Do("return") \notin ToDo' BY <3>1, StepNames
      <3>3. gmRadio'.users = gmRadio.users \ {"raw"} BY <2>2 DEF GmTyped
      <3>4. gmPast'.end = "none" BY <2>2 DEF PlanInv, GmTyped, GmPasts
      <3> QED BY <2>2, <3>2, <3>3, <3>4 DEF HandInv
    <2>3. CASE Step("park") /\ Steps /\ gmPast' = [gmPast EXCEPT !.fault = TRUE]
               /\ UNCHANGED <<gmConfig, gmTool, gmAsked, gmFailed, gmNet, gmRadio>>
      BY <1>11, <2>3
    <2> QED BY <1>12, <2>1, <2>2, <2>3 DEF StepFails
  <1>13. CASE Asked
    BY <1>13, HandKept DEF Asked, PlanInv, GmTyped, GmPasts
  <1>14. ASSUME NEW b \in Brokers, Reconnects(b) \/ Notices(b) \/ LinkLost(b) \/ Delivers(b) PROVE HandInv'
    <2>1. gmPlan' = gmPlan /\ gmTool' = gmTool /\ gmAsked' = gmAsked /\ gmRadio' = gmRadio
      BY <1>14 DEF Reconnects, Notices, LinkLost, Delivers
    <2>2. gmPast'.end = gmPast.end /\ gmPast'.fault = gmPast.fault
      BY <1>14 DEF Reconnects, Notices, LinkLost, Delivers, GmTyped, GmPasts
    <2> QED BY <2>1, <2>2, HandKept
  <1>15. CASE Shutdown
    <2>1. ToDo' = {Req("main", "offline"), Do("park"), Do("return")} BY <1>15, RoundPlans DEF Shutdown, PlanOver, ToDo
    <2>2. Do("raw") \notin ToDo' BY <2>1, StepNames
    <2> QED BY <1>15, <2>1, <2>2, HandRound DEF Shutdown, AtTop
  <1>16. CASE Report
    <2>1. ToDo' \in {{Req("main", "health")}, {Req("main", "health"), Req("main", "offline"), Do("exit")}}
      BY <1>16, RoundPlans DEF Report, Round, PlanOver, ToDo
    <2>2. Do("raw") \notin ToDo' /\ Do("return") \notin ToDo' BY <2>1, StepNames
    <2> QED BY <1>16, <2>2, HandRound DEF Report, Round, AtTop
  <1>17. CASE Sweep
    <2>1. ToDo' = Sweeps BY <1>17, OtherPlans DEF Sweep, Round, PlanOver, ToDo, Sweeps
    <2>2. Do("drop") \in ToDo' /\ Do("return") \notin ToDo' BY <2>1, StepNames DEF Sweeps
    <2> QED BY <1>17, <2>2, HandRound DEF Sweep, Round, AtTop
  <1>18. CASE Live
    <2>1. ToDo' = {Req("main", "data")} BY <1>18, RoundPlans DEF Live, Round, PlanOver, ToDo
    <2>2. Do("raw") \notin ToDo' /\ Do("return") \notin ToDo' BY <2>1, StepNames
    <2> QED BY <1>18, <2>2, HandRound DEF Live, Round, AtTop
  <1>19. CASE Capture
    <2>1. ToDo' = {Do("return")} BY <1>19, RoundPlans DEF Capture, Round, PlanOver, ToDo
    <2>2. Do("raw") \notin ToDo' BY <2>1, StepNames
    <2> QED BY <1>19, <2>2, HandRound DEF Capture, Round, AtTop
  <1>20. CASE UNCHANGED gmVars
    BY <1>20, HandKept DEF gmVars
  <1> QED BY <1>1, <1>2, <1>3, <1>4, <1>5, <1>6, <1>7, <1>8, <1>9, <1>10, <1>11, <1>12, <1>13, <1>14, <1>15, <1>16, <1>17,
             <1>18, <1>19, <1>20 DEF GmNext

-----------------------------------------------------------------------------
(* The brokers.                                                            *)

Sent(b) == Members(gmQueue[b])
LinkInv ==
  /\ \A b \in Brokers : gmLink[b].at = "up" => gmLink[b].alive /\ gmLink[b].will = gmLink[b].arms
  /\ ~gmLink["keys"].will /\ ~gmLink["keys"].arms
  /\ Conn("main", "will") \in ToDo \/ Conn("main", "none") \in ToDo => ~gmLink["main"].alive
  /\ Conn("keys", "none") \in ToDo => ~gmLink["keys"].alive
  /\ gmTool = "none" => \A b \in Brokers : ~gmLink[b].alive /\ gmQueue[b] = <<>>
  /\ Sent("keys") \subseteq KeyRequest
  /\ "online" \in Sent("main") => gmLink["main"].arms /\ gmTool = "monitor"
  /\ "offline" \in Sent("main") => Ending
  /\ Req("main", "online") \in ToDo => Conn("main", "will") \in ToDo \/ gmLink["main"].arms
  /\ gmStatus = "online" => gmLink["main"].at # "none" /\ gmLink["main"].will
  /\ gmTool = "monitor" /\ ~gmPast.lost =>
       \/ Req("main", "online") \in ToDo \/ "online" \in Sent("main") \/ Ending
       \/ gmLink["main"].at = "up" /\ gmStatus = "online"

LEMMA QueueGrown ==
  ASSUME NEW T, NEW q \in Seq(T), NEW w \in T
  PROVE  /\ Append(q, w) \in Seq(T) /\ Members(Append(q, w)) = Members(q) \cup {w}
         /\ Len(Append(q, w)) = Len(q) + 1 /\ Append(q, w)[Len(q) + 1] = w
         /\ \A i \in DOMAIN q : i \in DOMAIN Append(q, w) /\ Append(q, w)[i] = q[i]
         /\ \A i \in DOMAIN Append(q, w) : i \in DOMAIN q \/ i = Len(q) + 1
  <1>1. /\ Append(q, w) \in Seq(T) /\ Len(Append(q, w)) = Len(q) + 1 /\ Append(q, w)[Len(q) + 1] = w
        /\ \A i \in DOMAIN q : i \in DOMAIN Append(q, w) /\ Append(q, w)[i] = q[i]
        /\ \A i \in DOMAIN Append(q, w) : i \in DOMAIN q \/ i = Len(q) + 1
        /\ Len(q) + 1 \in DOMAIN Append(q, w)
    BY AppendProperties
  <1>2. Members(Append(q, w)) = Members(q) \cup {w}
    BY <1>1 DEF Members
  <1> QED BY <1>1, <1>2

LEMMA QueueTaken ==
  ASSUME NEW T, NEW q \in Seq(T), q # <<>>
  PROVE  /\ Head(q) \in T /\ Tail(q) \in Seq(T) /\ Members(q) = {Head(q)} \cup Members(Tail(q))
         /\ Head(q) = q[1] /\ 1 \in DOMAIN q
         /\ \A i \in DOMAIN Tail(q) : i \in Nat \ {0} /\ i + 1 \in DOMAIN q /\ Tail(q)[i] = q[i + 1]
         /\ \A i \in DOMAIN q : i \in Nat \ {0} /\ (i = 1 \/ (i - 1 \in DOMAIN Tail(q) /\ Tail(q)[i - 1] = q[i]))
         /\ Len(Tail(q)) = Len(q) - 1
  <1>1. /\ Tail(q) \in Seq(T) /\ Len(Tail(q)) = Len(q) - 1 /\ Len(q) \in Nat \ {0}
        /\ DOMAIN q = 1..Len(q) /\ DOMAIN Tail(q) = 1..Len(q) - 1
        /\ \A i \in 1..Len(q) - 1 : Tail(q)[i] = q[i + 1]
    BY HeadTailProperties, EmptySeq
  <1>2. Head(q) = q[1] /\ 1 \in DOMAIN q /\ Head(q) \in T BY <1>1, ElementOfSeq
  <1>3. \A i \in DOMAIN Tail(q) : i \in Nat \ {0} /\ i + 1 \in DOMAIN q /\ Tail(q)[i] = q[i + 1] BY <1>1
  <1>4. \A i \in DOMAIN q : i \in Nat \ {0} /\ (i = 1 \/ (i - 1 \in DOMAIN Tail(q) /\ Tail(q)[i - 1] = q[i]))
    BY <1>1
  <1>5. ASSUME NEW x PROVE x \in Members(q) <=> x \in {Head(q)} \cup Members(Tail(q))
    <2>1. ASSUME NEW i \in DOMAIN q, x = q[i] PROVE x \in {Head(q)} \cup Members(Tail(q))
      BY <1>2, <1>4, <2>1 DEF Members
    <2>2. ASSUME NEW i \in DOMAIN Tail(q), x = Tail(q)[i] PROVE x \in Members(q)
      BY <1>3, <2>2 DEF Members
    <2>3. Head(q) \in Members(q) BY <1>2 DEF Members
    <2> QED BY <2>1, <2>2, <2>3 DEF Members
  <1>6. Members(q) = {Head(q)} \cup Members(Tail(q)) BY <1>5
  <1> QED BY <1>1, <1>2, <1>3, <1>4, <1>6

LEMMA LinkStart == GmInit => LinkInv
  <1> SUFFICES ASSUME GmInit PROVE LinkInv OBVIOUS
  <1>1. ToDo = {} BY PlanStart, NothingToDo DEF GmInit
  <1>2. \A b \in Brokers : gmQueue[b] = <<>> /\ Sent(b) = {} BY DEF GmInit, Sent, Members
  <1>3. \A b \in Brokers : gmLink[b] = NoLink BY DEF GmInit
  <1> QED BY <1>1, <1>2, <1>3 DEF LinkInv, GmInit, NoLink, Brokers

LEMMA LinkEnds ==
  ASSUME GmTyped, LinkInv, NEW how, ProcessEnds(how)
  PROVE  LinkInv'
  <1>1. ToDo' = {} /\ gmTool' = "none" BY PlanEnded DEF ProcessEnds
  <1>2. \A b \in Brokers : gmQueue'[b] = <<>> /\ Sent(b)' = {}
    <2>1. Members(<<>>) = {} BY DEF Members
    <2> QED BY <2>1 DEF ProcessEnds, Sent
  <1>3. \A b \in Brokers : /\ ~gmLink'[b].alive /\ gmLink'[b].at # "up" /\ gmLink'[b].will = gmLink[b].will
                           /\ gmLink'[b].arms = gmLink[b].arms
                           /\ (gmLink[b].at # "none" => gmLink'[b].at # "none")
    <2> TAKE b \in Brokers
    <2>1. gmLink'[b] = [gmLink[b] EXCEPT !.alive = FALSE, !.at = IF gmLink[b].at = "up" THEN "lost" ELSE gmLink[b].at]
      BY DEF ProcessEnds
    <2>2. gmLink[b] \in GmLinks BY DEF GmTyped
    <2> QED BY <2>1, <2>2 DEF GmLinks
  <1>4. gmStatus' = gmStatus BY DEF ProcessEnds
  <1> QED BY <1>1, <1>2, <1>3, <1>4 DEF LinkInv, Brokers

(* Steps and rounds that tell the brokers nothing.                         *)
LEMMA LinkTaken ==
  ASSUME PlanInv, LinkInv, PlanPops, gmTool' = gmTool, UNCHANGED gmNet, gmPast'.lost = gmPast.lost,
         Head(gmPlan).op \notin {"send", "connect", "return", "exit"}
  PROVE  LinkInv'
  <1>1. ToDo = {Head(gmPlan)} \cup ToDo' BY Taken
  <1>2. /\ \A b, w : Conn(b, w) \in ToDo' <=> Conn(b, w) \in ToDo
        /\ \A b, w : Req(b, w) \in ToDo' <=> Req(b, w) \in ToDo
        /\ \A op \in {"return", "exit"} : Do(op) \in ToDo' <=> Do(op) \in ToDo
    BY <1>1, StepNames
  <1>3. Ending' = Ending /\ \A b \in Brokers : Sent(b)' = Sent(b) BY <1>2 DEF Ending, Sent, gmNet
  <1> QED BY <1>2, <1>3 DEF LinkInv, gmNet, Brokers

LEMMA LinkKept ==
  ASSUME LinkInv, gmPlan' = gmPlan, gmTool' = gmTool, UNCHANGED gmNet, gmPast' = gmPast
  PROVE  LinkInv'
  <1>1. ToDo' = ToDo /\ Ending' = Ending /\ \A b \in Brokers : Sent(b)' = Sent(b) BY DEF ToDo, Ending, Sent, gmNet
  <1> QED BY <1>1 DEF LinkInv, gmNet, Brokers

LEMMA LinkRound ==
  ASSUME PlanInv, LinkInv, gmTool' = gmTool, UNCHANGED gmNet, gmPast' = gmPast, gmTool # "none",
         ~Ending, Req("main", "online") \notin ToDo,
         \A b, w : Conn(b, w) \notin ToDo', Req("main", "online") \notin ToDo'
  PROVE  LinkInv'
  <1>1. \A b \in Brokers : Sent(b)' = Sent(b) BY DEF Sent, gmNet
  <1> QED BY <1>1 DEF LinkInv, gmNet, Brokers

LEMMA LinkConnect ==
  ASSUME GmTyped, PlanInv, LinkInv, Connect
  PROVE  LinkInv'
  <1> DEFINE b == Head(gmPlan).broker
             w == Head(gmPlan).what
  <1>1. /\ PlanPops /\ gmTool' = gmTool /\ gmPast' = gmPast /\ gmQueue' = gmQueue /\ gmStatus' = gmStatus
        /\ b \in Brokers /\ Head(gmPlan) = Conn(b, w) /\ (b = "keys" => w = "none") /\ gmTool # "none"
    BY BrokerOf DEF Connect, PlanPops, Step, Steps, Sound
  <1>2. ToDo = {Conn(b, w)} \cup ToDo' /\ Conn(b, w) \notin ToDo' /\ Head(gmPlan) \in GmStep
    BY <1>1, Taken, StepNames DEF NeverAfter
  <1>3. gmTool = "monitor" => Conn("main", "none") \notin ToDo BY DEF PlanInv, StepsOf
  <1>4. gmTool # "monitor" => Conn("main", "will") \notin ToDo BY OnlyMonitor
  <1>5. \A c, x \in {"will", "none"} : Conn("main", c) \in ToDo /\ Conn("main", x) \in ToDo => c = x
    BY <1>3, <1>4
  <1>6. b = "main" => w \in {"will", "none"} BY <1>1, <1>2, StepKinds, StepNames
  <1>7. ~gmLink[b].alive BY <1>1, <1>2, <1>6 DEF LinkInv, Brokers
  <1>8. gmLink' = [gmLink EXCEPT ![b] = [gmLink[b] EXCEPT !.alive = TRUE, !.arms = (w = "will")]]
    BY <1>1 DEF Connect, GmTyped
  <1>9. gmLink[b] \in GmLinks /\ gmLink[b].at # "up" BY <1>1, <1>7 DEF LinkInv, GmTyped
  <1>10. /\ gmLink'[b].alive /\ gmLink'[b].arms = (w = "will") /\ gmLink'[b].at = gmLink[b].at /\ gmLink'[b].will = gmLink[b].will
         /\ \A c \in Brokers : c # b => gmLink'[c] = gmLink[c]
    BY <1>1, <1>8, <1>9 DEF GmTyped, GmLinks
  <1>11. \A c \in Brokers : Sent(c)' = Sent(c) BY <1>1 DEF Sent
  <1>12. Ending' = Ending BY <1>2, StepNames DEF Ending
  <1>13. \A c, x : Req(c, x) \in ToDo' <=> Req(c, x) \in ToDo BY <1>2, StepNames
  <1>14. b = "main" => Conn("main", "will") \notin ToDo' /\ Conn("main", "none") \notin ToDo'
    BY <1>2, <1>5, <1>6
  <1>15. b = "keys" => Conn("keys", "none") \notin ToDo' BY <1>1, <1>2
  <1> HIDE DEF b, w
  <1>16. b = "main" /\ gmTool = "monitor" => w = "will" BY <1>2, <1>3, <1>6
  <1>17. Req("main", "online") \in ToDo => gmTool = "monitor" BY OnlyMonitor
  <1>18. CASE b = "main"
    BY <1>1, <1>2, <1>9, <1>10, <1>11, <1>12, <1>13, <1>14, <1>16, <1>17, <1>18 DEF LinkInv, Brokers
  <1>19. CASE b = "keys"
    <2>1. Conn("main", "will") \in ToDo' <=> Conn("main", "will") \in ToDo BY <1>2, <1>19, StepNames
    <2>2. Conn("main", "none") \in ToDo' <=> Conn("main", "none") \in ToDo BY <1>2, <1>19, StepNames
    <2>3. w = "none" /\ ~gmLink'["keys"].arms BY <1>1, <1>10, <1>19
    <2>4. gmLink'["main"] = gmLink["main"] BY <1>10, <1>19 DEF Brokers
    <2> QED BY <1>1, <1>9, <1>10, <1>11, <1>12, <1>13, <1>15, <1>19, <2>1, <2>2, <2>3, <2>4 DEF LinkInv, Brokers
  <1> QED BY <1>1, <1>18, <1>19 DEF Brokers

LEMMA LinkSend ==
  ASSUME GmTyped, PlanInv, LinkInv, SendRequest
  PROVE  LinkInv'
  <1>0. PICK b \in Brokers, w \in MainRequest : b = Head(gmPlan).broker /\ w = Head(gmPlan).what
    BY BrokerOf DEF SendRequest
  <1>1. /\ PlanPops /\ gmTool' = gmTool /\ gmPast' = gmPast /\ gmLink' = gmLink /\ gmStatus' = gmStatus
        /\ b \in Brokers /\ Head(gmPlan) = Req(b, w) /\ w \in MainRequest /\ (b = "keys" => w \in KeyRequest) /\ gmTool # "none"
    BY <1>0, BrokerOf DEF SendRequest, PlanPops, Step, Steps, Sound
  <1>2. ToDo = {Req(b, w)} \cup ToDo' /\ \A x \in ToDo' : ~NeverAfter(Req(b, w), x)
    BY <1>1, Taken
  <1>3. gmQueue'[b] = Append(gmQueue[b], w) /\ \A c \in Brokers : c # b => gmQueue'[c] = gmQueue[c]
    BY <1>1, <1>0 DEF SendRequest, GmTyped
  <1>4. gmQueue[b] \in Seq(MainRequest) BY <1>1 DEF GmTyped
  <1>5. Sent(b)' = Sent(b) \cup {w} /\ \A c \in Brokers : c # b => Sent(c)' = Sent(c)
    BY <1>1, <1>3, <1>4, QueueGrown DEF Sent
  <1>6. \A c, x : Conn(c, x) \in ToDo' <=> Conn(c, x) \in ToDo BY <1>2, StepNames
  <1>7. Ending' = Ending BY <1>2, StepNames DEF Ending
  <1>8. Req(b, w) = Req("main", "online") => Conn("main", "will") \notin ToDo' BY <1>2 DEF NeverAfter
  <1>9. Req("main", "online") \in ToDo => gmTool = "monitor" BY OnlyMonitor
  <1>10. Req("main", "offline") \in ToDo => Ending BY DEF PlanInv
  <1>11. Req("main", "online") \in ToDo => Req("main", "online") \in ToDo' \/ (b = "main" /\ w = "online")
    BY <1>2, StepNames
  <1>12. Req("main", "online") \in ToDo' => Req("main", "online") \in ToDo BY <1>2
  <1>13. CASE b = "main"
    <2>1. w = "online" => gmLink["main"].arms BY <1>2, <1>6, <1>8, <1>13 DEF LinkInv
    <2>2. w = "online" => gmTool = "monitor" BY <1>2, <1>9, <1>13
    <2>3. w = "offline" => Ending BY <1>2, <1>10, <1>13
    <2>4. Sent("main")' = Sent("main") \cup {w} /\ Sent("keys")' = Sent("keys") BY <1>5, <1>13 DEF Brokers
    <2> QED BY <1>1, <1>6, <1>7, <1>11, <1>12, <2>1, <2>2, <2>3, <2>4 DEF LinkInv, Brokers
  <1>14. CASE b = "keys"
    <2>1. Sent("keys")' = Sent("keys") \cup {w} /\ Sent("main")' = Sent("main") /\ w \in KeyRequest
      BY <1>1, <1>5, <1>14 DEF Brokers
    <2> QED BY <1>1, <1>6, <1>7, <1>11, <1>12, <1>14, <2>1 DEF LinkInv, Brokers
  <1> QED BY <1>1, <1>13, <1>14 DEF Brokers

LEMMA LinkDelivers ==
  ASSUME GmTyped, LinkInv, NEW b \in Brokers, Delivers(b)
  PROVE  LinkInv'
  <1>1. ToDo' = ToDo /\ Ending' = Ending /\ gmTool' = gmTool BY DEF Delivers, ToDo, Ending
  <1>2. gmQueue[b] \in Seq(MainRequest) /\ gmQueue[b] # <<>> /\ gmLink[b].at = "up" /\ gmLink[b] \in GmLinks
    BY DEF GmTyped, Delivers
  <1>3. Members(gmQueue[b]) = {Head(gmQueue[b])} \cup Members(Tail(gmQueue[b])) BY <1>2, QueueTaken
  <1> DEFINE what == Head(gmQueue[b])
  <1>4. what \in Sent(b) /\ gmStatus' = IF what \in {"online", "offline"} THEN what ELSE gmStatus
    BY <1>3 DEF Sent, Delivers, Delivered
  <1>5. PICK acknowledged \in BOOLEAN :
          /\ gmQueue' = IF acknowledged THEN [gmQueue EXCEPT ![b] = Tail(@)] ELSE gmQueue
          /\ gmLink' = IF acknowledged THEN gmLink ELSE [gmLink EXCEPT ![b].at = "lost"]
          /\ gmPast'.lost = (gmPast.lost \/ (~acknowledged /\ b = "main"))
    BY DEF Delivers, GmTyped, GmPasts
  <1>6. \A c \in Brokers : c # b => gmQueue'[c] = gmQueue[c] /\ gmLink'[c] = gmLink[c] /\ Sent(c)' = Sent(c)
    BY <1>5 DEF GmTyped, Sent
  <1>7. /\ gmLink'[b].at = (IF acknowledged THEN "up" ELSE "lost")
        /\ gmLink'[b].will = gmLink[b].will /\ gmLink'[b].arms = gmLink[b].arms /\ gmLink'[b].alive = gmLink[b].alive
    BY <1>2, <1>5 DEF GmTyped, GmLinks
  <1>8. Sent(b)' = IF acknowledged THEN Members(Tail(gmQueue[b])) ELSE Sent(b)
    BY <1>5 DEF GmTyped, Sent
  <1>9. Sent(b)' \subseteq Sent(b) /\ Sent(b) \subseteq Sent(b)' \cup {what} BY <1>3, <1>8 DEF Sent
  <1>10. gmLink[b].alive /\ gmTool # "none" /\ gmLink[b].will = gmLink[b].arms BY <1>2 DEF LinkInv
  <1> HIDE DEF what
  <1>11. CASE b = "main"
    <2>1. gmStatus' = "online" => gmLink'["main"].will
      BY <1>4, <1>7, <1>10, <1>11 DEF LinkInv
    <2>2. what = "offline" => Ending BY <1>4, <1>11 DEF LinkInv
    <2>3. gmTool = "monitor" /\ ~gmPast'.lost =>
            \/ Req("main", "online") \in ToDo \/ "online" \in Sent("main")' \/ Ending
            \/ gmLink'["main"].at = "up" /\ gmStatus' = "online"
      <3>1. SUFFICES ASSUME gmTool = "monitor", ~gmPast'.lost, ~Ending, Req("main", "online") \notin ToDo,
                            "online" \notin Sent("main")'
                     PROVE  gmLink'["main"].at = "up" /\ gmStatus' = "online"
        OBVIOUS
      <3>2. acknowledged /\ ~gmPast.lost BY <1>5, <1>11, <3>1
      <3>3. CASE what = "online" BY <1>4, <1>7, <1>11, <3>2, <3>3
      <3>4. CASE what # "online"
        <4>1. "online" \notin Sent("main") BY <1>9, <1>11, <3>1, <3>4
        <4>2. gmStatus = "online" BY <3>1, <3>2, <4>1 DEF LinkInv
        <4> QED BY <1>4, <1>7, <1>11, <2>2, <3>1, <3>2, <3>4, <4>2
      <3> QED BY <3>3, <3>4
    <2>4. gmLink'["keys"] = gmLink["keys"] /\ Sent("keys")' = Sent("keys") BY <1>6, <1>11 DEF Brokers
    <2>5. Sent("main")' \subseteq Sent("main") BY <1>9, <1>11
    <2>6. /\ gmLink'["main"].at # "none" /\ gmLink'["main"].will = gmLink["main"].will
          /\ gmLink'["main"].arms = gmLink["main"].arms /\ gmLink'["main"].alive = gmLink["main"].alive
          /\ gmLink["main"].alive /\ gmLink["main"].will = gmLink["main"].arms
      BY <1>7, <1>10, <1>11
    <2> QED BY <1>1, <1>10, <2>1, <2>3, <2>4, <2>5, <2>6 DEF LinkInv, Brokers
  <1>12. CASE b = "keys"
    <2>1. what \in KeyRequest BY <1>4, <1>12 DEF LinkInv
    <2>2. gmStatus' = gmStatus BY <1>4, <2>1 DEF KeyRequest
    <2>3. gmLink'["main"] = gmLink["main"] /\ Sent("main")' = Sent("main") /\ gmPast'.lost = gmPast.lost
      BY <1>5, <1>6, <1>12 DEF Brokers, GmTyped, GmPasts
    <2>4. /\ gmLink'["keys"].will = gmLink["keys"].will /\ gmLink'["keys"].alive = gmLink["keys"].alive
          /\ gmLink'["keys"].arms = gmLink["keys"].arms /\ Sent("keys")' \subseteq Sent("keys")
          /\ gmLink["keys"].alive /\ gmLink["keys"].will = gmLink["keys"].arms
      BY <1>7, <1>9, <1>10, <1>12
    <2> QED BY <1>1, <1>10, <2>2, <2>3, <2>4 DEF LinkInv, Brokers
  <1> QED BY <1>11, <1>12 DEF Brokers

LEMMA LinkOfBroker ==
  ASSUME GmTyped, LinkInv, NEW b \in Brokers, Reconnects(b) \/ Notices(b) \/ LinkLost(b)
  PROVE  LinkInv'
  <1>1. ToDo' = ToDo /\ Ending' = Ending /\ gmTool' = gmTool /\ gmQueue' = gmQueue
    BY DEF Reconnects, Notices, LinkLost, ToDo, Ending
  <1>2. \A c \in Brokers : Sent(c)' = Sent(c) BY <1>1 DEF Sent
  <1>3. gmLink[b] \in GmLinks BY DEF GmTyped
  <1>4. \A c \in Brokers : c # b => gmLink'[c] = gmLink[c] BY DEF Reconnects, Notices, LinkLost, GmTyped
  <1>5. gmLink'[b].alive = gmLink[b].alive /\ gmLink'[b].arms = gmLink[b].arms
    BY <1>3 DEF Reconnects, Notices, LinkLost, GmTyped, GmLinks
  <1>6. ASSUME Reconnects(b) PROVE LinkInv'
    <2>1. gmLink'[b].at = "up" /\ gmLink'[b].will = gmLink[b].arms /\ gmLink[b].alive /\ gmPast' = gmPast /\ gmLink[b].at # "up"
          /\ gmStatus' = (IF gmLink[b].will THEN "offline" ELSE gmStatus)
      BY <1>3, <1>6 DEF Reconnects, GmTyped, GmLinks, Will
    <2>2. CASE b = "main"
      <3>1. gmLink'["keys"] = gmLink["keys"] BY <1>4, <2>2 DEF Brokers
      <3>2. gmStatus' # "online" BY <2>1, <2>2 DEF LinkInv
      <3> QED BY <1>1, <1>2, <1>5, <2>1, <2>2, <3>1, <3>2 DEF LinkInv, Brokers
    <2>3. CASE b = "keys"
      <3>1. gmLink'["main"] = gmLink["main"] /\ gmStatus' = gmStatus BY <1>4, <2>1, <2>3 DEF Brokers, LinkInv
      <3> QED BY <1>1, <1>2, <1>5, <2>1, <2>3, <3>1 DEF LinkInv, Brokers
    <2> QED BY <2>2, <2>3 DEF Brokers
  <1>7. ASSUME Notices(b) PROVE LinkInv'
    <2>1. gmLink'[b].at = "none" /\ ~gmLink'[b].will /\ gmPast' = gmPast /\ gmLink[b].at = "lost"
          /\ gmStatus' = (IF gmLink[b].will THEN "offline" ELSE gmStatus)
      BY <1>3, <1>7 DEF Notices, GmTyped, GmLinks, Will
    <2>2. CASE b = "main"
      <3>1. gmLink'["keys"] = gmLink["keys"] BY <1>4, <2>2 DEF Brokers
      <3>2. gmStatus' # "online" BY <2>1, <2>2 DEF LinkInv
      <3> QED BY <1>1, <1>2, <1>5, <2>1, <2>2, <3>1, <3>2 DEF LinkInv, Brokers
    <2>3. CASE b = "keys"
      <3>1. gmLink'["main"] = gmLink["main"] /\ gmStatus' = gmStatus BY <1>4, <2>1, <2>3 DEF Brokers, LinkInv
      <3> QED BY <1>1, <1>2, <1>5, <2>1, <2>3, <3>1 DEF LinkInv, Brokers
    <2> QED BY <2>2, <2>3 DEF Brokers
  <1>8. ASSUME LinkLost(b) PROVE LinkInv'
    <2>1. gmLink'[b].at = "lost" /\ gmLink'[b].will = gmLink[b].will /\ gmStatus' = gmStatus
          /\ gmPast'.lost = (gmPast.lost \/ b = "main")
      BY <1>3, <1>8 DEF LinkLost, GmTyped, GmLinks, GmPasts
    <2>2. CASE b = "main"
      <3>1. gmLink'["keys"] = gmLink["keys"] BY <1>4, <2>2 DEF Brokers
      <3> QED BY <1>1, <1>2, <1>5, <2>1, <2>2, <3>1 DEF LinkInv, Brokers
    <2>3. CASE b = "keys"
      <3>1. gmLink'["main"] = gmLink["main"] /\ (gmPast'.lost <=> gmPast.lost) BY <1>4, <2>1, <2>3 DEF Brokers
      <3> QED BY <1>1, <1>2, <1>5, <2>1, <2>3, <3>1 DEF LinkInv, Brokers
    <2> QED BY <2>2, <2>3 DEF Brokers
  <1> QED BY <1>6, <1>7, <1>8

LEMMA LinkStep == GmTyped /\ PlanInv /\ PlanInv' /\ LinkInv /\ [GmNext]_gmVars => LinkInv'
  <1> SUFFICES ASSUME GmTyped, PlanInv, PlanInv', LinkInv, [GmNext]_gmVars PROVE LinkInv'
    OBVIOUS
  <1>1. CASE StartProgram
    <2>1. gmTool' \in Programs /\ gmTool = "none" /\ UNCHANGED gmNet /\ ~gmPast'.lost
      BY <1>1 DEF StartProgram, Programs, NoPast
    <2>2. ToDo' = PlanSteps(gmTool')
      BY <1>1, <2>1, ProgramPlans DEF StartProgram, PlanOver, ToDo
    <2>3. Req("main", "online") \in ToDo' => gmTool' = "monitor"
      BY <2>1, <2>2, StepNames DEF PlanSteps, LiveSteps, Programs
    <2>4. gmTool' = "monitor" => Req("main", "online") \in ToDo' /\ Conn("main", "will") \in ToDo'
      BY <2>2 DEF PlanSteps, MonitorSteps
    <2>5. \A b \in Brokers : gmQueue[b] = <<>> /\ ~gmLink[b].alive BY <2>1 DEF LinkInv
    <2>6. \A b \in Brokers : Sent(b)' = {}
      <3>1. Members(<<>>) = {} BY DEF Members
      <3> QED BY <2>1, <2>5, <3>1 DEF Sent, gmNet
    <2> QED BY <2>1, <2>3, <2>4, <2>5, <2>6 DEF LinkInv, gmNet, Brokers, Programs
  <1>2. CASE Killed \/ Returns \/ PollFails
    BY <1>2, LinkEnds DEF Killed, Returns, PollFails
  <1>3. CASE Store \/ StartRx \/ Open \/ DropRadio \/ CaptureEnds \/ Park
    <2>1. PlanPops /\ gmTool' = gmTool /\ gmPast' = gmPast /\ UNCHANGED gmNet
      BY <1>3 DEF PlanPops, Store, StartRx, Open, DropRadio, CaptureEnds, Park, Step, Steps, Sound
    <2>2. Head(gmPlan).op \in {"store", "start", "open", "drop", "raw", "park"}
      BY <1>3 DEF Store, StartRx, Open, DropRadio, CaptureEnds, Park, Step
    <2> QED BY <2>1, <2>2, LinkTaken
  <1>4. CASE Connect
    BY <1>4, LinkConnect
  <1>5. CASE SendRequest
    BY <1>5, LinkSend
  <1>6. CASE Asked \/ BurstEnds \/ CaptureBegins \/ UNCHANGED gmVars
    BY <1>6, LinkKept DEF Asked, BurstEnds, CaptureBegins, gmVars, gmNet
  <1>7. ASSUME NEW b \in Brokers, Reconnects(b) \/ Notices(b) \/ LinkLost(b) \/ Delivers(b) PROVE LinkInv'
    BY <1>7, LinkOfBroker, LinkDelivers
  <1>8. CASE StepFails
    <2>1. CASE ProcessEnds("error") BY <2>1, LinkEnds
    <2>2. CASE Step("raw") /\ gmTool = "monitor" /\ gmPlan' = RestorePlan /\ UNCHANGED <<gmTool, gmNet, gmPast>>
      <3>1. ToDo' = {Do("open"), Do("start")} BY <2>2, OtherPlans DEF PlanOver, ToDo
      <3>2. \A b, w : Conn(b, w) \notin ToDo' /\ Req(b, w) \notin ToDo' BY <3>1, StepNames
      <3>3. Do("raw") \in ToDo BY <2>2, StepOf
      <3>4. ToDo \subseteq Sweeps BY <2>2, <3>3 DEF PlanInv
      <3>5. ~Ending /\ Req("main", "online") \notin ToDo BY <3>4, StepNames DEF Sweeps, Ending
      <3> QED BY <2>2, <3>2, <3>5, LinkRound
    <2>3. CASE Step("park") /\ Steps /\ gmPast' = [gmPast EXCEPT !.fault = TRUE] /\ UNCHANGED <<gmTool, gmNet>>
      <3>1. PlanPops /\ Head(gmPlan).op = "park" /\ gmPast'.lost = gmPast.lost
        BY <2>3 DEF PlanPops, Step, Steps, GmTyped, GmPasts
      <3> QED BY <2>3, <3>1, LinkTaken
    <2> QED BY <1>8, <2>1, <2>2, <2>3 DEF StepFails
  <1>9. CASE Shutdown \/ Report \/ Sweep \/ Live \/ Capture
    <2>1. /\ gmPlan = <<>> /\ gmTool # "none" /\ gmTool' = gmTool /\ UNCHANGED gmNet /\ gmPast' = gmPast
      BY <1>9 DEF Shutdown, Report, Sweep, Live, Capture, Round, AtTop
    <2>2. ToDo = {} BY <2>1, NothingToDo
    <2>3. ToDo' \in {{Req("main", "offline"), Do("park"), Do("return")}, {Req("main", "health")},
                     {Req("main", "health"), Req("main", "offline"), Do("exit")}, Sweeps, {Req("main", "data")}, {Do("return")}}
      <3>1. PlanOver(gmPlan', {Req("main", "offline"), Do("park"), Do("return")}) \/ PlanOver(gmPlan', {Req("main", "health")})
            \/ PlanOver(gmPlan', {Req("main", "health"), Req("main", "offline"), Do("exit")}) \/ PlanOver(gmPlan', Sweeps)
            \/ PlanOver(gmPlan', {Req("main", "data")}) \/ PlanOver(gmPlan', {Do("return")})
        BY <1>9, RoundPlans, OtherPlans DEF Shutdown, Report, Sweep, Live, Capture, Round, Sweeps
      <3> QED BY <3>1 DEF PlanOver, ToDo
    <2>4. (\A b, w : Conn(b, w) \notin ToDo') /\ Req("main", "online") \notin ToDo'
      BY <2>3, StepNames DEF Sweeps
    <2> QED BY <2>1, <2>2, <2>4, LinkRound DEF Ending
  <1> QED BY <1>1, <1>2, <1>3, <1>4, <1>5, <1>6, <1>7, <1>8, <1>9 DEF GmNext

-----------------------------------------------------------------------------
(* What the brokers keep, and whom an announcement finds.                  *)

Controlled(b) == b = "keys" \/ gmConfig.control
Announced(q, kept) ==
  \A i \in DOMAIN q : q[i] = "startup" => kept \/ \E j \in DOMAIN q : j < i /\ q[j] = "subscribe"

KeptInv ==
  /\ \A b \in Brokers : Controlled(b) =>
       /\ Req(b, "startup") \in ToDo => Req(b, "subscribe") \in ToDo \/ "subscribe" \in Sent(b) \/ gmKept[b]
       /\ Announced(gmQueue[b], gmKept[b])
  /\ \A b \in gmPast.deaf : b = "main" /\ ~gmConfig.control
  /\ Req("keys", "subscribe") \in ToDo => gmQueue["keys"] = <<>>
  /\ Req("keys", "startup") \in ToDo => Len(gmQueue["keys"]) <= 1

LEMMA NoneAnnounced == \A kept : Announced(<<>>, kept)
  BY DEF Announced

LEMMA OneAnnounced ==
  ASSUME NEW q \in Seq(MainRequest), NEW w \in MainRequest, NEW kept, Announced(q, kept),
         w = "startup" => kept \/ "subscribe" \in Members(q)
  PROVE  Announced(Append(q, w), kept)
  <1> DEFINE r == Append(q, w)
  <1>1. /\ r[Len(q) + 1] = w /\ Len(q) \in Nat /\ DOMAIN q = 1..Len(q)
        /\ \A i \in DOMAIN q : i \in DOMAIN r /\ r[i] = q[i]
        /\ \A i \in DOMAIN r : i \in DOMAIN q \/ i = Len(q) + 1
    BY QueueGrown
  <1> HIDE DEF r
  <1>2. ASSUME NEW i \in DOMAIN r, r[i] = "startup", ~kept
        PROVE  \E j \in DOMAIN r : j < i /\ r[j] = "subscribe"
    <2>1. CASE i \in DOMAIN q
      <3>1. PICK j \in DOMAIN q : j < i /\ q[j] = "subscribe" BY <1>1, <1>2, <2>1 DEF Announced
      <3> QED BY <1>1, <3>1
    <2>2. CASE i = Len(q) + 1
      <3>1. PICK j \in DOMAIN q : q[j] = "subscribe" BY <1>1, <1>2, <2>2 DEF Members
      <3> QED BY <1>1, <2>2, <3>1
    <2> QED BY <1>1, <2>1, <2>2
  <1> QED BY <1>2 DEF Announced, r

LEMMA AnnouncedTaken ==
  ASSUME NEW q \in Seq(MainRequest), q # <<>>, NEW kept, Announced(q, kept)
  PROVE  /\ Announced(Tail(q), kept \/ Head(q) = "subscribe")
         /\ Head(q) = "startup" => kept
  <1>1. /\ Head(q) = q[1] /\ 1 \in DOMAIN q
        /\ \A i \in DOMAIN Tail(q) : i \in Nat \ {0} /\ i + 1 \in DOMAIN q /\ Tail(q)[i] = q[i + 1]
        /\ \A i \in DOMAIN q : i \in Nat \ {0} /\ (i = 1 \/ (i - 1 \in DOMAIN Tail(q) /\ Tail(q)[i - 1] = q[i]))
    BY QueueTaken
  <1>2. ASSUME NEW i \in DOMAIN Tail(q), Tail(q)[i] = "startup", ~kept, Head(q) # "subscribe"
        PROVE  \E j \in DOMAIN Tail(q) : j < i /\ Tail(q)[j] = "subscribe"
    <2>1. i + 1 \in DOMAIN q /\ q[i + 1] = "startup" BY <1>1, <1>2
    <2>2. PICK j \in DOMAIN q : j < i + 1 /\ q[j] = "subscribe" BY <1>2, <2>1 DEF Announced
    <2>3. j # 1 BY <1>1, <1>2, <2>2
    <2>4. j - 1 \in DOMAIN Tail(q) /\ Tail(q)[j - 1] = "subscribe" BY <1>1, <2>2, <2>3
    <2>5. j - 1 < i BY <1>1, <2>2
    <2> QED BY <2>4, <2>5
  <1>3. ASSUME Head(q) = "startup", ~kept PROVE FALSE
    <2>1. PICK j \in DOMAIN q : j < 1 /\ q[j] = "subscribe" BY <1>1, <1>3 DEF Announced
    <2> QED BY <1>1, <2>1
  <1> QED BY <1>2, <1>3 DEF Announced

LEMMA KeptStart == GmInit => KeptInv
  <1> SUFFICES ASSUME GmInit PROVE KeptInv OBVIOUS
  <1>1. ToDo = {} BY PlanStart, NothingToDo DEF GmInit
  <1>2. \A b \in Brokers : Announced(gmQueue[b], gmKept[b]) BY NoneAnnounced DEF GmInit
  <1> QED BY <1>1, <1>2 DEF KeptInv, GmInit, NoPast

(* Steps, rounds and ends that neither send nor deliver.                    *)
LEMMA KeptQuiet ==
  ASSUME KeptInv, gmConfig' = gmConfig, UNCHANGED <<gmQueue, gmKept>>, gmPast'.deaf \subseteq gmPast.deaf,
         \A b, w : Req(b, w) \in ToDo' /\ w \in KeyRequest => Req(b, w) \in ToDo,
         \A b : Req(b, "startup") \in ToDo' /\ Req(b, "subscribe") \in ToDo => Req(b, "subscribe") \in ToDo'
  PROVE  KeptInv'
  <1>1. \A b \in Brokers : Sent(b)' = Sent(b) /\ (Controlled(b)' = Controlled(b)) BY DEF Sent, Controlled
  <1>2. "startup" \in KeyRequest /\ "subscribe" \in KeyRequest BY DEF KeyRequest
  <1> QED BY <1>1, <1>2 DEF KeptInv

LEMMA KeptEnds ==
  ASSUME GmTyped, KeptInv, NEW how, ProcessEnds(how)
  PROVE  KeptInv'
  <1>1. ToDo' = {} BY PlanEnded DEF ProcessEnds
  <1>2. \A b \in Brokers : gmQueue'[b] = <<>> BY DEF ProcessEnds
  <1>3. gmPast'.deaf = gmPast.deaf /\ gmConfig' = gmConfig BY DEF ProcessEnds, GmTyped, GmPasts
  <1>4. \A b \in Brokers : Announced(gmQueue'[b], gmKept'[b]) BY <1>2, NoneAnnounced
  <1> QED BY <1>1, <1>3, <1>4 DEF KeptInv

LEMMA KeptSend ==
  ASSUME GmTyped, PlanInv, LinkInv, KeptInv, SendRequest
  PROVE  KeptInv'
  <1>0. PICK b \in Brokers, w \in MainRequest : b = Head(gmPlan).broker /\ w = Head(gmPlan).what
    BY BrokerOf DEF SendRequest
  <1>1. /\ PlanPops /\ gmPast' = gmPast /\ gmKept' = gmKept /\ gmConfig' = gmConfig
        /\ Head(gmPlan) = Req(b, w) /\ (b = "keys" => w \in KeyRequest)
    BY <1>0, BrokerOf DEF SendRequest, PlanPops, Step, Steps, Sound
  <1>2. ToDo = {Req(b, w)} \cup ToDo' /\ \A x \in ToDo' : ~NeverAfter(Req(b, w), x)
    BY <1>1, Taken
  <1>3. gmQueue'[b] = Append(gmQueue[b], w) /\ \A c \in Brokers : c # b => gmQueue'[c] = gmQueue[c]
    BY <1>1, <1>0 DEF SendRequest, GmTyped
  <1>4. gmQueue[b] \in Seq(MainRequest) BY DEF GmTyped
  <1>5. Sent(b)' = Sent(b) \cup {w} /\ \A c \in Brokers : c # b => Sent(c)' = Sent(c)
    BY <1>1, <1>3, <1>4, QueueGrown DEF Sent
  <1>6. w = "startup" => Req(b, "subscribe") \notin ToDo' BY <1>2 DEF NeverAfter
  <1>7. Req(b, w) \notin ToDo' BY <1>2, StepNames DEF NeverAfter
  <1>8. \A c, x : Req(c, x) \in ToDo <=> Req(c, x) \in ToDo' \/ (c = b /\ x = w) BY <1>2, StepNames
  <1>9. Controlled(b) /\ w = "startup" => gmKept[b] \/ "subscribe" \in Sent(b)
    BY <1>6, <1>8 DEF KeptInv
  <1>10. Controlled(b) => Announced(gmQueue'[b], gmKept'[b])
    <2>1. Controlled(b) => Announced(gmQueue[b], gmKept[b]) BY DEF KeptInv
    <2> QED BY <1>1, <1>3, <1>4, <1>9, <2>1, OneAnnounced DEF Sent
  <1>11. \A c \in Brokers : Controlled(c)' = Controlled(c) BY <1>1 DEF Controlled
  <1>12. ASSUME NEW c \in Brokers, Controlled(c)
         PROVE  /\ Req(c, "startup") \in ToDo' => Req(c, "subscribe") \in ToDo' \/ "subscribe" \in Sent(c)' \/ gmKept'[c]
                /\ Announced(gmQueue'[c], gmKept'[c])
    <2>1. CASE c = b BY <1>1, <1>5, <1>8, <1>10, <1>12, <2>1 DEF KeptInv
    <2>2. CASE c # b BY <1>1, <1>3, <1>5, <1>8, <1>12, <2>2 DEF KeptInv
    <2> QED BY <2>1, <2>2
  <1>13. Req("keys", "subscribe") \in ToDo' => gmQueue'["keys"] = <<>>
    <2>1. CASE b = "keys"
      <3>1. w = "startup" \/ w = "subscribe" BY <1>1, <2>1 DEF KeyRequest
      <3> QED BY <1>6, <1>7, <2>1, <3>1
    <2>2. CASE b # "keys" BY <1>3, <1>8, <2>2 DEF KeptInv, Brokers
    <2> QED BY <2>1, <2>2
  <1>14. Req("keys", "startup") \in ToDo' => Len(gmQueue'["keys"]) <= 1
    <2>1. CASE b = "keys"
      <3>1. w = "startup" \/ w = "subscribe" BY <1>1, <2>1 DEF KeyRequest
      <3>2. CASE w = "startup" BY <1>7, <2>1, <3>2
      <3>3. CASE w = "subscribe"
        <4>1. gmQueue[b] = <<>> BY <1>8, <2>1, <3>3 DEF KeptInv
        <4>2. Len(gmQueue'["keys"]) = Len(gmQueue["keys"]) + 1 BY <1>3, <1>4, <2>1, QueueGrown
        <4>3. Len(<<>>) = 0 BY EmptySeq
        <4> QED BY <2>1, <4>1, <4>2, <4>3
      <3> QED BY <3>1, <3>2, <3>3
    <2>2. CASE b # "keys" BY <1>3, <1>8, <2>2 DEF KeptInv, Brokers
    <2> QED BY <2>1, <2>2
  <1> QED BY <1>1, <1>11, <1>12, <1>13, <1>14 DEF KeptInv

LEMMA KeptDelivers ==
  ASSUME GmTyped, KeptInv, NEW b \in Brokers, Delivers(b)
  PROVE  KeptInv'
  <1>1. ToDo' = ToDo /\ gmConfig' = gmConfig BY DEF Delivers, ToDo
  <1>2. gmQueue[b] \in Seq(MainRequest) /\ gmQueue[b] # <<>> BY DEF GmTyped, Delivers
  <1>3. PICK what : what = Head(gmQueue[b]) OBVIOUS
  <1>4. Members(gmQueue[b]) = {what} \cup Members(Tail(gmQueue[b])) /\ Len(Tail(gmQueue[b])) = Len(gmQueue[b]) - 1
        /\ Len(gmQueue[b]) \in Nat
    BY <1>2, <1>3, QueueTaken
  <1>5. PICK acknowledged \in BOOLEAN : gmQueue' = IF acknowledged THEN [gmQueue EXCEPT ![b] = Tail(@)] ELSE gmQueue
    BY DEF Delivers
  <1>6. /\ gmKept' = [gmKept EXCEPT ![b] = @ \/ what = "subscribe"]
        /\ gmPast'.deaf = IF what = "startup" /\ ~gmKept[b] THEN gmPast.deaf \cup {b} ELSE gmPast.deaf
    BY <1>3 DEF Delivers, Delivered, GmTyped, GmPasts
  <1>7. gmKept'[b] = (gmKept[b] \/ what = "subscribe") /\ \A c \in Brokers : c # b => gmKept'[c] = gmKept[c] /\ gmQueue'[c] = gmQueue[c]
    BY <1>5, <1>6 DEF GmTyped
  <1>8. gmQueue'[b] = gmQueue[b] \/ gmQueue'[b] = Tail(gmQueue[b]) BY <1>5 DEF GmTyped
  <1>9. \A c \in Brokers : c # b => Sent(c)' = Sent(c) BY <1>7 DEF Sent
  <1>10. "subscribe" \in Sent(b) => "subscribe" \in Sent(b)' \/ gmKept'[b]
    BY <1>4, <1>7, <1>8 DEF Sent
  <1>11. Controlled(b) => Announced(gmQueue'[b], gmKept'[b]) /\ (what = "startup" => gmKept[b])
    <2> SUFFICES ASSUME Controlled(b) PROVE Announced(gmQueue'[b], gmKept'[b]) /\ (what = "startup" => gmKept[b])
      OBVIOUS
    <2>1. Announced(gmQueue[b], gmKept[b]) BY DEF KeptInv
    <2>2. Announced(Tail(gmQueue[b]), gmKept'[b]) /\ (what = "startup" => gmKept[b])
      BY <1>2, <1>3, <1>7, <2>1, AnnouncedTaken
    <2>3. Announced(gmQueue[b], gmKept'[b])
      <3>1. gmKept[b] => gmKept'[b] BY <1>7
      <3> QED BY <2>1, <3>1 DEF Announced
    <2> QED BY <1>8, <2>2, <2>3
  <1>12. \A c \in Brokers : Controlled(c)' = Controlled(c) BY <1>1 DEF Controlled
  <1>13. ASSUME NEW c \in Brokers, Controlled(c)
         PROVE  /\ Req(c, "startup") \in ToDo' => Req(c, "subscribe") \in ToDo' \/ "subscribe" \in Sent(c)' \/ gmKept'[c]
                /\ Announced(gmQueue'[c], gmKept'[c])
    <2>1. CASE c = b
      <3>1. gmKept[b] => gmKept'[b] BY <1>7
      <3> QED BY <1>1, <1>10, <1>11, <1>13, <2>1, <3>1 DEF KeptInv
    <2>2. CASE c # b BY <1>1, <1>7, <1>9, <1>13, <2>2 DEF KeptInv
    <2> QED BY <2>1, <2>2
  <1>14. \A c \in gmPast'.deaf : c = "main" /\ ~gmConfig'.control
    BY <1>1, <1>6, <1>11 DEF KeptInv, Controlled, Brokers
  <1>15. Req("keys", "subscribe") \in ToDo => gmQueue'["keys"] = <<>>
    BY <1>2, <1>7 DEF KeptInv, Brokers
  <1>16. Req("keys", "startup") \in ToDo => Len(gmQueue'["keys"]) <= 1
    <2>1. CASE b = "keys"
      <3>1. Len(gmQueue'[b]) <= Len(gmQueue[b])
        <4>1. CASE gmQueue'[b] = gmQueue[b] BY <1>4, <4>1
        <4>2. CASE gmQueue'[b] = Tail(gmQueue[b])
          <5>1. Len(gmQueue'[b]) = Len(gmQueue[b]) - 1 BY <1>4, <4>2
          <5> QED BY <1>4, <5>1
        <4> QED BY <1>8, <4>1, <4>2
      <3>2. Req("keys", "startup") \in ToDo => Len(gmQueue[b]) <= 1 BY <2>1 DEF KeptInv
      <3>3. Len(gmQueue'[b]) \in Nat BY <1>2, <1>4, <1>8, QueueTaken
      <3> QED BY <1>4, <2>1, <3>1, <3>2, <3>3
    <2>2. CASE b # "keys" BY <1>7, <2>2 DEF KeptInv, Brokers
    <2> QED BY <2>1, <2>2
  <1> QED BY <1>1, <1>12, <1>13, <1>14, <1>15, <1>16 DEF KeptInv

LEMMA KeptStep == GmTyped /\ PlanInv /\ PlanInv' /\ LinkInv /\ KeptInv /\ [GmNext]_gmVars => KeptInv'
  <1> SUFFICES ASSUME GmTyped, PlanInv, PlanInv', LinkInv, KeptInv, [GmNext]_gmVars PROVE KeptInv'
    OBVIOUS
  <1>1. CASE StartProgram
    <2>1. gmTool' \in Programs /\ gmTool = "none" /\ UNCHANGED <<gmConfig, gmNet>> /\ gmPast'.deaf = {}
      BY <1>1 DEF StartProgram, Programs, NoPast
    <2>2. ToDo' = PlanSteps(gmTool')
      BY <1>1, <2>1, ProgramPlans DEF StartProgram, PlanOver, ToDo
    <2>3. Req("main", "startup") \in ToDo' /\ gmConfig.control => Req("main", "subscribe") \in ToDo'
      BY <2>1, <2>2, StepNames DEF PlanSteps, MonitorSteps, LiveSteps, Programs
    <2>4. Req("keys", "startup") \in ToDo' => Req("keys", "subscribe") \in ToDo'
      BY <2>1, <2>2, StepNames DEF PlanSteps, MonitorSteps, LiveSteps, Programs
    <2>5. \A b \in Brokers : gmQueue'[b] = <<>> BY <2>1 DEF LinkInv, gmNet
    <2>6. Len(<<>>) = 0 BY EmptySeq
    <2>7. \A b \in Brokers : Announced(gmQueue'[b], gmKept'[b]) BY <2>5, NoneAnnounced
    <2> QED BY <2>1, <2>3, <2>4, <2>5, <2>6, <2>7 DEF KeptInv, Controlled, Brokers
  <1>2. CASE Killed \/ Returns \/ PollFails
    BY <1>2, KeptEnds DEF Killed, Returns, PollFails
  <1>3. CASE Store \/ StartRx \/ Open \/ DropRadio \/ CaptureEnds \/ Park \/ Connect
    <2>1. PlanPops /\ gmPast' = gmPast /\ gmConfig' = gmConfig /\ UNCHANGED <<gmQueue, gmKept>>
      BY <1>3 DEF PlanPops, Store, StartRx, Open, DropRadio, CaptureEnds, Park, Connect, Step, Steps, Sound, gmNet
    <2>2. Head(gmPlan).op \in {"store", "start", "open", "drop", "raw", "park", "connect"}
      BY <1>3 DEF Store, StartRx, Open, DropRadio, CaptureEnds, Park, Connect, Step
    <2>3. ToDo = {Head(gmPlan)} \cup ToDo' BY <2>1, Taken
    <2>4. \A b, w : Req(b, w) \in ToDo' <=> Req(b, w) \in ToDo BY <2>2, <2>3, StepNames
    <2> QED BY <2>1, <2>4, KeptQuiet
  <1>4. CASE SendRequest
    BY <1>4, KeptSend
  <1>5. CASE Asked \/ BurstEnds \/ CaptureBegins \/ UNCHANGED gmVars
    <2>1. ToDo' = ToDo BY <1>5 DEF Asked, BurstEnds, CaptureBegins, gmVars, ToDo
    <2> QED BY <1>5, <2>1, KeptQuiet DEF Asked, BurstEnds, CaptureBegins, gmVars, gmNet
  <1>6. ASSUME NEW b \in Brokers, Reconnects(b) \/ Notices(b) \/ LinkLost(b) PROVE KeptInv'
    <2>1. ToDo' = ToDo BY <1>6 DEF Reconnects, Notices, LinkLost, ToDo
    <2>2. gmPast'.deaf = gmPast.deaf BY <1>6 DEF Reconnects, Notices, LinkLost, GmTyped, GmPasts
    <2> QED BY <1>6, <2>1, <2>2, KeptQuiet DEF Reconnects, Notices, LinkLost
  <1>7. ASSUME NEW b \in Brokers, Delivers(b) PROVE KeptInv'
    BY <1>7, KeptDelivers
  <1>8. CASE StepFails
    <2>1. CASE ProcessEnds("error") BY <2>1, KeptEnds
    <2>2. CASE Step("raw") /\ gmPlan' = RestorePlan /\ UNCHANGED <<gmConfig, gmNet, gmPast>>
      <3>1. ToDo' = {Do("open"), Do("start")} BY <2>2, OtherPlans DEF PlanOver, ToDo
      <3>2. \A b, w : Req(b, w) \notin ToDo' BY <3>1, StepNames
      <3> QED BY <2>2, <3>2, KeptQuiet DEF gmNet
    <2>3. CASE Step("park") /\ Steps /\ gmPast' = [gmPast EXCEPT !.fault = TRUE] /\ UNCHANGED <<gmConfig, gmNet>>
      <3>1. PlanPops /\ Head(gmPlan).op = "park" /\ gmPast'.deaf = gmPast.deaf
        BY <2>3 DEF PlanPops, Step, Steps, GmTyped, GmPasts
      <3>2. ToDo = {Head(gmPlan)} \cup ToDo' BY <3>1, Taken
      <3>3. \A b, w : Req(b, w) \in ToDo' <=> Req(b, w) \in ToDo BY <3>1, <3>2, StepNames
      <3> QED BY <2>3, <3>1, <3>3, KeptQuiet DEF gmNet
    <2> QED BY <1>8, <2>1, <2>2, <2>3 DEF StepFails
  <1>9. CASE Shutdown \/ Report \/ Sweep \/ Live \/ Capture
    <2>1. UNCHANGED gmNet /\ gmPast' = gmPast /\ gmConfig' = gmConfig
      BY <1>9 DEF Shutdown, Report, Sweep, Live, Capture, Round
    <2>2. ToDo' \in {{Req("main", "offline"), Do("park"), Do("return")}, {Req("main", "health")},
                     {Req("main", "health"), Req("main", "offline"), Do("exit")}, Sweeps, {Req("main", "data")}, {Do("return")}}
      <3>1. PlanOver(gmPlan', {Req("main", "offline"), Do("park"), Do("return")}) \/ PlanOver(gmPlan', {Req("main", "health")})
            \/ PlanOver(gmPlan', {Req("main", "health"), Req("main", "offline"), Do("exit")}) \/ PlanOver(gmPlan', Sweeps)
            \/ PlanOver(gmPlan', {Req("main", "data")}) \/ PlanOver(gmPlan', {Do("return")})
        BY <1>9, RoundPlans, OtherPlans DEF Shutdown, Report, Sweep, Live, Capture, Round, Sweeps
      <3> QED BY <3>1 DEF PlanOver, ToDo
    <2>3. \A b, w : w \in KeyRequest => Req(b, w) \notin ToDo'
      BY <2>2, StepNames DEF Sweeps, KeyRequest
    <2> QED
      <3>1. "startup" \in KeyRequest BY DEF KeyRequest
      <3> QED BY <2>1, <2>3, <3>1, KeptQuiet DEF gmNet
  <1> QED BY <1>1, <1>2, <1>3, <1>4, <1>5, <1>6, <1>7, <1>8, <1>9 DEF GmNext

-----------------------------------------------------------------------------
GmInv == GmTyped /\ PlanInv /\ LinkInv /\ KeptInv /\ HandInv

LEMMA GmBegins == GmInit => GmInv
  BY TypedStart, PlanStart, LinkStart, KeptStart, HandStart DEF GmInv

LEMMA GmSteps == GmInv /\ [GmNext]_gmVars => GmInv'
  BY TypedStep, PlanStep, LinkStep, KeptStep, HandStep DEF GmInv

LEMMA GmTold == GmInv => MonitorTold
  <1> SUFFICES ASSUME GmInv PROVE MonitorTold OBVIOUS
  <1> USE DEF GmInv
  <1>1. gmPlan = <<>> => ToDo = {} /\ ~Ending BY NothingToDo DEF Ending
  <1>2. StatusTold
    <2>1. gmQueue["main"] = <<>> => "online" \notin Sent("main")
      <3>1. Members(<<>>) = {} BY DEF Members
      <3> QED BY <3>1 DEF Sent
    <2> QED BY <1>1, <2>1 DEF StatusTold, LinkInv, AtTop
  <1>3. KeysReachable
    <2>1. ASSUME gmPlan # <<>>, Head(gmPlan).op = "send", Len(gmQueue[Head(gmPlan).broker]) = GmCapacity
          PROVE  Head(gmPlan).broker = "main"
      <3>1. gmTool # "none" BY <2>1, NothingToDo, StepTaken DEF PlanInv
      <3>2. Step("send") BY <2>1, <3>1 DEF Step
      <3>3. /\ Head(gmPlan) = Req(Head(gmPlan).broker, Head(gmPlan).what) /\ Head(gmPlan) \in ToDo
            /\ Head(gmPlan).broker \in Brokers
            /\ Head(gmPlan).broker = "keys" => Head(gmPlan).what \in KeyRequest
        BY <3>2, BrokerOf, StepOf
      <3>4. Head(gmPlan).broker = "keys" => Len(gmQueue["keys"]) <= 1
        <4>1. Len(<<>>) <= 1 BY EmptySeq
        <4> QED BY <3>3, <4>1 DEF KeptInv, KeyRequest
      <3>5. Len(gmQueue["keys"]) \in Nat BY DEF GmTyped, Brokers
      <3> QED BY <2>1, <3>3, <3>4, <3>5, GmAssumption DEF Brokers
    <2> QED BY <2>1 DEF KeysReachable, KeptInv
  <1>4. RadioHanded
    BY <1>1 DEF RadioHanded, HandInv, RadioReceives
  <1> QED BY <1>2, <1>3, <1>4 DEF MonitorTold

-----------------------------------------------------------------------------
(* What LearntTruly says of the compact frame cache, the statistics, the    *)
(* readings and the formats of LoRa payloads rests on taking some elements  *)
(* of a sequence and on sums along it.  Both are recursive functions: each  *)
(* is shown to exist up to any position, and to be the one the unit uses.   *)

(* A set of natural numbers has a least one.                               *)
LEMMA LeastOne ==
  ASSUME NEW T \in SUBSET Nat, T # {}
  PROVE  \E x \in T : \A y \in T : x <= y
<1> DEFINE R == OpToRel(<, Nat)
<1> HIDE DEF R
<1>1. IsWellFoundedOn(R, Nat)
  BY NatLessThanWellFounded DEF R
<1>2. PICK x \in T : \A y \in T : ~(<<y, x>> \in R)
  BY <1>1, WFMin
<1>3. \A y \in T : ~(y < x)
  <2> TAKE y \in T
  <2>1. <<y, x>> \in Nat \X Nat /\ ~(<<y, x>> \in R)
    BY <1>2
  <2> QED BY <2>1 DEF R, OpToRel
<1> QED BY <1>3

(* Taking the elements of a sequence at some positions.                    *)
TakenStep(f, s, P, n) == IF n = 0 THEN <<>> ELSE IF n \in P THEN Append(f[n - 1], s[n]) ELSE f[n - 1]
TakesAt(f, s, P, last) == f = [n \in 0..last |-> TakenStep(f, s, P, n)]

LEMMA TakesExists ==
  ASSUME NEW s, NEW P, NEW last \in Nat
  PROVE  \E f : TakesAt(f, s, P, last)
<1> DEFINE S == {n \in Nat : ~\E f : TakesAt(f, s, P, n)}
<1>1. SUFFICES ASSUME S # {} PROVE FALSE
  OBVIOUS
<1>2. PICK m \in S : \A y \in S : m <= y
  BY <1>1, LeastOne
<1>3. CASE m = 0
  <2> DEFINE f == [n \in 0..0 |-> <<>>]
  <2>1. \A n \in 0..0 : TakenStep(f, s, P, n) = <<>>
    BY DEF TakenStep
  <2>2. TakesAt(f, s, P, 0)
    BY <2>1 DEF TakesAt
  <2> QED BY <1>2, <1>3, <2>2
<1>4. CASE m # 0
  <2>1. m - 1 \in Nat /\ m - 1 \notin S /\ m \in Nat /\ ~\E f : TakesAt(f, s, P, m)
    BY <1>2, <1>4
  <2>2. PICK f : TakesAt(f, s, P, m - 1)
    BY <2>1
  <2> DEFINE g == [n \in 0..m |-> IF n = m THEN TakenStep(f, s, P, m) ELSE f[n]]
  <2>3. ASSUME NEW n \in 0..m PROVE g[n] = TakenStep(g, s, P, n)
    <3>1. n # 0 => g[n - 1] = f[n - 1]
      BY <2>1
    <3>2. TakenStep(g, s, P, n) = TakenStep(f, s, P, n)
      <4> HIDE DEF g
      <4> QED BY <3>1 DEF TakenStep
    <3>3. CASE n = m
      BY <3>2, <3>3
    <3>4. CASE n # m
      <4>1. n \in 0..m - 1 /\ g[n] = f[n]
        BY <2>1, <3>4
      <4>2. f[n] = TakenStep(f, s, P, n)
        BY <2>2, <4>1 DEF TakesAt
      <4> QED BY <3>2, <4>1, <4>2
    <3> QED BY <3>3, <3>4
  <2>4. g = [n \in 0..m |-> g[n]]
    OBVIOUS
  <2> HIDE DEF g
  <2>5. TakesAt(g, s, P, m)
    BY <2>3, <2>4 DEF TakesAt
  <2> QED BY <2>1, <2>5
<1> QED BY <1>3, <1>4

(* Positions in their order.                                               *)
Positions(P, pos) ==
  /\ pos \in [1..Cardinality(P) -> P]
  /\ \A i, j \in 1..Cardinality(P) : i < j => pos[j] - pos[i] >= j - i
  /\ \A p \in P : \E i \in 1..Cardinality(P) : pos[i] = p

ReadsAt(q, s, P) ==
  /\ Len(q) = Cardinality(P)
  /\ \E pos : Positions(P, pos) /\ \A i \in 1..Cardinality(P) : q[i] = s[pos[i]]

LEMMA ChosenRead ==
  ASSUME NEW T, NEW s \in Seq(T), NEW P \in SUBSET (1..Len(s))
  PROVE  /\ Chosen(s, P) \in Seq(T) /\ ReadsAt(Chosen(s, P), s, P) /\ IsFiniteSet(P)
<1> DEFINE last == Len(s)
<1>1. last \in Nat
  OBVIOUS
<1>2. PICK f : TakesAt(f, s, P, last)
  BY <1>1, TakesExists
<1>3. Chosen(s, P) = (CHOOSE h : TakesAt(h, s, P, last))[last]
  BY DEF Chosen, TakesAt, TakenStep
<1> DEFINE h == CHOOSE h : TakesAt(h, s, P, last)
<1>4. TakesAt(h, s, P, last)
  BY <1>2
<1>5. Chosen(s, P) = h[last]
  BY <1>3
<1> HIDE DEF h
<1>6. \A n \in 0..last : h[n] = TakenStep(h, s, P, n)
  BY <1>4 DEF TakesAt
<1> DEFINE Upto(n) == P \cap (1..n)
           Good(n) == h[n] \in Seq(T) /\ ReadsAt(h[n], s, Upto(n)) /\ IsFiniteSet(Upto(n))
           S == {n \in 0..last : ~Good(n)}
<1>7. S = {}
  <2> SUFFICES ASSUME S # {} PROVE FALSE
    OBVIOUS
  <2>1. PICK m \in S : \A y \in S : m <= y
    <3>1. S \in SUBSET Nat
      BY <1>1
    <3> QED BY <3>1, LeastOne
  <2>2. CASE m = 0
    <3>1. h[0] = <<>> /\ Upto(0) = {}
      BY <1>1, <1>6 DEF TakenStep
    <3>2. Cardinality({}) = 0 /\ IsFiniteSet({})
      BY FS_EmptySet
    <3>3. Positions({}, <<>>)
      BY <3>2 DEF Positions
    <3>4. ReadsAt(<<>>, s, {})
      BY <3>2, <3>3 DEF ReadsAt
    <3>5. <<>> \in Seq(T)
      OBVIOUS
    <3>6. Good(0)
      BY <3>1, <3>2, <3>4, <3>5
    <3> QED BY <2>1, <2>2, <3>6
  <2>3. CASE m # 0
    <3>0. m \in 0..last
      BY <2>1
    <3>9. m - 1 \notin S
      <4> HIDE DEF S
      <4> QED BY <1>1, <2>1, <3>0
    <3>1. m - 1 \in 0..last /\ m \in 0..last /\ m \in 1..last /\ m - 1 \notin S
      <4> HIDE DEF S
      <4> QED BY <1>1, <2>3, <3>0, <3>9
    <3>2. Good(m - 1)
      BY <3>1
    <3>3. h[m] = IF m \in P THEN Append(h[m - 1], s[m]) ELSE h[m - 1]
      BY <1>6, <2>3, <3>1 DEF TakenStep
    <3>4. Upto(m) = IF m \in P THEN Upto(m - 1) \cup {m} ELSE Upto(m - 1)
      BY <3>1
    <3>5. CASE m \notin P
      <4>1. Good(m)
        BY <3>2, <3>3, <3>4, <3>5
      <4> QED BY <2>1, <4>1
    <3>6. CASE m \in P
      <4> DEFINE Q == Upto(m - 1)
                 c == Cardinality(Q)
                 q == h[m - 1]
      <4>1. m \notin Q /\ IsFiniteSet(Q) /\ (\A p \in Q : p < m) /\ q \in Seq(T) /\ ReadsAt(q, s, Q)
        BY <3>1, <3>2
      <4>2. c \in Nat
        BY <4>1, FS_CardinalityType
      <4>3. Cardinality(Upto(m)) = c + 1 /\ IsFiniteSet(Upto(m)) /\ Upto(m) = Q \cup {m}
        <5>1. Upto(m) = Q \cup {m}
          BY <3>4, <3>6
        <5> HIDE DEF Q
        <5>2. IsFiniteSet(Q \cup {m}) /\ Cardinality(Q \cup {m}) = c + 1
          BY <4>1, FS_AddElement
        <5> QED BY <5>1, <5>2
      <4>4. h[m] = Append(q, s[m]) /\ s[m] \in T
        BY <3>1, <3>3, <3>6
      <4>5. PICK pos : Positions(Q, pos) /\ \A i \in 1..c : q[i] = s[pos[i]]
        BY <4>1 DEF ReadsAt
      <4>6. Len(q) = c
        BY <4>1 DEF ReadsAt
      <4> DEFINE R == Upto(m)
                 new == [i \in 1..c + 1 |-> IF i = c + 1 THEN m ELSE pos[i]]
      <4> HIDE DEF Q, c, q, R
      <4>7. Positions(R, new)
        <5>0. \A i \in 1..c : pos[i] \in Q
          BY <4>5 DEF Positions, c
        <5>1. \A i \in 1..c + 1 : i = c + 1 \/ (i \in 1..c /\ pos[i] \in Q)
          <6>1. \A i \in 1..c + 1 : i = c + 1 \/ i \in 1..c
            BY <4>2
          <6> QED BY <5>0, <6>1
        <5>2. R = Q \cup {m} /\ Cardinality(R) = c + 1
          BY <4>3 DEF R
        <5>3. new \in [1..c + 1 -> R]
          BY <5>1, <5>2
        <5>4. ASSUME NEW i \in 1..c + 1, NEW j \in 1..c + 1, i < j PROVE new[j] - new[i] >= j - i
          <6>1. i \in 1..c /\ new[i] = pos[i] /\ pos[i] \in Q /\ i # c + 1
            BY <4>2, <5>1, <5>4
          <6>2. CASE j = c + 1
            <7>1. c \in 1..c /\ pos[c] \in Q /\ pos[c] < m /\ pos[c] \in Int /\ pos[i] \in Int
              <8>1. c \in 1..c
                BY <4>2, <6>1
              <8>2. pos[c] \in Q /\ pos[i] \in Q
                BY <4>5, <6>1, <8>1 DEF Positions, c
              <8>3. \A p \in Q : p \in Int
                BY DEF Q
              <8> QED BY <4>1, <8>1, <8>2, <8>3
            <7>2. pos[c] - pos[i] >= c - i
              BY <4>2, <4>5, <6>1, <7>1 DEF Positions, c
            <7>3. m \in Int
              BY <3>1
            <7> QED BY <4>2, <6>1, <6>2, <7>1, <7>2, <7>3
          <6>3. CASE j # c + 1
            <7>1. j \in 1..c /\ new[j] = pos[j]
              BY <5>1, <6>3
            <7> QED BY <4>5, <5>4, <6>1, <7>1 DEF Positions, c
          <6> QED BY <6>2, <6>3
        <5>5. ASSUME NEW p \in R PROVE \E i \in 1..c + 1 : new[i] = p
          <6>1. CASE p = m
            <7>1. c + 1 \in 1..c + 1 /\ new[c + 1] = m
              BY <4>2
            <7> QED BY <6>1, <7>1
          <6>2. CASE p \in Q
            <7>1. PICK i \in 1..c : pos[i] = p
              BY <4>5, <6>2 DEF Positions, c
            <7>2. i \in 1..c + 1 /\ i # c + 1
              BY <4>2
            <7> QED BY <7>1, <7>2
          <6> QED BY <5>2, <6>1, <6>2
        <5> QED BY <5>2, <5>3, <5>4, <5>5 DEF Positions
      <4>8. \A i \in 1..c + 1 : h[m][i] = s[new[i]]
        <5> TAKE i \in 1..c + 1
        <5>1. CASE i = c + 1
          BY <4>1, <4>4, <4>6, <5>1
        <5>2. CASE i # c + 1
          <6>1. i \in 1..c /\ new[i] = pos[i]
            BY <4>2, <5>2
          <6>2. Append(q, s[m])[i] = q[i]
            BY <4>1, <4>4, <4>6, <6>1
          <6> QED BY <4>4, <4>5, <6>1, <6>2
        <5> QED BY <5>1, <5>2
      <4>9. h[m] \in Seq(T) /\ Len(h[m]) = c + 1
        BY <4>1, <4>4, <4>6
      <4> HIDE DEF new
      <4>10. ReadsAt(h[m], s, R)
        <5>1. Cardinality(R) = c + 1
          BY <4>3 DEF R
        <5> QED BY <4>7, <4>8, <4>9, <5>1 DEF ReadsAt
      <4>11. Good(m)
        BY <4>3, <4>9, <4>10 DEF R
      <4> QED BY <2>1, <4>11
    <3> QED BY <3>5, <3>6
  <2> QED BY <2>2, <2>3
<1>8. Good(last) /\ Upto(last) = P
  <2>1. last \in 0..last /\ last \notin S
    <3> HIDE DEF S
    <3> QED BY <1>1, <1>7
  <2> QED BY <2>1
<1> QED BY <1>5, <1>8

(* A queue and a map that hold the same devices, in the order of their use. *)
InUseOrder(q, devices, loaded) ==
  \A i, j \in DOMAIN q : i < j => q[i] \in loaded \/ (q[j] \notin loaded /\ devices[q[i]] < devices[q[j]])
Queues(q, devices, loaded, now) ==
  /\ now \in Int /\ devices \in [DOMAIN devices -> Int] /\ q \in Seq(DOMAIN devices)
  /\ \A s \in DOMAIN devices : devices[s] < now
  /\ ToSet(q) = DOMAIN devices /\ \A i, j \in DOMAIN q : q[i] = q[j] => i = j
  /\ InUseOrder(q, devices, loaded)

Bound == Max({1, CfMaxSize})
CacheInv ==
  /\ Queues(cfLru, cfDevices, cfLoaded, cfNow) /\ Len(cfLru) <= Bound
  /\ cfFile \in [DOMAIN cfFile -> Nat] /\ \A s \in DOMAIN cfFile : cfFile[s] > 0
  /\ IsFiniteSet(DOMAIN cfFile) /\ Cardinality(DOMAIN cfFile) <= Bound

LEMMA QueueIsChosen ==
  ASSUME NEW set PROVE Queue(set) = Chosen(cfLru, {i \in DOMAIN cfLru : cfLru[i] \notin set})
BY DEF Queue, Chosen

(* A queue without a set of devices has the others once, in the same order. *)
LEMMA QueueKeeps ==
  ASSUME NEW T, cfLru \in Seq(T), NEW set,
         \A i, j \in DOMAIN cfLru : cfLru[i] = cfLru[j] => i = j
  PROVE  /\ Queue(set) \in Seq(T) /\ ToSet(Queue(set)) = ToSet(cfLru) \ set
         /\ \A i, j \in DOMAIN Queue(set) : i < j =>
              \E k, l \in DOMAIN cfLru : k < l /\ Queue(set)[i] = cfLru[k] /\ Queue(set)[j] = cfLru[l]
         /\ \A i, j \in DOMAIN Queue(set) : Queue(set)[i] = Queue(set)[j] => i = j
<1> DEFINE stay == {i \in DOMAIN cfLru : cfLru[i] \notin set}
           q == Queue(set)
<1>0. DOMAIN cfLru = 1..Len(cfLru) /\ stay \in SUBSET (1..Len(cfLru))
  OBVIOUS
<1>1. q \in Seq(T) /\ ReadsAt(q, cfLru, stay) /\ IsFiniteSet(stay)
  BY <1>0, QueueIsChosen, ChosenRead
<1>2. Cardinality(stay) \in Nat
  BY <1>1, FS_CardinalityType
<1>3. PICK pos : Positions(stay, pos) /\ \A i \in 1..Cardinality(stay) : q[i] = cfLru[pos[i]]
  BY <1>1 DEF ReadsAt
<1>4. DOMAIN q = 1..Cardinality(stay)
  BY <1>1 DEF ReadsAt
<1> HIDE DEF q
<1>5. \A i \in DOMAIN q : pos[i] \in DOMAIN cfLru /\ q[i] = cfLru[pos[i]] /\ q[i] \notin set
  BY <1>3, <1>4 DEF Positions
<1>6. \A i, j \in DOMAIN q : i < j => pos[i] < pos[j]
  <2> SUFFICES ASSUME NEW i \in DOMAIN q, NEW j \in DOMAIN q, i < j PROVE pos[i] < pos[j]
    OBVIOUS
  <2>1. pos[j] - pos[i] >= j - i
    BY <1>3, <1>4 DEF Positions
  <2>2. pos[i] \in Int /\ pos[j] \in Int /\ i \in Int /\ j \in Int
    BY <1>0, <1>4, <1>5
  <2> QED BY <2>1, <2>2
<1>7. ToSet(q) = ToSet(cfLru) \ set
  <2>1. ASSUME NEW x \in ToSet(q) PROVE x \in ToSet(cfLru) \ set
    BY <1>5 DEF ToSet
  <2>2. ASSUME NEW x \in ToSet(cfLru) \ set PROVE x \in ToSet(q)
    <3>1. PICK k \in DOMAIN cfLru : cfLru[k] = x
      BY DEF ToSet
    <3>2. PICK i \in DOMAIN q : pos[i] = k
      BY <1>3, <1>4, <2>2, <3>1 DEF Positions
    <3> QED BY <1>5, <3>1, <3>2 DEF ToSet
  <2> QED BY <2>1, <2>2
<1>8. \A i, j \in DOMAIN q : q[i] = q[j] => i = j
  <2> SUFFICES ASSUME NEW i \in DOMAIN q, NEW j \in DOMAIN q, q[i] = q[j], i # j PROVE FALSE
    OBVIOUS
  <2>1. pos[i] = pos[j]
    BY <1>5
  <2>2. i < j \/ j < i
    BY <1>2, <1>4
  <2>3. pos[i] \in Int
    BY <1>0, <1>5
  <2> QED BY <1>6, <2>1, <2>2, <2>3
<1>9. \A i, j \in DOMAIN q : i < j => \E k, l \in DOMAIN cfLru : k < l /\ q[i] = cfLru[k] /\ q[j] = cfLru[l]
  BY <1>5, <1>6
<1> QED BY <1>1, <1>7, <1>8, <1>9 DEF q

(* A sequence that holds nothing twice is as long as it has elements.       *)
LEMMA LengthOfOnce ==
  ASSUME NEW T, NEW s \in Seq(T), \A i, j \in DOMAIN s : s[i] = s[j] => i = j
  PROVE  IsFiniteSet(ToSet(s)) /\ Cardinality(ToSet(s)) = Len(s)
<1>1. DOMAIN s = 1..Len(s) /\ Len(s) \in Nat
  OBVIOUS
<1>2. s \in Bijection(1..Len(s), ToSet(s))
  <2>1. s \in [1..Len(s) -> ToSet(s)]
    BY <1>1 DEF ToSet
  <2> QED BY <1>1, <2>1 DEF ToSet, Bijection, Injection, Surjection, IsInjective
<1>3. ExistsBijection(1..Len(s), ToSet(s))
  BY <1>2 DEF ExistsBijection
<1> QED BY <1>1, <1>3, FS_CountingElements, FS_NatBijection

LEMMA BoundIs == Bound \in Nat /\ Bound >= 1 /\ Bound >= CfMaxSize
<1>1. \E m \in {1, CfMaxSize} : \A y \in {1, CfMaxSize} : m >= y
  BY CfAssumption
<1>2. Bound \in {1, CfMaxSize} /\ \A y \in {1, CfMaxSize} : Bound >= y
  BY <1>1 DEF Bound, Max
<1> QED BY <1>2, CfAssumption

(* What is dropped from both leaves the rest in order.                      *)
LEMMA RestQueues ==
  ASSUME Queues(cfLru, cfDevices, cfLoaded, cfNow), NEW set
  PROVE  /\ Queues(Queue(set), Without(set), cfLoaded \ set, cfNow)
         /\ DOMAIN Without(set) = DOMAIN cfDevices \ set
         /\ Len(Queue(set)) <= Len(cfLru)
<1> DEFINE q == Queue(set)  dev == Without(set)
<1>0. cfLru \in Seq(DOMAIN cfDevices) /\ \A i, j \in DOMAIN cfLru : cfLru[i] = cfLru[j] => i = j
  BY DEF Queues
<1>1. /\ q \in Seq(DOMAIN cfDevices) /\ ToSet(q) = ToSet(cfLru) \ set
      /\ \A i, j \in DOMAIN q : i < j => \E k, l \in DOMAIN cfLru : k < l /\ q[i] = cfLru[k] /\ q[j] = cfLru[l]
      /\ \A i, j \in DOMAIN q : q[i] = q[j] => i = j
  BY <1>0, QueueKeeps
<1>2. DOMAIN dev = DOMAIN cfDevices \ set /\ dev \in [DOMAIN dev -> Int] /\ \A s \in DOMAIN dev : dev[s] = cfDevices[s] /\ dev[s] < cfNow
  BY DEF Without, Queues
<1>3. ToSet(q) = DOMAIN dev
  BY <1>1, <1>2 DEF Queues
<1> HIDE DEF q, dev
<1>4. q \in Seq(DOMAIN dev)
  <2>1. \A i \in 1..Len(q) : q[i] \in ToSet(q)
    BY <1>1 DEF ToSet
  <2> QED BY <1>1, <1>3, <2>1
<1>5. InUseOrder(q, dev, cfLoaded \ set)
  <2> SUFFICES ASSUME NEW i \in DOMAIN q, NEW j \in DOMAIN q, i < j
               PROVE  q[i] \in cfLoaded \ set \/ (q[j] \notin cfLoaded \ set /\ dev[q[i]] < dev[q[j]])
    BY DEF InUseOrder
  <2>1. PICK k \in DOMAIN cfLru, l \in DOMAIN cfLru : k < l /\ q[i] = cfLru[k] /\ q[j] = cfLru[l]
    BY <1>1
  <2>2. q[i] \in DOMAIN dev /\ q[j] \in DOMAIN dev
    BY <1>4
  <2>3. q[i] \in cfLoaded \/ (q[j] \notin cfLoaded /\ cfDevices[q[i]] < cfDevices[q[j]])
    BY <2>1 DEF Queues, InUseOrder
  <2> QED BY <1>2, <2>2, <2>3
<1>6. Len(q) <= Len(cfLru)
  <2>1. IsFiniteSet(ToSet(q)) /\ Cardinality(ToSet(q)) = Len(q)
    BY <1>1, LengthOfOnce
  <2>2. IsFiniteSet(ToSet(cfLru)) /\ Cardinality(ToSet(cfLru)) = Len(cfLru)
    BY <1>0, LengthOfOnce
  <2>3. ToSet(q) \in SUBSET ToSet(cfLru)
    BY <1>1
  <2> QED BY <2>1, <2>2, <2>3, FS_Subset
<1> QED BY <1>1, <1>2, <1>3, <1>4, <1>5, <1>6 DEF Queues, q, dev

(* A device used now goes to the back.                                     *)
LEMMA UsedNowQueues ==
  ASSUME NEW q, NEW dev, NEW loaded, NEW sig, Queues(q, dev, loaded, cfNow), sig \notin DOMAIN dev, sig \notin loaded
  PROVE  LET all == [s \in DOMAIN dev \cup {sig} |-> IF s = sig THEN cfNow ELSE dev[s]] IN
         Queues(Append(q, sig), all, loaded, cfNow + 1) /\ Len(Append(q, sig)) = Len(q) + 1
<1> DEFINE all == [s \in DOMAIN dev \cup {sig} |-> IF s = sig THEN cfNow ELSE dev[s]]
           r   == Append(q, sig)
<1>1. cfNow \in Int /\ q \in Seq(DOMAIN dev) /\ DOMAIN all = DOMAIN dev \cup {sig}
  BY DEF Queues
<1>2. all \in [DOMAIN all -> Int] /\ \A s \in DOMAIN all : all[s] < cfNow + 1
  BY DEF Queues
<1>3. \A s \in DOMAIN dev : all[s] = dev[s] /\ all[s] < cfNow
  BY DEF Queues
<1>4. all[sig] = cfNow
  OBVIOUS
<1>5. r \in Seq(DOMAIN all) /\ Len(r) = Len(q) + 1 /\ Len(q) \in Nat /\ r[Len(q) + 1] = sig /\ DOMAIN r = 1..Len(q) + 1
  <2>1. q \in Seq(DOMAIN all) /\ sig \in DOMAIN all
    BY <1>1
  <2> HIDE DEF all
  <2> QED BY <2>1
<1>6. \A i \in 1..Len(q) : r[i] = q[i] /\ q[i] \in DOMAIN dev /\ r[i] # sig
  BY <1>1
<1> HIDE DEF all, r
<1>7. ToSet(r) = DOMAIN all
  <2>1. ToSet(q) = DOMAIN dev
    BY DEF Queues
  <2>2. ASSUME NEW x \in ToSet(r) PROVE x \in DOMAIN all
    BY <1>5 DEF ToSet
  <2>3. ASSUME NEW x \in DOMAIN all PROVE x \in ToSet(r)
    <3>1. CASE x = sig
      <4>1. Len(q) + 1 \in DOMAIN r
        BY <1>5
      <4> QED BY <1>5, <3>1, <4>1 DEF ToSet
    <3>2. CASE x # sig
      <4>1. PICK i \in DOMAIN q : q[i] = x
        BY <1>1, <2>1, <3>2 DEF ToSet
      <4>2. i \in DOMAIN r /\ r[i] = x
        BY <1>1, <1>5, <1>6, <4>1
      <4> QED BY <4>2 DEF ToSet
    <3> QED BY <3>1, <3>2
  <2> QED BY <2>2, <2>3
<1>8. \A i, j \in DOMAIN r : r[i] = r[j] => i = j
  <2>1. \A i, j \in 1..Len(q) : q[i] = q[j] => i = j
    BY <1>1 DEF Queues
  <2>2. \A i \in DOMAIN r : i = Len(q) + 1 \/ i \in 1..Len(q)
    BY <1>5
  <2> QED BY <1>5, <1>6, <2>1, <2>2
<1>9. InUseOrder(r, all, loaded)
  <2> SUFFICES ASSUME NEW i \in DOMAIN r, NEW j \in DOMAIN r, i < j
               PROVE  r[i] \in loaded \/ (r[j] \notin loaded /\ all[r[i]] < all[r[j]])
    BY DEF InUseOrder
  <2>1. i \in 1..Len(q)
    BY <1>5
  <2>2. CASE j = Len(q) + 1
    BY <1>3, <1>4, <1>5, <1>6, <2>1, <2>2
  <2>3. CASE j # Len(q) + 1
    <3>1. j \in 1..Len(q)
      BY <1>5, <2>3
    <3>2. q[i] \in loaded \/ (q[j] \notin loaded /\ dev[q[i]] < dev[q[j]])
      BY <1>1, <2>1, <3>1 DEF Queues, InUseOrder
    <3> QED BY <1>3, <1>6, <2>1, <3>1, <3>2
  <2> QED BY <2>2, <2>3
<1>10. cfNow + 1 \in Int
  BY <1>1
<1> QED BY <1>2, <1>5, <1>7, <1>8, <1>9, <1>10 DEF Queues, all, r

LEMMA CacheStarts == CfInit => CacheInv
<1> SUFFICES ASSUME CfInit PROVE CacheInv
  OBVIOUS
<1>1. cfNow \in Int /\ DOMAIN NoDevices = {} /\ cfLru = <<>> /\ cfDevices = NoDevices /\ cfFile = NoDevices
  BY CfAssumption DEF CfInit, NoDevices
<1>2. Queues(cfLru, cfDevices, cfLoaded, cfNow)
  <2>1. ToSet(<<>>) = {} /\ <<>> \in Seq({}) /\ DOMAIN <<>> = {}
    BY DEF ToSet
  <2>2. NoDevices \in [{} -> Int]
    BY DEF NoDevices
  <2> QED BY <1>1, <2>1, <2>2 DEF Queues, InUseOrder
<1>3. Len(cfLru) = 0 /\ Cardinality({}) = 0 /\ IsFiniteSet({})
  BY <1>1, FS_EmptySet
<1>4. NoDevices \in [{} -> Nat]
  BY DEF NoDevices
<1> QED BY <1>1, <1>2, <1>3, <1>4, BoundIs DEF CacheInv

LEMMA CacheHolds == CacheInv => LruOrder
<1> SUFFICES ASSUME CacheInv PROVE LruOrder
  OBVIOUS
<1>1. Cardinality(ToSet(cfLru)) = Len(cfLru)
  BY LengthOfOnce DEF CacheInv, Queues
<1> QED BY <1>1 DEF CacheInv, Queues, InUseOrder, LruOrder, Bound

(* Time goes on, and what is dropped is gone.                               *)
LEMMA DropSteps ==
  ASSUME CacheInv, NEW set, Drop(set) PROVE CacheInv'
<1>1. /\ cfNow' = cfNow + 1 /\ cfNow \in Int /\ cfDevices' = Without(set) /\ cfLru' = Queue(set)
      /\ cfLoaded' = cfLoaded \ set /\ cfFile' = cfFile
  BY DEF Drop, Tick, CacheInv, Queues
<1>2. Queues(cfLru', cfDevices', cfLoaded', cfNow) /\ Len(cfLru') <= Len(cfLru)
  BY <1>1, RestQueues DEF CacheInv
<1>3. Queues(cfLru', cfDevices', cfLoaded', cfNow')
  BY <1>1, <1>2 DEF Queues
<1>4. Len(cfLru') <= Bound
  <2>1. Len(cfLru') \in Nat /\ Len(cfLru) \in Nat /\ Len(cfLru) <= Bound
    BY <1>2 DEF Queues, CacheInv
  <2> QED BY <1>2, <2>1, BoundIs
<1> QED BY <1>1, <1>3, <1>4 DEF CacheInv, Bound

LEMMA InsertSteps ==
  ASSUME CacheInv, NEW sig, Insert(sig) PROVE CacheInv'
<1> DEFINE gone == MakesRoom(sig) \cup {sig}
           dev  == Without(gone)
           all  == [s \in DOMAIN dev \cup {sig} |-> IF s = sig THEN cfNow ELSE dev[s]]
<1>1. Queues(cfLru, cfDevices, cfLoaded, cfNow) /\ Len(cfLru) <= Bound
  BY DEF CacheInv
<1>2. Queues(Queue(gone), dev, cfLoaded \ gone, cfNow) /\ DOMAIN dev = DOMAIN cfDevices \ gone
  BY <1>1, RestQueues
<1>3. Queues(Append(Queue(gone), sig), all, cfLoaded \ gone, cfNow + 1) /\ Len(Append(Queue(gone), sig)) = Len(Queue(gone)) + 1
  BY <1>2, UsedNowQueues
<1>4. all = [s \in DOMAIN Without(gone) \cup {sig} |-> IF s = sig THEN cfNow ELSE cfDevices[s]]
  BY DEF Without
<1>5. /\ cfNow' = cfNow + 1 /\ cfDevices' = all /\ cfLru' = Append(Queue(gone), sig)
      /\ cfLoaded' = cfLoaded \ gone /\ cfFile' = cfFile
  BY <1>4 DEF Insert, Tick
<1>6. Queues(cfLru', cfDevices', cfLoaded', cfNow')
  BY <1>3, <1>5
<1>7. Len(Queue(gone)) + 1 <= Bound
  <2>1. /\ Cardinality(DOMAIN cfDevices) = Len(cfLru) /\ IsFiniteSet(DOMAIN cfDevices)
        /\ Cardinality(DOMAIN cfDevices \ gone) = Len(Queue(gone))
    <3>1. Cardinality(ToSet(cfLru)) = Len(cfLru) /\ IsFiniteSet(ToSet(cfLru)) /\ ToSet(cfLru) = DOMAIN cfDevices
      BY <1>1, LengthOfOnce DEF Queues
    <3>2. Cardinality(ToSet(Queue(gone))) = Len(Queue(gone)) /\ ToSet(Queue(gone)) = DOMAIN dev
      <4> HIDE DEF gone, dev
      <4> QED BY <1>2, LengthOfOnce DEF Queues
    <3> QED BY <1>2, <3>1, <3>2
  <2>2. Len(cfLru) \in Nat /\ Len(Queue(gone)) \in Nat
    <3> HIDE DEF gone, dev
    <3> QED BY <1>1, <1>2 DEF Queues
  <2>3. Cardinality(DOMAIN cfDevices \ gone) <= Cardinality(DOMAIN cfDevices)
    <3> HIDE DEF gone
    <3> QED BY <2>1, FS_Subset
  <2>4. ASSUME NEW s \in DOMAIN cfDevices, s \in gone PROVE Len(Queue(gone)) + 1 <= Len(cfLru)
    <3>1. DOMAIN cfDevices \ gone # DOMAIN cfDevices
      BY <2>4
    <3> HIDE DEF gone
    <3>2. Cardinality(DOMAIN cfDevices \ gone) # Cardinality(DOMAIN cfDevices)
      BY <2>1, <3>1, FS_Subset
    <3> QED BY <2>1, <2>2, <2>3, <3>2
  <2>5. CASE sig \in DOMAIN cfDevices
    <3>1. sig \in gone
      OBVIOUS
    <3> HIDE DEF gone
    <3> QED BY <1>1, <2>2, <2>4, <2>5, <3>1, BoundIs
  <2>6. CASE sig \notin DOMAIN cfDevices /\ ~(Cardinality(DOMAIN cfDevices) >= CfMaxSize)
    <3> HIDE DEF gone
    <3> QED BY <2>1, <2>2, <2>3, <2>6, BoundIs, CfAssumption
  <2>7. CASE cfLru = <<>>
    <3>1. Len(cfLru) = 0
      BY <2>7
    <3> HIDE DEF gone
    <3> QED BY <2>1, <2>2, <2>3, <3>1, BoundIs
  <2>8. CASE sig \notin DOMAIN cfDevices /\ Cardinality(DOMAIN cfDevices) >= CfMaxSize /\ cfLru # <<>>
    <3>1. Head(cfLru) \in DOMAIN cfDevices
      BY <1>1, <2>8 DEF Queues
    <3>2. Head(cfLru) \in gone
      BY <2>8 DEF MakesRoom
    <3> HIDE DEF gone
    <3> QED BY <1>1, <2>2, <2>4, <3>1, <3>2, BoundIs
  <2> QED BY <2>5, <2>6, <2>7, <2>8
<1>8. Len(cfLru') <= Bound
  <2> HIDE DEF gone, dev, all
  <2> QED BY <1>3, <1>5, <1>7
<1> QED BY <1>5, <1>6, <1>8 DEF CacheInv, Bound

LEMMA GetSteps ==
  ASSUME CacheInv, NEW sig, Get(sig) PROVE CacheInv'
<1> DEFINE dev == Without({sig})
           all == [s \in DOMAIN dev \cup {sig} |-> IF s = sig THEN cfNow ELSE dev[s]]
<1>1. Queues(cfLru, cfDevices, cfLoaded, cfNow) /\ Len(cfLru) <= Bound /\ sig \in DOMAIN cfDevices
  BY DEF CacheInv, Get
<1>2. Queues(Queue({sig}), dev, cfLoaded \ {sig}, cfNow) /\ DOMAIN dev = DOMAIN cfDevices \ {sig}
  BY <1>1, RestQueues
<1>3. Queues(Append(Queue({sig}), sig), all, cfLoaded \ {sig}, cfNow + 1)
  BY <1>2, UsedNowQueues
<1>4. all = [cfDevices EXCEPT ![sig] = cfNow]
  BY <1>1 DEF Without, Queues
<1>5. /\ cfNow' = cfNow + 1 /\ cfDevices' = all /\ cfLru' = Append(Queue({sig}), sig)
      /\ cfLoaded' = cfLoaded \ {sig} /\ cfFile' = cfFile
  BY <1>4 DEF Get, Tick, Requeued
<1>6. Queues(cfLru', cfDevices', cfLoaded', cfNow')
  BY <1>3, <1>5
<1>7. DOMAIN cfDevices' = DOMAIN cfDevices
  BY <1>4, <1>5
<1>8. Len(cfLru') = Len(cfLru)
  <2>1. Cardinality(ToSet(cfLru)) = Len(cfLru) /\ ToSet(cfLru) = DOMAIN cfDevices
    BY <1>1, LengthOfOnce DEF Queues
  <2>2. Cardinality(ToSet(cfLru')) = Len(cfLru') /\ ToSet(cfLru') = DOMAIN cfDevices'
    BY <1>6, LengthOfOnce DEF Queues
  <2> QED BY <1>7, <2>1, <2>2
<1> QED BY <1>1, <1>5, <1>6, <1>8 DEF CacheInv, Bound

(* A loaded cache is all in the order of the map.                           *)
LEMMA LoadSteps ==
  ASSUME CacheInv, LoadFromFile PROVE CacheInv'
<1> DEFINE n == Cardinality(DOMAIN cfFile)
<1>1. /\ cfNow' = cfNow + 1 /\ cfNow \in Int /\ cfDevices' = [s \in DOMAIN cfFile |-> cfNow - cfFile[s]]
      /\ cfLru' \in SetToSeqs(DOMAIN cfFile) /\ cfLoaded' = DOMAIN cfFile /\ cfFile' = cfFile
  BY DEF LoadFromFile, Tick, CacheInv, Queues
<1>2. IsFiniteSet(DOMAIN cfFile) /\ n <= Bound /\ n \in Nat
  BY FS_CardinalityType DEF CacheInv
<1>3. cfLru' \in [1..n -> DOMAIN cfFile] /\ \A i, j \in 1..n : i # j => cfLru'[i] # cfLru'[j]
  BY <1>1 DEF SetToSeqs
<1> HIDE DEF n
<1>4. cfLru' \in Seq(DOMAIN cfFile) /\ Len(cfLru') = n /\ DOMAIN cfLru' = 1..n
  BY <1>2, <1>3
<1>5. \A i, j \in DOMAIN cfLru' : cfLru'[i] = cfLru'[j] => i = j
  BY <1>3, <1>4
<1>6. ToSet(cfLru') = DOMAIN cfFile
  <2>1. ToSet(cfLru') \in SUBSET DOMAIN cfFile
    BY <1>3, <1>4 DEF ToSet
  <2>2. Cardinality(ToSet(cfLru')) = n
    BY <1>4, <1>5, LengthOfOnce
  <2> QED BY <1>2, <2>1, <2>2, FS_Subset DEF n
<1>7. \A s \in DOMAIN cfFile : cfFile[s] \in Nat /\ cfFile[s] > 0
  BY DEF CacheInv
<1>8. /\ DOMAIN cfDevices' = DOMAIN cfFile /\ cfDevices' \in [DOMAIN cfFile -> Int]
      /\ \A s \in DOMAIN cfFile : cfDevices'[s] < cfNow'
  BY <1>1, <1>7
<1>9. Queues(cfLru', cfDevices', cfLoaded', cfNow')
  BY <1>1, <1>3, <1>4, <1>5, <1>6, <1>8 DEF Queues, InUseOrder
<1> QED BY <1>1, <1>2, <1>4, <1>9 DEF CacheInv, Bound

LEMMA SaveSteps ==
  ASSUME CacheInv, SaveToFile PROVE CacheInv'
<1>1. /\ cfNow' = cfNow + 1 /\ cfFile' = [s \in DOMAIN cfDevices |-> cfNow - cfDevices[s]]
      /\ UNCHANGED <<cfDevices, cfLru, cfLoaded>>
  BY DEF SaveToFile, Tick
<1>2. Queues(cfLru, cfDevices, cfLoaded, cfNow) /\ Len(cfLru) <= Bound
  BY DEF CacheInv
<1>3. Queues(cfLru', cfDevices', cfLoaded', cfNow')
  BY <1>1, <1>2 DEF Queues
<1>4. DOMAIN cfFile' = DOMAIN cfDevices
  BY <1>1
<1>5. cfFile' \in [DOMAIN cfFile' -> Nat] /\ \A s \in DOMAIN cfFile' : cfFile'[s] > 0
  BY <1>1, <1>2 DEF Queues
<1>6. IsFiniteSet(DOMAIN cfDevices) /\ Cardinality(DOMAIN cfDevices) = Len(cfLru)
  BY <1>2, LengthOfOnce DEF Queues
<1> QED BY <1>1, <1>2, <1>3, <1>4, <1>5, <1>6 DEF CacheInv, Bound

LEMMA CacheSteps == CacheInv /\ [CfNext]_cfVars => CacheInv'
<1> SUFFICES ASSUME CacheInv, [CfNext]_cfVars PROVE CacheInv'
  OBVIOUS
<1>1. CASE UNCHANGED cfVars
  BY <1>1 DEF cfVars, CacheInv, Queues, InUseOrder, Bound
<1>2. CASE \E set : Drop(set)
  BY <1>2, DropSteps
<1>3. CASE \E sig : Insert(sig) \/ Get(sig)
  BY <1>3, InsertSteps, GetSteps
<1>4. CASE SaveToFile \/ LoadFromFile
  BY <1>4, SaveSteps, LoadSteps
<1> QED BY <1>1, <1>2, <1>3, <1>4 DEF CfNext, RemoveDevice, Clear, RemoveStale

-----------------------------------------------------------------------------
(* The statistics of the devices and the locks around them.                 *)

Window   == [at : Nat, n : Nat]
StatsSet == [windows : Seq(Window), received : Nat, valid : Nat, errors : Seq(Nat), holder : InThreads \cup {NoThread}]
LooksFor == {"error", "success", "export"}
ThreadSet ==
  [at : {"rest", "registry", "stats", "inside", "devices"},
   call : LooksFor \cup {"none", "clear", "clear all", "alerts", "export all"}, device : InDevices \cup {"none"},
   stats : Nat, left : SUBSET InDevices, alerts : SUBSET InDevices]

(* The lock of the registry is held by who asks the devices, the lock of a   *)
(* device's statistics by who updates them, and nobody holds two.           *)
RegistryInv ==
  /\ inStats \in Seq(StatsSet) /\ inThread \in [InThreads -> ThreadSet] /\ inNow \in Nat
  /\ inRegistry \in [InDevices -> 0..Len(inStats)] /\ inRegistryLock \in InThreads \cup {NoThread}
  /\ \A d, e \in InDevices : inRegistry[d] = inRegistry[e] /\ inRegistry[d] # 0 => d = e
  /\ \A t \in InThreads :
       /\ inThread[t].at = "rest" => inThread[t] = ThreadAtRest
       /\ inThread[t].at = "registry" /\ inThread[t].call \in LooksFor => inThread[t].device \in InDevices
       /\ inThread[t].at \in {"stats", "inside"} => inThread[t].stats \in 1..Len(inStats)
       /\ inThread[t].at = "inside" => inStats[inThread[t].stats].holder = t
       /\ inThread[t].at = "devices" <=> inRegistryLock = t
       /\ inThread[t].at = "devices" => \A d \in inThread[t].left : inRegistry[d] # 0
  /\ \A k \in 1..Len(inStats) : inStats[k].holder # NoThread =>
       inThread[inStats[k].holder].at = "inside" /\ inThread[inStats[k].holder].stats = k

LEMMA RestTyped == ThreadAtRest \in ThreadSet
BY DEF ThreadAtRest, ThreadSet, LooksFor

LEMMA RegistryStarts == InInit => RegistryInv
<1> SUFFICES ASSUME InInit PROVE RegistryInv
  OBVIOUS
<1>1. inStats \in Seq(StatsSet) /\ Len(inStats) = 0
  BY DEF InInit
<1>2. inThread \in [InThreads -> ThreadSet] /\ \A t \in InThreads : inThread[t].at = "rest" /\ inThread[t] = ThreadAtRest
  BY RestTyped DEF InInit, ThreadAtRest
<1> QED BY <1>1, <1>2, InAssumption DEF InInit, RegistryInv

(* Some thread can always go on: who waits for a lock waits for one who      *)
(* holds no other.                                                         *)
LEMMA RegistryHolds == RegistryInv => RegistryMoves
<1> SUFFICES ASSUME RegistryInv, NEW t \in InThreads, inThread[t] # ThreadAtRest
             PROVE  \E u \in InThreads :
                      \/ inThread[u].at = "inside"
                      \/ /\ inThread[u].at = "devices"
                         /\ inThread[u].left = {} \/ \E d \in inThread[u].left : inStats[inRegistry[d]].holder = NoThread
                      \/ inThread[u].at = "stats" /\ inStats[inThread[u].stats].holder = NoThread
                      \/ inThread[u].at = "registry" /\ inRegistryLock = NoThread
  BY DEF RegistryMoves, RegistryInv
<1> DEFINE Free == \E u \in InThreads :
                      \/ inThread[u].at = "inside"
                      \/ /\ inThread[u].at = "devices"
                         /\ inThread[u].left = {} \/ \E d \in inThread[u].left : inStats[inRegistry[d]].holder = NoThread
                      \/ inThread[u].at = "stats" /\ inStats[inThread[u].stats].holder = NoThread
                      \/ inThread[u].at = "registry" /\ inRegistryLock = NoThread
<1>1. \A u \in InThreads : inThread[u].at \in {"rest", "registry", "stats", "inside", "devices"}
  BY DEF RegistryInv, ThreadSet
<1>2. ASSUME NEW k \in 1..Len(inStats), inStats[k].holder # NoThread PROVE Free
  <2>1. inStats[k].holder \in InThreads
    <3>1. inStats[k] \in StatsSet
      BY DEF RegistryInv
    <3> QED BY <1>2, <3>1 DEF StatsSet
  <2> QED BY <1>2, <2>1 DEF RegistryInv
<1>3. ASSUME NEW u \in InThreads, inThread[u].at = "devices" PROVE Free
  <2>1. CASE inThread[u].left = {}
    BY <1>3, <2>1
  <2>2. ASSUME NEW d \in inThread[u].left PROVE Free
    <3>1. d \in InDevices /\ inRegistry[d] # 0
      <4>1. inThread[u] \in ThreadSet
        BY DEF RegistryInv
      <4> QED BY <1>3, <4>1 DEF RegistryInv, ThreadSet
    <3>2. inRegistry[d] \in 1..Len(inStats)
      BY <3>1 DEF RegistryInv
    <3>3. CASE inStats[inRegistry[d]].holder = NoThread
      BY <1>3, <3>3
    <3> QED BY <1>2, <3>2, <3>3
  <2> QED BY <2>1, <2>2
<1>4. CASE inThread[t].at = "registry"
  <2>1. CASE inRegistryLock = NoThread
    BY <1>4, <2>1
  <2>2. CASE inRegistryLock # NoThread
    <3>1. inRegistryLock \in InThreads /\ inThread[inRegistryLock].at = "devices"
      BY <2>2 DEF RegistryInv
    <3> QED BY <1>3, <3>1
  <2> QED BY <2>1, <2>2
<1>5. CASE inThread[t].at = "stats"
  <2>1. inThread[t].stats \in 1..Len(inStats)
    BY <1>5 DEF RegistryInv
  <2> QED BY <1>2, <1>5, <2>1
<1>6. inThread[t].at # "rest"
  BY DEF RegistryInv
<1> QED BY <1>1, <1>3, <1>4, <1>5, <1>6

(* What the windows of a device are after a call.                            *)
LEMMA KeptTyped ==
  ASSUME NEW w \in Seq(Window), NEW now \in Nat PROVE Kept(w, now) \in Seq(Window)
<1> DEFINE P == {i \in DOMAIN w : now - w[i].at < InWindow * InMaxWindows}
           young == Chosen(w, P)
<1>1. P \in SUBSET (1..Len(w))
  OBVIOUS
<1>2. young \in Seq(Window)
  BY <1>1, ChosenRead
<1> DEFINE drop == IF Len(young) > InMaxWindows THEN Len(young) - InMaxWindows ELSE 0
<1>3. Kept(w, now) = SubSeq(young, drop + 1, Len(young))
  BY DEF Kept
<1> HIDE DEF young
<1>4. drop \in Nat
  BY <1>2, InAssumption
<1> HIDE DEF drop
<1> QED BY <1>2, <1>3, <1>4

LEMMA IncrementedTyped ==
  ASSUME NEW w \in Seq(Window), NEW now \in Nat PROVE Incremented(w, now) \in Seq(Window)
<1> DEFINE kept == Kept(w, now)
<1>1. kept \in Seq(Window)
  BY KeptTyped
<1>2. Incremented(w, now) = IF kept # <<>> /\ now - Last(kept).at < InWindow
                            THEN [kept EXCEPT ![Len(kept)].n = @ + 1] ELSE Append(kept, [at |-> now, n |-> 1])
  BY DEF Incremented
<1> HIDE DEF kept
<1>3. [at |-> now, n |-> 1] \in Window
  BY DEF Window
<1>4. CASE kept # <<>>
  <2>1. Len(kept) \in 1..Len(kept) /\ kept[Len(kept)] \in Window
    BY <1>1, <1>4
  <2>2. [kept[Len(kept)] EXCEPT !.n = @ + 1] \in Window
    BY <2>1 DEF Window
  <2>3. [kept EXCEPT ![Len(kept)].n = @ + 1] = [kept EXCEPT ![Len(kept)] = [kept[Len(kept)] EXCEPT !.n = @ + 1]]
    OBVIOUS
  <2> QED BY <1>1, <1>2, <1>3, <2>1, <2>2, <2>3
<1> QED BY <1>1, <1>2, <1>3, <1>4

LEMMA AfterTyped ==
  ASSUME NEW s \in StatsSet, NEW call, inNow \in Nat
  PROVE  After(s, call) \in StatsSet /\ After(s, call).holder = s.holder
<1>1. Incremented(s.windows, inNow) \in Seq(Window) /\ Append(s.errors, inNow) \in Seq(Nat)
  BY IncrementedTyped DEF StatsSet
<1>2. CASE call = "error"
  <2> DEFINE w == Incremented(s.windows, inNow)
             e == Append(s.errors, inNow)
  <2>1. After(s, call) = [s EXCEPT !.windows = w, !.errors = e]
    BY <1>2 DEF After
  <2>2. w \in Seq(Window) /\ e \in Seq(Nat)
    BY <1>1
  <2> HIDE DEF w, e
  <2> QED BY <2>1, <2>2 DEF StatsSet
<1>3. CASE call = "success"
  <2>1. After(s, call) = [s EXCEPT !.received = @ + 1, !.valid = @ + 1]
    BY <1>3 DEF After
  <2>2. s.received + 1 \in Nat /\ s.valid + 1 \in Nat
    BY DEF StatsSet
  <2> QED BY <2>1, <2>2 DEF StatsSet
<1>4. CASE call \notin {"error", "success"}
  BY <1>4 DEF After
<1> QED BY <1>2, <1>3, <1>4

(* A step that leaves the statistics there are and whoever holds them.       *)
LEMMA RegistryStays ==
  ASSUME RegistryInv, NEW t \in InThreads, NEW new \in ThreadSet, inThread' = [inThread EXCEPT ![t] = new],
         UNCHANGED <<inStats, inRegistry, inRegistryLock, inNow>>,
         inThread[t].at # "inside", new.at # "inside", new.at = "devices" <=> inThread[t].at = "devices",
         new.at = "rest" => new = ThreadAtRest,
         new.at = "registry" /\ new.call \in LooksFor => new.device \in InDevices,
         new.at = "stats" => new.stats \in 1..Len(inStats),
         new.at = "devices" => \A d \in new.left : inRegistry[d] # 0
  PROVE  RegistryInv'
<1>1. inThread' \in [InThreads -> ThreadSet] /\ inThread'[t] = new /\ \A u \in InThreads : u # t => inThread'[u] = inThread[u]
  BY DEF RegistryInv
<1>2. ASSUME NEW u \in InThreads
      PROVE  /\ inThread'[u].at = "rest" => inThread'[u] = ThreadAtRest
             /\ inThread'[u].at = "registry" /\ inThread'[u].call \in LooksFor => inThread'[u].device \in InDevices
             /\ inThread'[u].at \in {"stats", "inside"} => inThread'[u].stats \in 1..Len(inStats)
             /\ inThread'[u].at = "inside" => inStats[inThread'[u].stats].holder = u
             /\ inThread'[u].at = "devices" <=> inRegistryLock = u
             /\ inThread'[u].at = "devices" => \A d \in inThread'[u].left : inRegistry[d] # 0
  <2>1. CASE u = t
    BY <1>1, <2>1 DEF RegistryInv
  <2>2. CASE u # t
    BY <1>1, <2>2 DEF RegistryInv
  <2> QED BY <2>1, <2>2
<1>3. ASSUME NEW k \in 1..Len(inStats), inStats[k].holder # NoThread
      PROVE  inThread'[inStats[k].holder].at = "inside" /\ inThread'[inStats[k].holder].stats = k
  <2>1. inStats[k].holder \in InThreads
    <3>1. inStats[k] \in StatsSet
      BY DEF RegistryInv
    <3> QED BY <1>3, <3>1 DEF StatsSet
  <2>2. inThread[inStats[k].holder].at = "inside" /\ inThread[inStats[k].holder].stats = k
    BY <1>3 DEF RegistryInv
  <2> QED BY <1>1, <2>1, <2>2
<1> QED BY <1>1, <1>2, <1>3 DEF RegistryInv

LEMMA IdleAtRest == ThreadAtRest.at = "rest"
BY DEF ThreadAtRest

LEMMA CallBegins ==
  ASSUME RegistryInv, StartsCall PROVE RegistryInv'
<1>1. PICK t \in InThreads : \/ \E call \in {"error", "success", "export", "clear"}, d \in InDevices : InCall(t, call, d)
                             \/ \E call \in {"clear all", "alerts", "export all"} : InCall(t, call, "none")
  BY DEF StartsCall
<1>2. PICK call \in LooksFor \cup {"clear", "clear all", "alerts", "export all"}, d \in InDevices \cup {"none"} :
        InCall(t, call, d) /\ (call \in LooksFor => d \in InDevices)
  BY <1>1 DEF LooksFor
<1> DEFINE new == [ThreadAtRest EXCEPT !.at = "registry", !.call = call, !.device = d]
<1>3. /\ inThread[t] = ThreadAtRest /\ inThread' = [inThread EXCEPT ![t] = new]
      /\ UNCHANGED <<inStats, inRegistry, inRegistryLock, inNow>>
  BY <1>2 DEF InCall
<1>4. new \in ThreadSet /\ new.at = "registry" /\ new.call = call /\ new.device = d /\ inThread[t].at = "rest"
  <2>2. call \in {"error", "success", "export", "none", "clear", "clear all", "alerts", "export all"}
    BY DEF LooksFor
  <2>1. \A r \in ThreadSet : [r EXCEPT !.at = "registry", !.call = call, !.device = d] \in ThreadSet
                             /\ [r EXCEPT !.at = "registry", !.call = call, !.device = d].at = "registry"
                             /\ [r EXCEPT !.at = "registry", !.call = call, !.device = d].call = call
                             /\ [r EXCEPT !.at = "registry", !.call = call, !.device = d].device = d
    BY <2>2 DEF ThreadSet, LooksFor
  <2>3. inThread[t].at = "rest"
    BY <1>3, IdleAtRest
  <2> QED BY <2>1, <2>3, RestTyped
<1> HIDE DEF new
<1> QED BY <1>2, <1>3, <1>4, RegistryStays

LEMMA LookUpSteps ==
  ASSUME RegistryInv, NEW t \in InThreads, LooksUp(t) PROVE RegistryInv'
<1> DEFINE d   == inThread[t].device
           fresh == inRegistry[d] = 0
           of  == IF fresh THEN Len(inStats) + 1 ELSE inRegistry[d]
           new == [inThread[t] EXCEPT !.at = "stats", !.stats = of]
<1>1. /\ inThread[t].at = "registry" /\ inThread[t].call \in LooksFor /\ inRegistryLock = NoThread
      /\ inRegistry' = [inRegistry EXCEPT ![d] = of]
      /\ inStats' = IF fresh THEN Append(inStats, NewStats) ELSE inStats
      /\ inThread' = [inThread EXCEPT ![t] = new]
      /\ UNCHANGED <<inRegistryLock, inNow>>
  BY DEF LooksUp, TakesRegistry, LooksFor
<1>2. d \in InDevices /\ inStats \in Seq(StatsSet) /\ Len(inStats) \in Nat /\ inThread[t] \in ThreadSet
      /\ inRegistry[d] \in 0..Len(inStats)
  BY <1>1 DEF RegistryInv
<1>3. NewStats \in StatsSet /\ NewStats.holder = NoThread
  BY DEF NewStats, StatsSet
<1>4. inStats' \in Seq(StatsSet) /\ of \in 1..Len(inStats') /\ Len(inStats') >= Len(inStats)
  BY <1>1, <1>2, <1>3
<1>5. \A k \in 1..Len(inStats') : (k \in 1..Len(inStats) /\ inStats'[k] = inStats[k]) \/ inStats'[k] = NewStats
  BY <1>1, <1>2, <1>3
<1>9. \A k \in 1..Len(inStats) : k \in 1..Len(inStats') /\ inStats'[k] = inStats[k]
  BY <1>1, <1>2, <1>3
<1> HIDE DEF d, fresh
<1>6. inRegistry' \in [InDevices -> 0..Len(inStats')]
      /\ \A x, y \in InDevices : inRegistry'[x] = inRegistry'[y] /\ inRegistry'[x] # 0 => x = y
  <2>1. inRegistry \in [InDevices -> 0..Len(inStats)] /\ \A x, y \in InDevices : inRegistry[x] = inRegistry[y] /\ inRegistry[x] # 0 => x = y
    BY DEF RegistryInv
  <2>2. \A x \in InDevices : inRegistry'[x] = IF x = d THEN of ELSE inRegistry[x]
    BY <1>1, <2>1
  <2>3. \A x \in InDevices : inRegistry[x] \in 0..Len(inStats)
    BY <2>1
  <2>4. CASE fresh
    <3>1. of = Len(inStats) + 1
      BY <2>4
    <3> HIDE DEF of
    <3> QED BY <1>1, <1>2, <1>4, <2>1, <2>2, <2>3, <3>1
  <2>5. CASE ~fresh
    <3>1. of = inRegistry[d]
      BY <2>5
    <3>2. inRegistry' = inRegistry
      BY <1>1, <2>1, <3>1
    <3>3. 0..Len(inStats) \subseteq 0..Len(inStats')
      BY <1>4, <1>2
    <3> QED BY <2>1, <3>2, <3>3
  <2> QED BY <2>4, <2>5
<1>7. new \in ThreadSet /\ new.at = "stats" /\ new.stats = of
  <2>1. of \in Nat
    BY <1>4
  <2> HIDE DEF of
  <2> QED BY <1>2, <2>1 DEF ThreadSet
<1> HIDE DEF of, new
<1>8. inThread' \in [InThreads -> ThreadSet] /\ inThread'[t] = new /\ \A u \in InThreads : u # t => inThread'[u] = inThread[u]
  BY <1>1, <1>7 DEF RegistryInv
<1>10. ASSUME NEW u \in InThreads
      PROVE  /\ inThread'[u].at = "rest" => inThread'[u] = ThreadAtRest
             /\ inThread'[u].at = "registry" /\ inThread'[u].call \in LooksFor => inThread'[u].device \in InDevices
             /\ inThread'[u].at \in {"stats", "inside"} => inThread'[u].stats \in 1..Len(inStats')
             /\ inThread'[u].at = "inside" => inStats'[inThread'[u].stats].holder = u
             /\ inThread'[u].at = "devices" <=> inRegistryLock' = u
             /\ inThread'[u].at = "devices" => \A e \in inThread'[u].left : inRegistry'[e] # 0
  <2>1. CASE u = t
    BY <1>1, <1>4, <1>7, <1>8, <2>1, InAssumption
  <2>2. CASE u # t
    <3>1. inThread'[u] = inThread[u] /\ inThread[u].at # "devices" /\ inRegistryLock' # u
      BY <1>1, <1>8, <2>2, InAssumption DEF RegistryInv
    <3> QED BY <1>9, <3>1 DEF RegistryInv
  <2> QED BY <2>1, <2>2
<1>11. ASSUME NEW k \in 1..Len(inStats'), inStats'[k].holder # NoThread
      PROVE  inThread'[inStats'[k].holder].at = "inside" /\ inThread'[inStats'[k].holder].stats = k
  <2>1. k \in 1..Len(inStats) /\ inStats'[k] = inStats[k]
    BY <1>3, <1>5, <1>11
  <2>2. inThread[inStats[k].holder].at = "inside" /\ inThread[inStats[k].holder].stats = k
    BY <1>11, <2>1 DEF RegistryInv
  <2>3. inStats[k].holder \in InThreads
    <3>1. inStats[k] \in StatsSet
      BY <1>2, <2>1
    <3> QED BY <1>11, <2>1, <3>1 DEF StatsSet
  <2> QED BY <1>1, <1>8, <2>1, <2>2, <2>3
<1> QED BY <1>1, <1>4, <1>6, <1>8, <1>10, <1>11 DEF RegistryInv

LEMMA ClearSteps ==
  ASSUME RegistryInv, NEW t \in InThreads, Clears(t) PROVE RegistryInv'
<1>1. /\ inThread[t].at = "registry" /\ inRegistryLock = NoThread
      /\ inThread' = [inThread EXCEPT ![t] = ThreadAtRest] /\ UNCHANGED <<inStats, inRegistryLock, inNow>>
  BY DEF Clears, TakesRegistry
<1>2. /\ inRegistry' \in [InDevices -> 0..Len(inStats)]
      /\ \A d \in InDevices : inRegistry'[d] # 0 => inRegistry'[d] = inRegistry[d]
  <2>1. inRegistry \in [InDevices -> 0..Len(inStats)] /\ 0 \in 0..Len(inStats)
    BY DEF RegistryInv
  <2>2. inRegistry' = [d \in InDevices |-> IF inThread[t].call = "clear all" \/ d = inThread[t].device
                                         THEN 0 ELSE inRegistry[d]]
    BY DEF Clears
  <2> QED BY <2>1, <2>2
<1>3. inThread' \in [InThreads -> ThreadSet] /\ inThread'[t] = ThreadAtRest /\ \A u \in InThreads : u # t => inThread'[u] = inThread[u]
  BY <1>1, RestTyped DEF RegistryInv
<1>4. ThreadAtRest.at = "rest"
  BY DEF ThreadAtRest
<1>5. ASSUME NEW u \in InThreads
      PROVE  /\ inThread'[u].at = "rest" => inThread'[u] = ThreadAtRest
             /\ inThread'[u].at = "registry" /\ inThread'[u].call \in LooksFor => inThread'[u].device \in InDevices
             /\ inThread'[u].at \in {"stats", "inside"} => inThread'[u].stats \in 1..Len(inStats)
             /\ inThread'[u].at = "inside" => inStats[inThread'[u].stats].holder = u
             /\ inThread'[u].at # "devices" /\ inRegistryLock # u
  <2>1. inRegistryLock # u
    BY <1>1, InAssumption
  <2>2. CASE u = t
    BY <1>3, <1>4, <2>1, <2>2
  <2>3. CASE u # t
    BY <1>3, <2>1, <2>3 DEF RegistryInv
  <2> QED BY <2>2, <2>3
<1>6. ASSUME NEW k \in 1..Len(inStats), inStats[k].holder # NoThread
      PROVE  inThread'[inStats[k].holder].at = "inside" /\ inThread'[inStats[k].holder].stats = k
  <2>1. inStats[k].holder \in InThreads
    <3>1. inStats[k] \in StatsSet
      BY DEF RegistryInv
    <3> QED BY <1>6, <3>1 DEF StatsSet
  <2>2. inThread[inStats[k].holder].at = "inside" /\ inThread[inStats[k].holder].stats = k
    BY <1>6 DEF RegistryInv
  <2> QED BY <1>1, <1>3, <2>1, <2>2
<1> QED BY <1>1, <1>2, <1>3, <1>5, <1>6 DEF RegistryInv

(* A step that changes one device's statistics, and perhaps who holds them.  *)
LEMMA StatsChange ==
  ASSUME RegistryInv, NEW k \in 1..Len(inStats), NEW s \in StatsSet, NEW t \in InThreads, NEW new \in ThreadSet,
         inStats' = [inStats EXCEPT ![k] = s], inThread' = [inThread EXCEPT ![t] = new],
         UNCHANGED <<inRegistry, inRegistryLock, inNow>>,
         \/ inStats[k].holder = NoThread /\ s.holder = t /\ inThread[t].at = "stats" /\ new.at = "inside" /\ new.stats = k
         \/ inStats[k].holder = t /\ s.holder = NoThread /\ inThread[t].at = "inside" /\ new = ThreadAtRest
         \/ /\ s.holder = inStats[k].holder /\ inThread[t].at = "devices" /\ new.at = "devices"
            /\ \A d \in new.left : d \in inThread[t].left
  PROVE  RegistryInv'
<1>1. /\ inStats' \in Seq(StatsSet) /\ Len(inStats') = Len(inStats) /\ inStats'[k] = s
      /\ \A j \in 1..Len(inStats) : j # k => inStats'[j] = inStats[j]
  BY DEF RegistryInv
<1>2. inThread' \in [InThreads -> ThreadSet] /\ inThread'[t] = new /\ \A u \in InThreads : u # t => inThread'[u] = inThread[u]
  BY DEF RegistryInv
<1>3. ThreadAtRest.at = "rest"
  BY DEF ThreadAtRest
<1>4. ASSUME NEW j \in 1..Len(inStats), inStats[j].holder # NoThread
      PROVE  inStats[j].holder \in InThreads /\ inThread[inStats[j].holder].at = "inside" /\ inThread[inStats[j].holder].stats = j
  <2>1. inStats[j] \in StatsSet
    BY DEF RegistryInv
  <2> QED BY <1>4, <2>1 DEF RegistryInv, StatsSet
<1>5. ASSUME NEW u \in InThreads
      PROVE  /\ inThread'[u].at = "rest" => inThread'[u] = ThreadAtRest
             /\ inThread'[u].at = "registry" /\ inThread'[u].call \in LooksFor => inThread'[u].device \in InDevices
             /\ inThread'[u].at \in {"stats", "inside"} => inThread'[u].stats \in 1..Len(inStats)
             /\ inThread'[u].at = "inside" => inStats'[inThread'[u].stats].holder = u
             /\ inThread'[u].at = "devices" <=> inRegistryLock = u
             /\ inThread'[u].at = "devices" => \A d \in inThread'[u].left : inRegistry[d] # 0
  <2>1. CASE u = t
    BY <1>1, <1>2, <1>3, <2>1 DEF RegistryInv
  <2>2. CASE u # t
    <3>1. inThread'[u] = inThread[u]
      BY <1>2, <2>2
    <3>2. inThread[u].at = "inside" => inThread[u].stats \in 1..Len(inStats) /\ inStats[inThread[u].stats].holder = u
      BY DEF RegistryInv
    <3>3. inThread[u].at = "inside" => inStats'[inThread[u].stats].holder = u
      <4>1. CASE inThread[u].at = "inside" /\ inThread[u].stats = k
        <5>1. inStats[k].holder = u
          BY <3>2, <4>1
        <5> QED BY <1>1, <2>2, <4>1, <5>1, InAssumption
      <4> QED BY <1>1, <3>2, <4>1
    <3> QED BY <3>1, <3>3 DEF RegistryInv
  <2> QED BY <2>1, <2>2
<1>6. ASSUME NEW j \in 1..Len(inStats), inStats'[j].holder # NoThread
      PROVE  inThread'[inStats'[j].holder].at = "inside" /\ inThread'[inStats'[j].holder].stats = j
  <2>1. CASE j = k /\ s.holder = t
    BY <1>1, <1>2, <1>6, <2>1, <1>4, InAssumption
  <2>2. CASE j = k /\ s.holder = inStats[k].holder
    BY <1>1, <1>2, <1>4, <1>6, <2>2, InAssumption
  <2>3. CASE j = k /\ s.holder = NoThread
    BY <1>1, <1>6, <2>3
  <2>4. CASE j # k
    <3>1. inStats'[j] = inStats[j]
      BY <1>1, <2>4
    <3>2. inStats[j].holder \in InThreads /\ inThread[inStats[j].holder].at = "inside" /\ inThread[inStats[j].holder].stats = j
      BY <1>4, <1>6, <3>1
    <3>3. inStats[j].holder # t
      <4>1. inThread[t].at = "inside" => inThread[t].stats \in 1..Len(inStats) /\ inStats[inThread[t].stats].holder = t
        BY DEF RegistryInv
      <4>2. SUFFICES ASSUME inStats[j].holder = t PROVE FALSE
        OBVIOUS
      <4>3. inThread[t].at = "inside" /\ inThread[t].stats = j
        BY <3>2, <4>2
      <4>4. inStats[k].holder = t
        BY <4>3
      <4>5. inThread[t].stats = k
        BY <1>4, <4>4, InAssumption
      <4> QED BY <2>4, <4>3, <4>5
    <3> QED BY <1>2, <3>1, <3>2, <3>3
  <2> QED BY <2>1, <2>2, <2>3, <2>4
<1> QED BY <1>1, <1>2, <1>5, <1>6 DEF RegistryInv

LEMMA TakeSteps ==
  ASSUME RegistryInv, NEW t \in InThreads, TakesStats(t) PROVE RegistryInv'
<1> DEFINE k   == inThread[t].stats
           s   == [inStats[k] EXCEPT !.holder = t]
           new == [inThread[t] EXCEPT !.at = "inside"]
<1>1. /\ inThread[t].at = "stats" /\ inStats[k].holder = NoThread /\ UNCHANGED <<inRegistry, inRegistryLock, inNow>>
      /\ inStats' = [inStats EXCEPT ![k] = s] /\ inThread' = [inThread EXCEPT ![t] = new]
  BY DEF TakesStats
<1>2. k \in 1..Len(inStats) /\ inStats[k] \in StatsSet /\ inThread[t] \in ThreadSet
  BY <1>1 DEF RegistryInv
<1>3. s \in StatsSet /\ s.holder = t
  BY <1>2 DEF StatsSet
<1>4. new \in ThreadSet /\ new.at = "inside" /\ new.stats = k
  BY <1>2 DEF ThreadSet
<1> HIDE DEF k, s, new
<1> QED BY <1>1, <1>2, <1>3, <1>4, StatsChange

LEMMA UpdateSteps ==
  ASSUME RegistryInv, NEW t \in InThreads, Updates(t) PROVE RegistryInv'
<1> DEFINE k == inThread[t].stats
           a == After(inStats[k], inThread[t].call)
           s == [a EXCEPT !.holder = NoThread]
<1>1. /\ inThread[t].at = "inside" /\ UNCHANGED <<inRegistry, inRegistryLock, inNow>>
      /\ inStats' = [inStats EXCEPT ![k] = s] /\ inThread' = [inThread EXCEPT ![t] = ThreadAtRest]
  BY DEF Updates
<1>2. k \in 1..Len(inStats) /\ inStats[k] \in StatsSet /\ inStats[k].holder = t /\ inNow \in Nat
  BY <1>1 DEF RegistryInv
<1>3. a \in StatsSet
  BY <1>2, AfterTyped
<1> HIDE DEF a
<1>4. s \in StatsSet /\ s.holder = NoThread
  BY <1>3 DEF StatsSet
<1> HIDE DEF k, s
<1> QED BY <1>1, <1>2, <1>4, RestTyped, StatsChange

LEMMA AlertsBeginSteps ==
  ASSUME RegistryInv, NEW t \in InThreads, AlertsBegin(t) PROVE RegistryInv'
<1> DEFINE new == [inThread[t] EXCEPT !.at = "devices", !.left = {d \in InDevices : inRegistry[d] # 0}]
<1>1. /\ inThread[t].at = "registry" /\ inRegistryLock = NoThread /\ inRegistryLock' = t /\ inThread' = [inThread EXCEPT ![t] = new]
      /\ UNCHANGED <<inRegistry, inStats, inNow>>
  BY DEF AlertsBegin, TakesRegistry
<1>2. new \in ThreadSet /\ new.at = "devices" /\ \A d \in new.left : inRegistry[d] # 0
  <2>1. inThread[t] \in ThreadSet
    BY DEF RegistryInv
  <2> QED BY <2>1 DEF ThreadSet
<1> HIDE DEF new
<1>3. inThread' \in [InThreads -> ThreadSet] /\ inThread'[t] = new /\ \A u \in InThreads : u # t => inThread'[u] = inThread[u]
  BY <1>1, <1>2 DEF RegistryInv
<1>4. ASSUME NEW u \in InThreads
      PROVE  /\ inThread'[u].at = "rest" => inThread'[u] = ThreadAtRest
             /\ inThread'[u].at = "registry" /\ inThread'[u].call \in LooksFor => inThread'[u].device \in InDevices
             /\ inThread'[u].at \in {"stats", "inside"} => inThread'[u].stats \in 1..Len(inStats)
             /\ inThread'[u].at = "inside" => inStats[inThread'[u].stats].holder = u
             /\ inThread'[u].at = "devices" <=> t = u
             /\ inThread'[u].at = "devices" => \A d \in inThread'[u].left : inRegistry[d] # 0
  <2>1. CASE u = t
    BY <1>2, <1>3, <2>1
  <2>2. CASE u # t
    <3>1. inThread[u].at # "devices"
      BY <1>1, InAssumption DEF RegistryInv
    <3> QED BY <1>3, <2>2, <3>1 DEF RegistryInv
  <2> QED BY <2>1, <2>2
<1>5. ASSUME NEW k \in 1..Len(inStats), inStats[k].holder # NoThread
      PROVE  inThread'[inStats[k].holder].at = "inside" /\ inThread'[inStats[k].holder].stats = k
  <2>1. inStats[k].holder \in InThreads
    <3>1. inStats[k] \in StatsSet
      BY DEF RegistryInv
    <3> QED BY <1>5, <3>1 DEF StatsSet
  <2>2. inThread[inStats[k].holder].at = "inside" /\ inThread[inStats[k].holder].stats = k
    BY <1>5 DEF RegistryInv
  <2> QED BY <1>1, <1>3, <2>1, <2>2
<1> QED BY <1>1, <1>3, <1>4, <1>5 DEF RegistryInv

LEMMA AlertsAskSteps ==
  ASSUME RegistryInv, NEW t \in InThreads, AlertsAsk(t) PROVE RegistryInv'
<1>1. PICK d \in inThread[t].left :
        /\ inThread[t].at = "devices" /\ inStats[inRegistry[d]].holder = NoThread
        /\ inStats' = [inStats EXCEPT ![inRegistry[d]].windows = IF inThread[t].call = "alerts" THEN Kept(@, inNow) ELSE @]
        /\ inThread' = [inThread EXCEPT ![t].left = @ \ {d},
              ![t].alerts = IF inThread[t].call = "alerts" /\ Exceeds(inStats[inRegistry[d]].windows, inNow) THEN @ \cup {d} ELSE @]
        /\ UNCHANGED <<inRegistry, inRegistryLock, inNow>>
  BY DEF AlertsAsk
<1> DEFINE k   == inRegistry[d]
           w   == IF inThread[t].call = "alerts" THEN Kept(inStats[k].windows, inNow) ELSE inStats[k].windows
           s   == [inStats[k] EXCEPT !.windows = w]
           al  == IF inThread[t].call = "alerts" /\ Exceeds(inStats[k].windows, inNow) THEN inThread[t].alerts \cup {d} ELSE inThread[t].alerts
           new == [inThread[t] EXCEPT !.left = @ \ {d}, !.alerts = al]
<1>2. inThread[t] \in ThreadSet /\ d \in InDevices
  <2>1. inThread[t] \in ThreadSet
    BY DEF RegistryInv
  <2> QED BY <2>1 DEF ThreadSet
<1>3. k \in 1..Len(inStats) /\ inStats[k] \in StatsSet /\ inNow \in Nat
  <2>1. k # 0 /\ k \in 0..Len(inStats)
    BY <1>1, <1>2 DEF RegistryInv
  <2>2. k \in 1..Len(inStats)
    BY <2>1
  <2> QED BY <2>2 DEF RegistryInv
<1>4. inStats' = [inStats EXCEPT ![k] = s]
  BY <1>1
<1>5. inThread' = [inThread EXCEPT ![t] = new]
  BY <1>1
<1>6. w \in Seq(Window)
  <2>1. inStats[k].windows \in Seq(Window)
    BY <1>3 DEF StatsSet
  <2> QED BY <1>3, <2>1, KeptTyped
<1>7. s \in StatsSet /\ s.holder = inStats[k].holder
  <2> HIDE DEF w
  <2> QED BY <1>3, <1>6 DEF StatsSet
<1>8. new \in ThreadSet /\ new.at = "devices" /\ \A e \in new.left : e \in inThread[t].left
  <2>1. al \in SUBSET InDevices
    BY <1>2 DEF ThreadSet
  <2> HIDE DEF al
  <2> QED BY <1>1, <1>2, <2>1 DEF ThreadSet
<1>9. inThread[t].at = "devices" /\ UNCHANGED <<inRegistry, inRegistryLock, inNow>>
  BY <1>1
<1> HIDE DEF k, w, s, al, new
<1> QED BY <1>3, <1>4, <1>5, <1>7, <1>8, <1>9, StatsChange

LEMMA AlertsEndSteps ==
  ASSUME RegistryInv, NEW t \in InThreads, AlertsEnd(t) PROVE RegistryInv'
<1>1. /\ inThread[t].at = "devices" /\ inRegistryLock' = NoThread /\ inThread' = [inThread EXCEPT ![t] = ThreadAtRest]
      /\ UNCHANGED <<inRegistry, inStats, inNow>>
  BY DEF AlertsEnd
<1>2. inThread' \in [InThreads -> ThreadSet] /\ inThread'[t] = ThreadAtRest /\ \A u \in InThreads : u # t => inThread'[u] = inThread[u]
  BY <1>1, RestTyped DEF RegistryInv
<1>3. ThreadAtRest.at = "rest"
  BY DEF ThreadAtRest
<1>4. ASSUME NEW u \in InThreads
      PROVE  /\ inThread'[u].at = "rest" => inThread'[u] = ThreadAtRest
             /\ inThread'[u].at = "registry" /\ inThread'[u].call \in LooksFor => inThread'[u].device \in InDevices
             /\ inThread'[u].at \in {"stats", "inside"} => inThread'[u].stats \in 1..Len(inStats)
             /\ inThread'[u].at = "inside" => inStats[inThread'[u].stats].holder = u
             /\ inThread'[u].at # "devices" /\ NoThread # u
  <2>1. CASE u = t
    BY <1>2, <1>3, <2>1, InAssumption
  <2>2. CASE u # t
    <3>1. inThread[u].at # "devices"
      BY <1>1, <2>2 DEF RegistryInv
    <3> QED BY <1>2, <2>2, <3>1, InAssumption DEF RegistryInv
  <2> QED BY <2>1, <2>2
<1>5. ASSUME NEW k \in 1..Len(inStats), inStats[k].holder # NoThread
      PROVE  inThread'[inStats[k].holder].at = "inside" /\ inThread'[inStats[k].holder].stats = k
  <2>1. inStats[k].holder \in InThreads
    <3>1. inStats[k] \in StatsSet
      BY DEF RegistryInv
    <3> QED BY <1>5, <3>1 DEF StatsSet
  <2>2. inThread[inStats[k].holder].at = "inside" /\ inThread[inStats[k].holder].stats = k
    BY <1>5 DEF RegistryInv
  <2> QED BY <1>1, <1>2, <2>1, <2>2
<1> QED BY <1>1, <1>2, <1>4, <1>5 DEF RegistryInv

LEMMA RegistrySteps == RegistryInv /\ [InNext]_inVars => RegistryInv'
<1> SUFFICES ASSUME RegistryInv, [InNext]_inVars PROVE RegistryInv'
  OBVIOUS
<1>1. CASE UNCHANGED <<inRegistry, inStats, inRegistryLock, inThread, inNow>>
  BY <1>1 DEF RegistryInv
<1>2. CASE InTick
  BY <1>2 DEF InTick, RegistryInv
<1>3. CASE StartsCall
  BY <1>3, CallBegins
<1>4. ASSUME NEW t \in InThreads, \/ LooksUp(t) \/ Clears(t) \/ TakesStats(t) \/ Updates(t)
                                 \/ AlertsBegin(t) \/ AlertsAsk(t) \/ AlertsEnd(t)
      PROVE  RegistryInv'
  BY <1>4, LookUpSteps, ClearSteps, TakeSteps, UpdateSteps, AlertsBeginSteps, AlertsAskSteps, AlertsEndSteps
<1> QED BY <1>1, <1>2, <1>3, <1>4 DEF InNext, inVars, RecordUplink, RecordDownlink, MakeReport

-----------------------------------------------------------------------------
(* The windows of the errors and what they count.                           *)

LEMMA ProductGrows ==
  ASSUME NEW a \in Nat, NEW x \in Int, NEW y \in Int, x <= y PROVE a * x <= a * y
<1>1. a * (y - x) >= 0
  OBVIOUS
<1>2. a * (y - x) = a * y - a * x
  OBVIOUS
<1> QED BY <1>1, <1>2

LEMMA SpansAdd ==
  ASSUME NEW now \in Nat, NEW last \in Nat, NEW at \in Nat, NEW window \in Nat, NEW a \in Int,
         now - last >= window, last - at >= a, NEW b, b = a + window
  PROVE  now - at >= b
OBVIOUS

(* The total of windows is that up to the last one.                         *)
SumStep(f, w, k) == IF k = 0 THEN 0 ELSE f[k - 1] + w[k].n
Sums(f, w, last) == f = [k \in 0..last |-> SumStep(f, w, k)]

LEMMA SumsExist ==
  ASSUME NEW w, NEW last \in Nat PROVE \E f : Sums(f, w, last)
<1> DEFINE S == {n \in Nat : ~\E f : Sums(f, w, n)}
<1>1. SUFFICES ASSUME S # {} PROVE FALSE
  OBVIOUS
<1>2. PICK m \in S : \A y \in S : m <= y
  BY <1>1, LeastOne
<1>3. CASE m = 0
  <2> DEFINE f == [n \in 0..0 |-> 0]
  <2>1. \A n \in 0..0 : SumStep(f, w, n) = 0
    BY DEF SumStep
  <2>2. Sums(f, w, 0)
    BY <2>1 DEF Sums
  <2> QED BY <1>2, <1>3, <2>2
<1>4. CASE m # 0
  <2>1. m - 1 \in Nat /\ m - 1 \notin S /\ m \in Nat /\ ~\E f : Sums(f, w, m)
    BY <1>2, <1>4
  <2>2. PICK f : Sums(f, w, m - 1)
    BY <2>1
  <2> DEFINE g == [n \in 0..m |-> IF n = m THEN SumStep(f, w, m) ELSE f[n]]
  <2>3. ASSUME NEW n \in 0..m PROVE g[n] = SumStep(g, w, n)
    <3>1. n # 0 => g[n - 1] = f[n - 1]
      BY <2>1
    <3>2. SumStep(g, w, n) = SumStep(f, w, n)
      <4> HIDE DEF g
      <4> QED BY <3>1 DEF SumStep
    <3>3. CASE n = m
      BY <3>2, <3>3
    <3>4. CASE n # m
      <4>1. n \in 0..m - 1 /\ g[n] = f[n]
        BY <2>1, <3>4
      <4>2. f[n] = SumStep(f, w, n)
        BY <2>2, <4>1 DEF Sums
      <4> QED BY <3>2, <4>1, <4>2
    <3> QED BY <3>3, <3>4
  <2>4. g = [n \in 0..m |-> g[n]]
    OBVIOUS
  <2> HIDE DEF g
  <2>5. Sums(g, w, m)
    BY <2>3, <2>4 DEF Sums
  <2> QED BY <2>1, <2>5
<1> QED BY <1>3, <1>4

(* The errors in a window; windows that are apart hold different ones.       *)
InWindowOf(x, errors) == {e \in DOMAIN errors : x.at <= errors[e] /\ errors[e] < x.at + InWindow}
Apart(w)   == \A i, j \in DOMAIN w : i <= j => w[j].at - w[i].at >= InWindow * (j - i)
CountsErrors(w, errors) == \A i \in DOMAIN w : w[i].n = Cardinality(InWindowOf(w[i], errors))
InSomeWindow(w, errors) == UNION {InWindowOf(w[i], errors) : i \in DOMAIN w}

LEMMA TotalCounts ==
  ASSUME NEW w \in Seq(Window), NEW errors \in Seq(Nat), Apart(w), CountsErrors(w, errors)
  PROVE  Total(w) = Cardinality(InSomeWindow(w, errors)) /\ IsFiniteSet(InSomeWindow(w, errors))
<1> DEFINE last == Len(w)
<1>1. last \in Nat /\ DOMAIN w = 1..last /\ IsFiniteSet(DOMAIN errors)
  <2>1. DOMAIN errors = 1..Len(errors) /\ Len(errors) \in Nat
    OBVIOUS
  <2> QED BY <2>1, FS_Interval
<1>2. PICK f : Sums(f, w, last)
  BY <1>1, SumsExist
<1>3. Total(w) = (CHOOSE h : Sums(h, w, last))[last]
  BY DEF Total, Sums, SumStep
<1> DEFINE h == CHOOSE h : Sums(h, w, last)
<1>4. Sums(h, w, last)
  BY <1>2
<1>5. Total(w) = h[last]
  BY <1>3
<1> HIDE DEF h
<1>6. \A n \in 0..last : h[n] = SumStep(h, w, n)
  BY <1>4 DEF Sums
<1> DEFINE Upto(n) == UNION {InWindowOf(w[i], errors) : i \in 1..n}
           Good(n) == h[n] = Cardinality(Upto(n)) /\ IsFiniteSet(Upto(n)) /\ h[n] \in Nat
           S == {n \in 0..last : ~Good(n)}
<1>7. S = {}
  <2> SUFFICES ASSUME S # {} PROVE FALSE
    OBVIOUS
  <2>1. PICK m \in S : \A y \in S : m <= y
    <3>1. S \in SUBSET Nat
      BY <1>1
    <3> QED BY <3>1, LeastOne
  <2>2. CASE m = 0
    <3>1. h[0] = 0 /\ Upto(0) = {}
      BY <1>1, <1>6 DEF SumStep
    <3>2. Cardinality({}) = 0 /\ IsFiniteSet({})
      BY FS_EmptySet
    <3>3. Good(0)
      <4> HIDE DEF Upto
      <4>1. Cardinality(Upto(0)) = 0 /\ IsFiniteSet(Upto(0))
        BY <3>1, <3>2
      <4>2. h[0] \in Nat /\ h[0] = Cardinality(Upto(0))
        BY <3>1, <4>1
      <4> QED BY <4>1, <4>2
    <3> QED BY <2>1, <2>2, <3>3
  <2>3. CASE m # 0
    <3>0. m \in 0..last
      BY <2>1
    <3>1. m - 1 \notin S
      <4> HIDE DEF S
      <4> QED BY <1>1, <2>1, <3>0
    <3>2. m - 1 \in 0..last /\ m \in 1..last
      <4> HIDE DEF S
      <4> QED BY <1>1, <2>3, <3>0
    <3>3. Good(m - 1)
      BY <3>1, <3>2
    <3>4. h[m] = h[m - 1] + w[m].n
      BY <1>6, <2>3, <3>2 DEF SumStep
    <3> DEFINE A == Upto(m - 1)
               B == InWindowOf(w[m], errors)
    <3>5. Upto(m) = A \cup B
      BY <3>2
    <3>6. A \cap B = {}
      <4> SUFFICES ASSUME NEW e \in A, e \in B PROVE FALSE
        OBVIOUS
      <4>1. PICK i \in 1..m - 1 : e \in InWindowOf(w[i], errors)
        OBVIOUS
      <4>2. i \in DOMAIN w /\ m \in DOMAIN w /\ i <= m /\ m - i >= 1
        BY <1>1, <3>2
      <4>3. w[m].at - w[i].at >= InWindow * (m - i)
        BY <4>2 DEF Apart
      <4>4. InWindow * (m - i) >= InWindow * 1
        <5> DEFINE apart == m - i
        <5>1. apart \in Int /\ 1 <= apart
          BY <4>2, <3>2
        <5>2. InWindow \in Nat
          BY InAssumption
        <5> HIDE DEF apart
        <5>3. InWindow * 1 <= InWindow * apart /\ InWindow * apart \in Int
          BY <5>1, <5>2, ProductGrows
        <5> QED BY <5>2, <5>3 DEF apart
      <4>5. w[m].at \in Nat /\ w[i].at \in Nat /\ InWindow \in Nat
        <5>1. w[m] \in Window /\ w[i] \in Window
          BY <4>2
        <5> QED BY <5>1, InAssumption DEF Window
      <4>6. errors[e] \in Nat /\ errors[e] < w[i].at + InWindow /\ w[m].at <= errors[e]
        BY <4>1 DEF InWindowOf
      <4>7. InWindow * (m - i) \in Int /\ InWindow * 1 = InWindow
        BY <4>2, <3>2, InAssumption
      <4>8. InWindow * (m - i) >= InWindow
        BY <4>4, <4>7
      <4> DEFINE far == InWindow * (m - i)
      <4>9. far \in Int /\ far >= InWindow /\ w[m].at - w[i].at >= far
        BY <4>3, <4>7, <4>8
      <4> HIDE DEF A, B, far
      <4> QED BY <4>5, <4>6, <4>9
    <3>7. IsFiniteSet(B) /\ B \in SUBSET DOMAIN errors
      BY <1>1, FS_Subset DEF InWindowOf
    <3>8. w[m].n = Cardinality(B)
      BY <1>1, <3>2 DEF CountsErrors
    <3>9. IsFiniteSet(A) /\ h[m - 1] = Cardinality(A)
      BY <3>3
    <3>10. Good(m)
      <4> HIDE DEF A, B
      <4>1. IsFiniteSet(A \cup B) /\ Cardinality(A \cup B) = Cardinality(A) + Cardinality(B) - Cardinality(A \cap B)
        BY <3>7, <3>9, FS_Union
      <4>2. Cardinality(A \cap B) = 0
        BY <3>6, FS_EmptySet
      <4>3. Cardinality(A) \in Nat /\ Cardinality(B) \in Nat
        BY <3>7, <3>9, FS_CardinalityType
      <4>4. h[m] = Cardinality(A \cup B) /\ h[m] \in Nat
        BY <3>4, <3>8, <3>9, <4>1, <4>2, <4>3
      <4> HIDE DEF Upto
      <4> QED BY <3>5, <4>1, <4>4
    <3> QED BY <2>1, <3>10
  <2> QED BY <2>2, <2>3
<1>8. Good(last) /\ Upto(last) = InSomeWindow(w, errors)
  <2>1. last \in 0..last /\ last \notin S
    <3> HIDE DEF S
    <3> QED BY <1>1, <1>7
  <2> QED BY <1>1, <2>1 DEF InSomeWindow
<1> QED BY <1>5, <1>8

(* The windows of one device at some time: they are apart and begun, as many *)
(* as the limit at most, each counts its errors, and an error in none of     *)
(* them is older than all the windows but one.                              *)
WellCounted(w, errors, now) ==
  /\ Apart(w) /\ CountsErrors(w, errors) /\ Len(w) <= InMaxWindows
  /\ \A i \in DOMAIN w : w[i].at <= now
  /\ \A e \in DOMAIN errors : errors[e] <= now
  /\ \A e \in DOMAIN errors : e \notin InSomeWindow(w, errors) => now - errors[e] > InWindow * (InMaxWindows - 1)
CountedInv == \A k \in 1..Len(inStats) : WellCounted(inStats[k].windows, inStats[k].errors, inNow)

LEMMA SpanGrows == InWindow * (InMaxWindows - 1) = InWindow * InMaxWindows - InWindow
                   /\ InWindow * (InMaxWindows - 1) >= 0 /\ InWindow * InMaxWindows \in Nat
<1>1. InWindow \in Nat \ {0} /\ InMaxWindows \in Nat \ {0}
  BY InAssumption
<1>2. InMaxWindows - 1 \in Nat
  BY <1>1
<1>3. InWindow * (InMaxWindows - 1) = InWindow * InMaxWindows - InWindow
  BY <1>1
<1>4. InWindow * 0 <= InWindow * (InMaxWindows - 1)
  BY <1>1, <1>2, ProductGrows
<1>5. InWindow * 0 <= InWindow * InMaxWindows
  BY <1>1, <1>2, ProductGrows
<1>6. InWindow * 0 = 0 /\ InWindow * InMaxWindows \in Int
  BY <1>1
<1> QED BY <1>1, <1>3, <1>4, <1>5, <1>6

LEMMA LaterThan ==
  ASSUME NEW now \in Int, NEW at \in Int, NEW e \in Int, NEW a \in Int, NEW b \in Int, NEW w \in Int,
         ~(now - at < a), b = a - w, e < at + w
  PROVE  now - e > b
OBVIOUS

LEMMA KeptCounted ==
  ASSUME NEW w \in Seq(Window), NEW errors \in Seq(Nat), NEW now \in Nat, WellCounted(w, errors, now)
  PROVE  /\ WellCounted(Kept(w, now), errors, now)
         /\ \A i \in DOMAIN Kept(w, now) : now - Kept(w, now)[i].at < InWindow * InMaxWindows
<1> DEFINE P == {i \in DOMAIN w : now - w[i].at < InWindow * InMaxWindows}
           young == Chosen(w, P)
<1>1. P \in SUBSET (1..Len(w)) /\ DOMAIN w = 1..Len(w)
  OBVIOUS
<1>2. young \in Seq(Window) /\ ReadsAt(young, w, P) /\ IsFiniteSet(P)
  BY <1>1, ChosenRead
<1>3. PICK pos : Positions(P, pos) /\ Len(young) = Cardinality(P) /\ \A i \in 1..Cardinality(P) : young[i] = w[pos[i]]
  BY <1>2 DEF ReadsAt
<1> DEFINE c == Len(young)
<1>4. c \in Nat /\ DOMAIN young = 1..c
  BY <1>2
<1>5. ASSUME NEW i \in 1..c PROVE pos[i] \in P /\ pos[i] \in 1..Len(w) /\ young[i] = w[pos[i]]
  BY <1>1, <1>3 DEF Positions
<1> DEFINE drop == IF Len(young) > InMaxWindows THEN Len(young) - InMaxWindows ELSE 0
<1>6. Kept(w, now) = SubSeq(young, drop + 1, Len(young))
  BY DEF Kept
<1>7. \A i \in 1..c : now - young[i].at < InWindow * InMaxWindows
  BY <1>5
<1> HIDE DEF young, P, drop
<1>8. \A i \in 1..c : young[i] \in Window /\ young[i].at \in Nat
  <2> SUFFICES ASSUME NEW i \in 1..c PROVE young[i] \in Window /\ young[i].at \in Nat
    OBVIOUS
  <2>1. young[i] \in Window
    BY <1>2, <1>4
  <2> QED BY <2>1 DEF Window
<1>9. InWindow \in Nat /\ InMaxWindows \in Nat /\ InWindow # 0 /\ InMaxWindows # 0
  BY InAssumption
<1>10. Apart(young)
  <2> SUFFICES ASSUME NEW i \in 1..c, NEW j \in 1..c, i <= j PROVE young[j].at - young[i].at >= InWindow * (j - i)
    BY <1>4 DEF Apart
  <2>1. pos[j] - pos[i] >= j - i /\ pos[i] \in Nat /\ pos[j] \in Nat
    <3>1. pos[i] \in Nat /\ pos[j] \in Nat
      BY <1>5
    <3>2. CASE i = j
      BY <3>1, <3>2
    <3>3. CASE i < j
      BY <1>3, <3>1, <3>3 DEF Positions
    <3> QED BY <3>1, <3>2, <3>3, <1>4
  <2>2. pos[i] <= pos[j]
    BY <2>1, <1>4
  <2>3. w[pos[j]].at - w[pos[i]].at >= InWindow * (pos[j] - pos[i])
    BY <1>1, <1>5, <2>2 DEF WellCounted, Apart
  <2>4. InWindow * (j - i) <= InWindow * (pos[j] - pos[i])
    <3>1. j - i \in Int /\ pos[j] - pos[i] \in Int
      BY <2>1, <1>4
    <3> QED BY <1>9, <2>1, <3>1, ProductGrows
  <2>5. young[j].at - young[i].at >= InWindow * (pos[j] - pos[i])
    BY <1>5, <2>3
  <2> DEFINE a == InWindow * (j - i)
             b == InWindow * (pos[j] - pos[i])
  <2>6. a \in Int /\ b \in Int
    BY <1>4, <1>9, <2>1
  <2>7. a <= b /\ young[j].at - young[i].at >= b /\ young[j].at - young[i].at \in Int
    BY <2>4, <2>5, <1>8
  <2> HIDE DEF a, b
  <2>8. young[j].at - young[i].at >= a
    BY <2>6, <2>7
  <2> QED BY <2>8 DEF a
<1>11. \A i \in 1..c : young[i].at <= now
  BY <1>1, <1>5 DEF WellCounted
<1>12. c <= InMaxWindows
  <2> SUFFICES ASSUME c > InMaxWindows PROVE FALSE
    BY <1>4, <1>9
  <2>1. 1 \in 1..c /\ c \in 1..c /\ c - 1 >= InMaxWindows /\ c - 1 \in Int
    BY <1>4, <1>9
  <2>2. young[c].at - young[1].at >= InWindow * (c - 1)
    BY <1>4, <1>10, <2>1 DEF Apart
  <2>3. InWindow * InMaxWindows <= InWindow * (c - 1)
    <3>1. InMaxWindows \in Int /\ InMaxWindows <= c - 1
      BY <1>9, <2>1
    <3> QED BY <1>9, <2>1, <3>1, ProductGrows
  <2>4. now - young[1].at < InWindow * InMaxWindows /\ young[c].at <= now
    BY <1>7, <1>11, <2>1
  <2> DEFINE a == InWindow * InMaxWindows
             b == InWindow * (c - 1)
  <2>5. a \in Int /\ b \in Int /\ young[1].at \in Nat /\ young[c].at \in Nat
    BY <1>8, <1>9, <2>1
  <2>6. a <= b /\ now - young[1].at < a /\ young[c].at <= now /\ young[c].at - young[1].at >= b
    BY <2>2, <2>3, <2>4
  <2> HIDE DEF a, b
  <2> QED BY <2>5, <2>6
<1>13. Kept(w, now) = young
  <2>1. drop = 0
    <3>1. ~(Len(young) > InMaxWindows)
      BY <1>12, <1>4, <1>9
    <3> QED BY <3>1 DEF drop
  <2>2. Kept(w, now) = SubSeq(young, 1, Len(young))
    BY <1>6, <2>1
  <2> QED BY <1>2, <2>2
<1>14. \A i \in 1..c : young[i].n = Cardinality(InWindowOf(young[i], errors))
  BY <1>1, <1>5 DEF WellCounted, CountsErrors
<1>15. ASSUME NEW e \in DOMAIN errors, e \notin InSomeWindow(young, errors)
       PROVE  now - errors[e] > InWindow * (InMaxWindows - 1)
  <2>1. CASE e \notin InSomeWindow(w, errors)
    BY <2>1 DEF WellCounted
  <2>2. CASE e \in InSomeWindow(w, errors)
    <3>1. PICK i \in 1..Len(w) : e \in InWindowOf(w[i], errors)
      BY <1>1, <2>2 DEF InSomeWindow
    <3>2. i \notin P
      <4> SUFFICES ASSUME i \in P PROVE FALSE
        OBVIOUS
      <4>1. PICK k \in 1..c : pos[k] = i
        BY <1>3 DEF Positions
      <4>2. e \in InWindowOf(young[k], errors)
        BY <1>5, <3>1, <4>1
      <4> QED BY <1>4, <1>15, <4>2 DEF InSomeWindow
    <3>3. ~(now - w[i].at < InWindow * InMaxWindows)
      BY <1>1, <3>2 DEF P
    <3>4. errors[e] \in Nat /\ errors[e] < w[i].at + InWindow
      BY <3>1 DEF InWindowOf
    <3>5. w[i].at \in Nat
      <4>1. w[i] \in Window
        BY <1>1
      <4> QED BY <4>1 DEF Window
    <3> DEFINE a == InWindow * InMaxWindows
               b == InWindow * (InMaxWindows - 1)
    <3>6. a \in Nat /\ b = a - InWindow /\ ~(now - w[i].at < a)
      BY <3>3, SpanGrows
    <3> HIDE DEF a, b
    <3>7. now - errors[e] > b
      <4> DEFINE at  == w[i].at
                 err == errors[e]
      <4>1. now \in Int /\ at \in Int /\ err \in Int /\ InWindow \in Int /\ a \in Int /\ b \in Int
        BY <1>9, <3>4, <3>5, <3>6
      <4>2. ~(now - at < a) /\ b = a - InWindow /\ err < at + InWindow
        BY <3>4, <3>6
      <4> HIDE DEF at, err
      <4>3. now - err > b
        BY <4>1, <4>2, LaterThan
      <4> QED BY <4>3 DEF err
    <3> QED BY <3>7 DEF b
  <2> QED BY <2>1, <2>2
<1>16. \A e \in DOMAIN errors : errors[e] <= now
  BY DEF WellCounted
<1>17. WellCounted(young, errors, now)
  BY <1>4, <1>10, <1>11, <1>12, <1>14, <1>15, <1>16 DEF WellCounted, CountsErrors
<1> QED BY <1>4, <1>7, <1>13, <1>17

LEMMA CountedLater ==
  ASSUME NEW w \in Seq(Window), NEW errors \in Seq(Nat), NEW now \in Nat, WellCounted(w, errors, now),
         NEW later \in Nat, now <= later
  PROVE  WellCounted(w, errors, later)
<1>1. \A i \in DOMAIN w : w[i].at \in Nat
  <2> SUFFICES ASSUME NEW i \in DOMAIN w PROVE w[i].at \in Nat
    OBVIOUS
  <2>1. w[i] \in Window
    OBVIOUS
  <2> QED BY <2>1 DEF Window
<1>2. \A e \in DOMAIN errors : errors[e] \in Nat
  OBVIOUS
<1>3. \A i \in DOMAIN w : w[i].at <= later
  BY <1>1 DEF WellCounted
<1>4. \A e \in DOMAIN errors : errors[e] <= later
  BY <1>2 DEF WellCounted
<1> DEFINE b == InWindow * (InMaxWindows - 1)
<1>5. b \in Int
  BY InAssumption
<1>6. \A e \in DOMAIN errors : e \notin InSomeWindow(w, errors) => now - errors[e] > b
  BY DEF WellCounted
<1> HIDE DEF b
<1>7. \A e \in DOMAIN errors : e \notin InSomeWindow(w, errors) => later - errors[e] > b
  BY <1>2, <1>5, <1>6
<1> QED BY <1>3, <1>4, <1>7 DEF WellCounted, b

(* One more error is in the window it falls into, and in no other.           *)
LEMMA WindowWithMore ==
  ASSUME NEW x \in Window, NEW errors \in Seq(Nat), NEW now \in Nat
  PROVE  /\ InWindowOf(x, Append(errors, now)) =
              InWindowOf(x, errors) \cup (IF x.at <= now /\ now < x.at + InWindow THEN {Len(errors) + 1} ELSE {})
         /\ IsFiniteSet(InWindowOf(x, errors)) /\ Len(errors) + 1 \notin InWindowOf(x, errors)
<1> DEFINE more == Append(errors, now)
<1>1. DOMAIN errors = 1..Len(errors) /\ Len(errors) \in Nat
  OBVIOUS
<1>2. DOMAIN more = 1..Len(errors) + 1 /\ more[Len(errors) + 1] = now /\ \A e \in 1..Len(errors) : more[e] = errors[e]
  BY <1>1
<1> HIDE DEF more
<1>3. ASSUME NEW e PROVE e \in InWindowOf(x, more) <=>
         e \in InWindowOf(x, errors) \cup (IF x.at <= now /\ now < x.at + InWindow THEN {Len(errors) + 1} ELSE {})
  <2>1. CASE e \in 1..Len(errors)
    <3>1. more[e] = errors[e] /\ e # Len(errors) + 1 /\ e \in 1..Len(errors) + 1
      BY <1>1, <1>2, <2>1
    <3> QED BY <1>1, <1>2, <2>1, <3>1 DEF InWindowOf
  <2>2. CASE e = Len(errors) + 1
    <3>1. e \in DOMAIN more /\ more[e] = now /\ e \notin DOMAIN errors
      BY <1>1, <1>2, <2>2
    <3> QED BY <2>2, <3>1 DEF InWindowOf
  <2>3. CASE e \notin 1..Len(errors) /\ e # Len(errors) + 1
    <3>1. e \notin DOMAIN more /\ e \notin DOMAIN errors
      BY <1>1, <1>2, <2>3
    <3> QED BY <2>3, <3>1 DEF InWindowOf
  <2> QED BY <2>1, <2>2, <2>3
<1>4. IsFiniteSet(InWindowOf(x, errors)) /\ Len(errors) + 1 \notin InWindowOf(x, errors)
  <2>1. IsFiniteSet(DOMAIN errors)
    BY <1>1, FS_Interval
  <2>2. InWindowOf(x, errors) \in SUBSET DOMAIN errors
    BY DEF InWindowOf
  <2> QED BY <1>1, <2>1, <2>2, FS_Subset
<1> QED BY <1>3, <1>4 DEF more

LEMMA WindowMore ==
  ASSUME NEW v \in Window
  PROVE  LET x == [v EXCEPT !.n = @ + 1] IN x \in Window /\ x.at = v.at /\ x.n = v.n + 1
BY DEF Window

LEMMA IncrementCounted ==
  ASSUME NEW w \in Seq(Window), NEW errors \in Seq(Nat), NEW now \in Nat, WellCounted(w, errors, now)
  PROVE  WellCounted(Incremented(w, now), Append(errors, now), now)
<1> DEFINE kept == Kept(w, now)
           more == Append(errors, now)
           next == Incremented(w, now)
           same == kept # <<>> /\ now - Last(kept).at < InWindow
           c    == Len(kept)
<1>1. kept \in Seq(Window) /\ WellCounted(kept, errors, now) /\ \A i \in DOMAIN kept : now - kept[i].at < InWindow * InMaxWindows
  BY KeptTyped, KeptCounted
<1>2. next = IF same THEN [kept EXCEPT ![Len(kept)].n = @ + 1] ELSE Append(kept, [at |-> now, n |-> 1])
  BY DEF Incremented
<1> HIDE DEF kept, next
<1>3. c \in Nat /\ DOMAIN kept = 1..c /\ (kept # <<>> <=> c # 0) /\ c = Len(kept)
  BY <1>1
<1>4. \A i \in 1..c : kept[i] \in Window /\ kept[i].at \in Nat /\ kept[i].at <= now /\ kept[i].n \in Nat
                      /\ kept[i].n = Cardinality(InWindowOf(kept[i], errors))
  <2> SUFFICES ASSUME NEW i \in 1..c PROVE kept[i] \in Window /\ kept[i].at \in Nat /\ kept[i].at <= now /\ kept[i].n \in Nat
                      /\ kept[i].n = Cardinality(InWindowOf(kept[i], errors))
    OBVIOUS
  <2>1. kept[i] \in Window
    BY <1>1, <1>3
  <2>2. kept[i].at <= now /\ kept[i].n = Cardinality(InWindowOf(kept[i], errors))
    BY <1>1, <1>3 DEF WellCounted, CountsErrors
  <2> QED BY <2>1, <2>2 DEF Window
<1>5. Last(kept) = kept[c]
  BY DEF Last
<1> HIDE DEF c
<1>6. InWindow \in Nat /\ InWindow > 0 /\ InMaxWindows \in Nat /\ InMaxWindows > 0
  BY InAssumption
<1>7. DOMAIN errors = 1..Len(errors) /\ Len(errors) \in Nat /\ DOMAIN more = 1..Len(errors) + 1
      /\ more[Len(errors) + 1] = now /\ \A e \in 1..Len(errors) : more[e] = errors[e] /\ errors[e] \in Nat
  OBVIOUS
<1> DEFINE mark == Len(errors) + 1
           In(i) == IF kept[i].at <= now /\ now < kept[i].at + InWindow THEN {mark} ELSE {}
<1>8. \A i \in 1..c : /\ InWindowOf(kept[i], more) = InWindowOf(kept[i], errors) \cup In(i)
                      /\ IsFiniteSet(InWindowOf(kept[i], errors)) /\ mark \notin InWindowOf(kept[i], errors)
  BY <1>4, WindowWithMore
<1>18. \A i \in 1..c : i # c => i < c /\ i <= c /\ c \in 1..c
  <2>1. c \in Nat
    BY <1>3
  <2> QED BY <2>1
<1>9. \A i, j \in 1..c : i < j => kept[j].at - kept[i].at >= InWindow
  <2> SUFFICES ASSUME NEW i \in 1..c, NEW j \in 1..c, i < j PROVE kept[j].at - kept[i].at >= InWindow
    OBVIOUS
  <2>1. kept[j].at - kept[i].at >= InWindow * (j - i)
    <3>1. i <= j /\ i \in DOMAIN kept /\ j \in DOMAIN kept
      BY <1>3
    <3> QED BY <1>1, <3>1 DEF WellCounted, Apart
  <2>2. 1 <= j - i /\ j - i \in Int
    BY <1>3
  <2>3. InWindow * 1 <= InWindow * (j - i)
    BY <1>6, <2>2, ProductGrows
  <2>4. InWindow * 1 = InWindow /\ InWindow * (j - i) \in Int
    BY <1>6, <2>2
  <2> DEFINE far == InWindow * (j - i)
  <2>5. far \in Int /\ InWindow <= far /\ kept[j].at - kept[i].at >= far
    BY <2>1, <2>3, <2>4
  <2> HIDE DEF far
  <2> QED BY <1>4, <1>6, <2>5
<1>10. \A i \in 1..c : i < c => In(i) = {} /\ kept[i].at + InWindow <= now
  <2> SUFFICES ASSUME NEW i \in 1..c, i < c PROVE kept[i].at + InWindow <= now
    BY <1>4, <1>6
  <2>1. c \in 1..c
    BY <1>3
  <2> QED BY <1>4, <1>6, <1>9, <2>1
<1>11. \A e \in DOMAIN more : more[e] <= now
  BY <1>1, <1>7 DEF WellCounted
<1> HIDE DEF more, mark, In
<1>12. mark \in Nat /\ DOMAIN more = 1..mark /\ mark = Len(errors) + 1
  BY <1>7 DEF mark
(* What is left to show is that of an error in no window.                   *)
<1>13. ASSUME mark \in InSomeWindow(next, more), \A e \in InSomeWindow(kept, errors) : e \in InSomeWindow(next, more),
              NEW e \in DOMAIN more, e \notin InSomeWindow(next, more)
       PROVE  now - more[e] > InWindow * (InMaxWindows - 1)
  <2>1. e # mark /\ e \in 1..Len(errors)
    BY <1>12, <1>13, <1>7
  <2>2. e \notin InSomeWindow(kept, errors)
    BY <1>13
  <2> QED BY <1>1, <1>7, <2>1, <2>2 DEF WellCounted
<1>14. ASSUME same PROVE WellCounted(next, more, now)
  <2> DEFINE x == [kept[c] EXCEPT !.n = @ + 1]
  <2>1. c \in 1..c /\ c # 0
    BY <1>3, <1>14
  <2>2. next = [kept EXCEPT ![c] = x]
    BY <1>2, <1>3, <1>14
  <2>3. x \in Window /\ x.at = kept[c].at /\ x.n = kept[c].n + 1
    <3>1. kept[c] \in Window
      BY <1>4, <2>1
    <3> QED BY <3>1, WindowMore
  <2> HIDE DEF x
  <2>4. next \in Seq(Window) /\ Len(next) = c /\ DOMAIN next = 1..c /\ next[c] = x /\ \A i \in 1..c : i # c => next[i] = kept[i]
    BY <1>1, <1>3, <2>1, <2>2, <2>3
  <2>5. \A i \in 1..c : next[i].at = kept[i].at
    BY <2>3, <2>4
  <2>6. \A i \in 1..c : InWindowOf(next[i], more) = InWindowOf(kept[i], more)
    BY <2>5 DEF InWindowOf
  <2>7. now < kept[c].at + InWindow /\ In(c) = {mark}
    <3>1. now - kept[c].at < InWindow /\ kept[c].at \in Nat /\ kept[c].at <= now
      BY <1>4, <1>5, <1>14, <2>1
    <3>2. now < kept[c].at + InWindow
      BY <3>1, <1>6
    <3> QED BY <3>1, <3>2 DEF In
  <2>8. ASSUME NEW i \in 1..c PROVE next[i].n = Cardinality(InWindowOf(next[i], more))
    <3>1. CASE i = c
      <4>1. Cardinality(InWindowOf(kept[c], errors) \cup {mark}) = Cardinality(InWindowOf(kept[c], errors)) + 1
        BY <1>8, <2>1, FS_AddElement
      <4>2. InWindowOf(next[c], more) = InWindowOf(kept[c], errors) \cup {mark}
        BY <1>8, <2>1, <2>6, <2>7
      <4>3. next[c].n = Cardinality(InWindowOf(kept[c], errors)) + 1
        BY <1>4, <2>1, <2>3, <2>4
      <4> QED BY <3>1, <4>1, <4>2, <4>3
    <3>2. CASE i # c
      <4>1. i < c
        BY <1>18, <3>2
      <4>2. InWindowOf(next[i], more) = InWindowOf(kept[i], errors) /\ next[i] = kept[i]
        BY <1>8, <1>10, <2>4, <2>6, <4>1, <3>2
      <4> QED BY <1>4, <4>2
    <3> QED BY <3>1, <3>2
  <2>9. mark \in InSomeWindow(next, more)
    <3>1. c \in DOMAIN next /\ mark \in InWindowOf(next[c], more)
      BY <1>8, <2>1, <2>4, <2>6, <2>7
    <3> QED BY <3>1 DEF InSomeWindow
  <2>10. \A e \in InSomeWindow(kept, errors) : e \in InSomeWindow(next, more)
    <3> SUFFICES ASSUME NEW e \in InSomeWindow(kept, errors) PROVE e \in InSomeWindow(next, more)
      OBVIOUS
    <3>1. PICK i \in 1..c : e \in InWindowOf(kept[i], errors)
      BY <1>3 DEF InSomeWindow
    <3>2. i \in DOMAIN next /\ e \in InWindowOf(next[i], more)
      BY <1>8, <2>4, <2>6, <3>1
    <3> QED BY <3>2 DEF InSomeWindow
  <2>11. Apart(next)
    BY <1>1, <1>3, <2>4, <2>5 DEF WellCounted, Apart
  <2>12. Len(next) <= InMaxWindows
    BY <1>1, <1>3, <2>4 DEF WellCounted
  <2>13. \A i \in DOMAIN next : next[i].at <= now
    BY <1>4, <2>4, <2>5
  <2>14. \A e \in DOMAIN more : e \notin InSomeWindow(next, more) => now - more[e] > InWindow * (InMaxWindows - 1)
    BY <1>13, <2>9, <2>10
  <2> QED BY <1>11, <2>4, <2>8, <2>11, <2>12, <2>13, <2>14 DEF WellCounted, CountsErrors
<1>15. ASSUME ~same PROVE WellCounted(next, more, now)
  <2> DEFINE x == [at |-> now, n |-> 1]
  <2>1. next = Append(kept, x)
    BY <1>2, <1>15
  <2>2. x \in Window /\ x.at = now /\ x.n = 1
    BY DEF Window
  <2> HIDE DEF x
  <2>3. next \in Seq(Window) /\ Len(next) = c + 1 /\ DOMAIN next = 1..c + 1 /\ next[c + 1] = x /\ \A i \in 1..c : next[i] = kept[i]
    BY <1>1, <1>3, <2>1, <2>2
  <2>4. \A i \in 1..c : kept[i].at + InWindow <= now
    <3> SUFFICES ASSUME NEW i \in 1..c PROVE kept[i].at + InWindow <= now
      OBVIOUS
    <3>1. CASE i = c
      <4>1. ~(now - kept[c].at < InWindow)
        BY <1>3, <1>5, <1>15, <3>1
      <4> QED BY <1>4, <1>6, <3>1, <4>1
    <3>2. CASE i # c
      BY <1>18, <1>10, <3>2
    <3> QED BY <3>1, <3>2
  <2>5. \A i \in 1..c : In(i) = {}
    BY <1>4, <1>6, <2>4 DEF In
  <2>6. InWindowOf(x, more) = InWindowOf(x, errors) \cup {mark} /\ IsFiniteSet(InWindowOf(x, errors))
    <3>1. x.at <= now /\ now < x.at + InWindow
      BY <1>6, <2>2
    <3> QED BY <2>2, <3>1, WindowWithMore DEF mark, more
  <2>7. InWindowOf(x, errors) = {}
    <3> SUFFICES ASSUME NEW e \in InWindowOf(x, errors) PROVE FALSE
      OBVIOUS
    <3>1. e \in 1..Len(errors) /\ errors[e] = now
      BY <1>1, <1>7, <2>2 DEF InWindowOf, WellCounted
    <3>2. e \in InSomeWindow(kept, errors)
      <4> SUFFICES ASSUME e \notin InSomeWindow(kept, errors) PROVE FALSE
        OBVIOUS
      <4> DEFINE b == InWindow * (InMaxWindows - 1)
      <4>1. now - errors[e] > b
        BY <1>1, <1>7, <3>1 DEF WellCounted
      <4>2. b >= 0 /\ b \in Int
        BY SpanGrows, <1>6
      <4> HIDE DEF b
      <4> QED BY <3>1, <4>1, <4>2
    <3>3. PICK i \in 1..c : e \in InWindowOf(kept[i], errors)
      BY <1>3, <3>2 DEF InSomeWindow
    <3>4. errors[e] < kept[i].at + InWindow
      BY <3>3 DEF InWindowOf
    <3> QED BY <1>4, <1>6, <2>4, <3>1, <3>4
  <2>8. InWindowOf(x, more) = {mark} /\ Cardinality({mark}) = 1
    BY <2>6, <2>7, FS_Singleton
  <2>9. ASSUME NEW i \in 1..c + 1 PROVE next[i].n = Cardinality(InWindowOf(next[i], more))
    <3>1. CASE i = c + 1
      BY <2>2, <2>3, <2>8, <3>1
    <3>2. CASE i # c + 1
      <4>1. i \in 1..c
        BY <1>3, <3>2
      <4>2. InWindowOf(next[i], more) = InWindowOf(kept[i], errors) /\ next[i] = kept[i]
        BY <1>8, <2>3, <2>5, <4>1
      <4> QED BY <1>4, <4>1, <4>2
    <3> QED BY <3>1, <3>2
  <2>10. mark \in InSomeWindow(next, more)
    <3>1. c + 1 \in DOMAIN next
      BY <1>3, <2>3
    <3> QED BY <2>3, <2>8, <3>1 DEF InSomeWindow
  <2>11. \A e \in InSomeWindow(kept, errors) : e \in InSomeWindow(next, more)
    <3> SUFFICES ASSUME NEW e \in InSomeWindow(kept, errors) PROVE e \in InSomeWindow(next, more)
      OBVIOUS
    <3>1. PICK i \in 1..c : e \in InWindowOf(kept[i], errors)
      BY <1>3 DEF InSomeWindow
    <3>2. i \in DOMAIN next /\ e \in InWindowOf(next[i], more)
      BY <1>3, <1>8, <2>3, <3>1
    <3> QED BY <3>2 DEF InSomeWindow
  <2>12. \A i \in 1..c + 1 : next[i].at <= now /\ next[i].at \in Nat
    <3> SUFFICES ASSUME NEW i \in 1..c + 1 PROVE next[i].at <= now /\ next[i].at \in Nat
      OBVIOUS
    <3>1. CASE i = c + 1
      BY <2>2, <2>3, <3>1
    <3>2. CASE i # c + 1
      <4>1. i \in 1..c
        BY <1>3, <3>2
      <4> QED BY <1>4, <2>3, <4>1
    <3> QED BY <3>1, <3>2
  <2>13. \A i \in 1..c : now - kept[i].at >= InWindow * (c + 1 - i)
    <3> SUFFICES ASSUME NEW i \in 1..c PROVE now - kept[i].at >= InWindow * (c + 1 - i)
      OBVIOUS
    <3>1. c \in 1..c /\ i <= c /\ c - i \in Int
      BY <1>3
    <3>2. kept[c].at - kept[i].at >= InWindow * (c - i)
      BY <1>1, <1>3, <3>1 DEF WellCounted, Apart
    <3>3. now - kept[c].at >= InWindow
      BY <1>4, <1>6, <2>4, <3>1
    <3>4. InWindow * (c + 1 - i) = InWindow * (c - i) + InWindow /\ InWindow * (c - i) \in Int
      BY <1>6, <3>1
    <3> DEFINE a == InWindow * (c - i)
               b == InWindow * (c + 1 - i)
    <3>5. a \in Int /\ b = a + InWindow /\ kept[c].at - kept[i].at >= a
      BY <3>2, <3>4
    <3> HIDE DEF a, b
    <3>6. now - kept[i].at >= b
      <4>1. kept[c].at \in Nat /\ kept[i].at \in Nat /\ now \in Nat /\ InWindow \in Nat
        BY <1>4, <1>6, <3>1
      <4> QED BY <4>1, <3>3, <3>5, SpansAdd
    <3> QED BY <3>6 DEF b
  <2>14. Apart(next)
    <3> SUFFICES ASSUME NEW i \in 1..c + 1, NEW j \in 1..c + 1, i <= j PROVE next[j].at - next[i].at >= InWindow * (j - i)
      BY <2>3 DEF Apart
    <3>1. CASE j # c + 1
      <4>1. i \in 1..c /\ j \in 1..c
        BY <1>3, <3>1
      <4> QED BY <1>1, <1>3, <2>3, <4>1 DEF WellCounted, Apart
    <3>2. CASE j = c + 1 /\ i # c + 1
      <4>1. i \in 1..c
        BY <1>3, <3>2
      <4>2. next[j].at = now /\ next[i] = kept[i]
        BY <2>2, <2>3, <3>2, <4>1
      <4>3. now - kept[i].at >= InWindow * (c + 1 - i)
        BY <2>13, <4>1
      <4>4. next[j].at - next[i].at >= InWindow * (c + 1 - i)
        BY <4>2, <4>3
      <4>5. c + 1 - i = j - i
        <5>1. c \in Nat /\ j = c + 1
          BY <1>3, <3>2
        <5> QED BY <5>1
      <4>6. InWindow * (c + 1 - i) = InWindow * (j - i)
        BY <4>5
      <4> QED BY <4>4, <4>6
    <3>3. CASE i = c + 1
      <4>1. j = i /\ InWindow * (j - i) = 0
        <5>1. j = i
          BY <1>3, <3>3
        <5>2. j - i = 0
          BY <5>1, <1>3
        <5> QED BY <1>6, <5>1, <5>2
      <4> QED BY <2>12, <4>1
    <3> QED BY <3>1, <3>2, <3>3
  <2>15. Len(next) <= InMaxWindows
    <3>1. CASE c = 0
      BY <1>6, <2>3, <3>1
    <3>2. CASE c # 0
      <4> SUFFICES ASSUME c >= InMaxWindows PROVE FALSE
        BY <1>3, <1>6, <2>3
      <4>1. 1 \in 1..c /\ InMaxWindows <= c + 1 - 1
        BY <1>3, <1>6, <3>2
      <4>2. now - kept[1].at >= InWindow * (c + 1 - 1) /\ now - kept[1].at < InWindow * InMaxWindows
        BY <1>1, <1>3, <2>13, <4>1
      <4>3. InWindow * InMaxWindows <= InWindow * (c + 1 - 1)
        <5>1. c + 1 - 1 \in Int /\ InMaxWindows \in Int
          BY <1>3, <1>6
        <5> QED BY <1>6, <4>1, <5>1, ProductGrows
      <4> DEFINE a == InWindow * InMaxWindows
                 b == InWindow * (c + 1 - 1)
      <4>4. a \in Int /\ b \in Int /\ a <= b /\ now - kept[1].at >= b /\ now - kept[1].at < a
        BY <1>3, <1>6, <4>2, <4>3
      <4> HIDE DEF a, b
      <4> QED BY <1>4, <4>1, <4>4
    <3> QED BY <3>1, <3>2
  <2>16. \A i \in DOMAIN next : next[i].at <= now
    BY <2>3, <2>12
  <2>17. \A e \in DOMAIN more : e \notin InSomeWindow(next, more) => now - more[e] > InWindow * (InMaxWindows - 1)
    BY <1>13, <2>10, <2>11
  <2> QED BY <1>11, <2>3, <2>9, <2>14, <2>15, <2>16, <2>17 DEF WellCounted, CountsErrors
<1> QED BY <1>14, <1>15 DEF next, more

LEMMA UpToCounted ==
  ASSUME NEW n \in Nat PROVE IsFiniteSet(1..n) /\ Cardinality(1..n) = n
<1>1. IsFiniteSet(1..n) /\ Cardinality(1..n) = IF 1 > n THEN 0 ELSE n - 1 + 1
  BY FS_Interval
<1> QED BY <1>1

LEMMA CountedStarts == InInit => CountedInv
<1> SUFFICES ASSUME InInit PROVE CountedInv
  OBVIOUS
<1>1. Len(inStats) = 0
  BY DEF InInit
<1> QED BY <1>1 DEF CountedInv

(* The total of the windows is that of the errors in them.                   *)
LEMMA CountedHolds == RegistryInv /\ CountedInv => ErrorsCounted
<1> SUFFICES ASSUME RegistryInv, CountedInv PROVE ErrorsCounted
  OBVIOUS
<1> DEFINE Recent(k) == {i \in DOMAIN inStats[k].errors : inNow - inStats[k].errors[i] < InWindow * (InMaxWindows - 1)}
<1>0. DOMAIN inStats = 1..Len(inStats)
  BY DEF RegistryInv
<1>1. SUFFICES ASSUME NEW k \in 1..Len(inStats)
               PROVE  LET w == inStats[k].windows IN
                      /\ Len(w) <= InMaxWindows /\ \A i \in 1..Len(w) - 1 : w[i + 1].at - w[i].at >= InWindow
                      /\ Total(w) <= Len(inStats[k].errors) /\ Total(w) >= Cardinality(Recent(k))
  BY <1>0 DEF ErrorsCounted
<1> DEFINE w      == inStats[k].windows
           errors == inStats[k].errors
<1>2. w \in Seq(Window) /\ errors \in Seq(Nat) /\ WellCounted(w, errors, inNow) /\ inNow \in Nat
  <2>1. inStats[k] \in StatsSet
    BY DEF RegistryInv
  <2> QED BY <2>1 DEF RegistryInv, CountedInv, StatsSet
<1> HIDE DEF w, errors
<1>3. Len(w) \in Nat /\ DOMAIN w = 1..Len(w) /\ Len(errors) \in Nat /\ DOMAIN errors = 1..Len(errors)
  BY <1>2
<1>4. \A i \in 1..Len(w) - 1 : w[i + 1].at - w[i].at >= InWindow
  <2> SUFFICES ASSUME NEW i \in 1..Len(w) - 1 PROVE w[i + 1].at - w[i].at >= InWindow
    OBVIOUS
  <2>1. i \in DOMAIN w /\ i + 1 \in DOMAIN w /\ i <= i + 1
    BY <1>3
  <2>2. w[i + 1].at - w[i].at >= InWindow * (i + 1 - i)
    BY <1>2, <2>1 DEF WellCounted, Apart
  <2>3. i + 1 - i = 1 /\ InWindow * 1 = InWindow
    BY InAssumption
  <2> QED BY <2>2, <2>3
<1>5. Total(w) = Cardinality(InSomeWindow(w, errors)) /\ IsFiniteSet(InSomeWindow(w, errors))
  BY <1>2, TotalCounts DEF WellCounted
<1>6. Total(w) <= Len(errors)
  <2>1. InSomeWindow(w, errors) \in SUBSET (1..Len(errors))
    BY <1>3 DEF InSomeWindow, InWindowOf
  <2>2. IsFiniteSet(1..Len(errors)) /\ Cardinality(1..Len(errors)) = Len(errors)
    BY <1>3, UpToCounted
  <2>3. Cardinality(InSomeWindow(w, errors)) <= Cardinality(1..Len(errors))
    BY <2>1, <2>2, FS_Subset
  <2> QED BY <1>5, <2>2, <2>3
<1>7. Total(w) >= Cardinality(Recent(k))
  <2>1. Recent(k) \in SUBSET InSomeWindow(w, errors)
    <3> SUFFICES ASSUME NEW e \in DOMAIN errors, inNow - errors[e] < InWindow * (InMaxWindows - 1), e \notin InSomeWindow(w, errors)
                 PROVE  FALSE
      BY DEF errors
    <3> DEFINE b == InWindow * (InMaxWindows - 1)
    <3>1. inNow - errors[e] < b /\ inNow - errors[e] > b
      BY <1>2 DEF WellCounted
    <3>2. b \in Int /\ inNow - errors[e] \in Int
      BY <1>2, InAssumption
    <3> HIDE DEF b
    <3> QED BY <3>1, <3>2
  <2> HIDE DEF Recent
  <2>2. Cardinality(Recent(k)) <= Cardinality(InSomeWindow(w, errors))
    BY <1>5, <2>1, FS_Subset
  <2>3. Cardinality(Recent(k)) \in Nat /\ Cardinality(InSomeWindow(w, errors)) \in Nat
    BY <1>5, <2>1, FS_Subset, FS_CardinalityType
  <2> QED BY <1>5, <2>2, <2>3
<1>8. Len(w) <= InMaxWindows
  BY <1>2 DEF WellCounted
<1> QED BY <1>4, <1>6, <1>7, <1>8 DEF w, errors

(* A step that changes one device's statistics.                              *)
LEMMA CountedChange ==
  ASSUME RegistryInv, CountedInv, NEW k \in 1..Len(inStats), NEW s,
         inStats' = [inStats EXCEPT ![k] = s], inNow' = inNow, WellCounted(s.windows, s.errors, inNow)
  PROVE  CountedInv'
<1>1. /\ Len(inStats') = Len(inStats) /\ inStats'[k] = s
      /\ \A j \in 1..Len(inStats) : j # k => inStats'[j] = inStats[j]
  BY DEF RegistryInv
<1>2. ASSUME NEW j \in 1..Len(inStats) PROVE WellCounted(inStats'[j].windows, inStats'[j].errors, inNow)
  <2>1. CASE j = k
    BY <1>1, <2>1
  <2>2. CASE j # k
    BY <1>1, <2>2 DEF CountedInv
  <2> QED BY <2>1, <2>2
<1> QED BY <1>1, <1>2 DEF CountedInv

LEMMA StatsCounted ==
  ASSUME RegistryInv, CountedInv, NEW k \in 1..Len(inStats)
  PROVE  /\ inStats[k] \in StatsSet /\ inStats[k].windows \in Seq(Window) /\ inStats[k].errors \in Seq(Nat) /\ inNow \in Nat
         /\ WellCounted(inStats[k].windows, inStats[k].errors, inNow)
<1>1. inStats[k] \in StatsSet
  BY DEF RegistryInv
<1> QED BY <1>1 DEF StatsSet, RegistryInv, CountedInv

LEMMA LookUpCounts ==
  ASSUME RegistryInv, CountedInv, NEW t \in InThreads, LooksUp(t) PROVE CountedInv'
<1>1. inNow' = inNow /\ (inStats' = inStats \/ inStats' = Append(inStats, NewStats))
  BY DEF LooksUp
<1>2. CASE inStats' = inStats
  BY <1>1, <1>2 DEF CountedInv
<1>3. CASE inStats' = Append(inStats, NewStats)
  <2> DEFINE n == Len(inStats)
  <2>1. n \in Nat /\ Len(inStats') = n + 1 /\ inStats'[n + 1] = NewStats /\ \A j \in 1..n : inStats'[j] = inStats[j]
    BY <1>3 DEF RegistryInv
  <2>2. NewStats.windows = <<>> /\ NewStats.errors = <<>>
    BY DEF NewStats
  <2>3. WellCounted(<<>>, <<>>, inNow)
    BY InAssumption DEF WellCounted, Apart, CountsErrors
  <2>4. ASSUME NEW j \in 1..n + 1 PROVE WellCounted(inStats'[j].windows, inStats'[j].errors, inNow)
    <3>1. CASE j = n + 1
      BY <2>1, <2>2, <2>3, <3>1
    <3>2. CASE j # n + 1
      <4>1. j \in 1..n
        BY <2>1, <3>2
      <4> QED BY <2>1, <4>1 DEF CountedInv
    <3> QED BY <3>1, <3>2
  <2> QED BY <1>1, <2>1, <2>4 DEF CountedInv
<1> QED BY <1>1, <1>2, <1>3

LEMMA TakeCounts ==
  ASSUME RegistryInv, CountedInv, NEW t \in InThreads, TakesStats(t) PROVE CountedInv'
<1> DEFINE k   == inThread[t].stats
           s   == [inStats[k] EXCEPT !.holder = t]
<1>1. /\ inThread[t].at = "stats" /\ inNow' = inNow /\ inStats' = [inStats EXCEPT ![k] = s]
  BY DEF TakesStats
<1>2. k \in 1..Len(inStats)
  BY <1>1 DEF RegistryInv
<1>3. s.windows = inStats[k].windows /\ s.errors = inStats[k].errors
  BY <1>2, StatsCounted DEF StatsSet
<1> HIDE DEF k, s
<1> QED BY <1>1, <1>2, <1>3, StatsCounted, CountedChange

LEMMA UpdateCounts ==
  ASSUME RegistryInv, CountedInv, NEW t \in InThreads, Updates(t) PROVE CountedInv'
<1> DEFINE k == inThread[t].stats
           a == After(inStats[k], inThread[t].call)
           s == [a EXCEPT !.holder = NoThread]
<1>1. inThread[t].at = "inside" /\ inNow' = inNow /\ inStats' = [inStats EXCEPT ![k] = s]
  BY DEF Updates
<1>2. k \in 1..Len(inStats)
  BY <1>1 DEF RegistryInv
<1> DEFINE w == inStats[k].windows
           errors == inStats[k].errors
<1>3. inStats[k] \in StatsSet /\ w \in Seq(Window) /\ errors \in Seq(Nat) /\ inNow \in Nat /\ WellCounted(w, errors, inNow)
  BY <1>2, StatsCounted
<1>4. a \in StatsSet
  BY <1>3, AfterTyped
<1>5. WellCounted(a.windows, a.errors, inNow)
  <2>1. CASE inThread[t].call = "error"
    <3> DEFINE w2 == Incremented(w, inNow)
    <3>1. a = [inStats[k] EXCEPT !.windows = w2, !.errors = Append(errors, inNow)]
      BY <2>1 DEF After
    <3> HIDE DEF w2
    <3>2. a.windows = w2 /\ a.errors = Append(errors, inNow)
      BY <1>3, <3>1 DEF StatsSet
    <3> QED BY <1>3, <3>2, IncrementCounted DEF w2
  <2>2. CASE inThread[t].call = "success"
    <3>1. a = [inStats[k] EXCEPT !.received = @ + 1, !.valid = @ + 1]
      BY <2>2 DEF After
    <3>2. a.windows = w /\ a.errors = errors
      BY <1>3, <3>1 DEF StatsSet
    <3> QED BY <1>3, <3>2
  <2>3. CASE inThread[t].call \notin {"error", "success"}
    <3>1. a = inStats[k]
      BY <2>3 DEF After
    <3> QED BY <1>3, <3>1
  <2> QED BY <2>1, <2>2, <2>3
<1> HIDE DEF a
<1>6. s.windows = a.windows /\ s.errors = a.errors
  BY <1>4 DEF StatsSet
<1> HIDE DEF k, s
<1> QED BY <1>1, <1>2, <1>5, <1>6, CountedChange

LEMMA AskCounts ==
  ASSUME RegistryInv, CountedInv, NEW t \in InThreads, AlertsAsk(t) PROVE CountedInv'
<1>1. PICK d \in inThread[t].left :
        /\ inThread[t].at = "devices" /\ inNow' = inNow
        /\ inStats' = [inStats EXCEPT ![inRegistry[d]].windows = IF inThread[t].call = "alerts" THEN Kept(@, inNow) ELSE @]
  BY DEF AlertsAsk
<1> DEFINE k == inRegistry[d]
           w == IF inThread[t].call = "alerts" THEN Kept(inStats[k].windows, inNow) ELSE inStats[k].windows
           s == [inStats[k] EXCEPT !.windows = w]
<1>2. d \in InDevices
  <2>1. inThread[t] \in ThreadSet
    BY DEF RegistryInv
  <2> QED BY <2>1 DEF ThreadSet
<1>3. k \in 1..Len(inStats)
  <2>1. k # 0 /\ k \in 0..Len(inStats)
    BY <1>1, <1>2 DEF RegistryInv
  <2> QED BY <2>1
<1>4. inStats' = [inStats EXCEPT ![k] = s]
  BY <1>1
<1>5. /\ inStats[k] \in StatsSet /\ inStats[k].windows \in Seq(Window) /\ inStats[k].errors \in Seq(Nat) /\ inNow \in Nat
      /\ WellCounted(inStats[k].windows, inStats[k].errors, inNow)
  BY <1>3, StatsCounted
<1>6. WellCounted(w, inStats[k].errors, inNow)
  BY <1>5, KeptCounted
<1>7. s.windows = w /\ s.errors = inStats[k].errors
  <2> HIDE DEF w
  <2> QED BY <1>5 DEF StatsSet
<1> HIDE DEF k, w, s
<1> QED BY <1>1, <1>3, <1>4, <1>6, <1>7, CountedChange

LEMMA TickCounts ==
  ASSUME RegistryInv, CountedInv, InTick PROVE CountedInv'
<1>1. inStats' = inStats /\ inNow' = inNow + 1 /\ inNow \in Nat
  BY DEF InTick, RegistryInv
<1>2. ASSUME NEW k \in 1..Len(inStats) PROVE WellCounted(inStats[k].windows, inStats[k].errors, inNow + 1)
  <2>1. inNow + 1 \in Nat /\ inNow <= inNow + 1
    BY <1>1
  <2> QED BY <2>1, StatsCounted, CountedLater
<1> QED BY <1>1, <1>2 DEF CountedInv

LEMMA CountedSteps == RegistryInv /\ CountedInv /\ [InNext]_inVars => CountedInv'
<1> SUFFICES ASSUME RegistryInv, CountedInv, [InNext]_inVars PROVE CountedInv'
  OBVIOUS
<1>1. CASE inStats' = inStats /\ inNow' = inNow
  BY <1>1 DEF CountedInv
<1>2. CASE InTick
  BY <1>2, TickCounts
<1>3. ASSUME NEW t \in InThreads, LooksUp(t) \/ TakesStats(t) \/ Updates(t) \/ AlertsAsk(t)
      PROVE  CountedInv'
  BY <1>3, LookUpCounts, TakeCounts, UpdateCounts, AskCounts
<1>4. ASSUME NEW t \in InThreads, Clears(t) \/ AlertsBegin(t) \/ AlertsEnd(t) PROVE inStats' = inStats /\ inNow' = inNow
  BY <1>4 DEF Clears, AlertsBegin, AlertsEnd
<1>5. CASE StartsCall
  BY <1>5, <1>1 DEF StartsCall, InCall
<1>6. CASE RecordUplink \/ RecordDownlink \/ MakeReport \/ UNCHANGED inVars
  BY <1>6, <1>1 DEF RecordUplink, RecordDownlink, MakeReport, inVars
<1> QED BY <1>1, <1>2, <1>3, <1>4, <1>5, <1>6 DEF InNext

-----------------------------------------------------------------------------
(* The measures of a link.                                                  *)

(* The measures of a link are those of what it was given so far.             *)
MeasuresInv ==
  LET g == inLink.given
      n == Len(g)
  IN /\ inLink \in [n : Nat, sum : Int, min : Int, max : Int, down : Nat, given : Seq(InSamples)]
     /\ inLink.n = n /\ (n = 0 => inLink.sum = 0 /\ inLink.min = 0 /\ inLink.max = -200)
     /\ n # 0 => \E i, j \in 1..n : inLink.min = g[i] /\ inLink.max = g[j]
     /\ \A i \in 1..n : inLink.min <= g[i] /\ g[i] <= inLink.max
     /\ n * inLink.min <= inLink.sum /\ inLink.sum <= n * inLink.max

LEMMA SampleTyped ==
  ASSUME NEW x \in InSamples PROVE x \in Int /\ -200 <= x /\ x <= 0
<1>1. x \in -200..0
  BY InAssumption
<1> QED BY <1>1

LEMMA LinkStarts == InInit => MeasuresInv
<1> SUFFICES ASSUME InInit PROVE MeasuresInv
  OBVIOUS
<1>1. inLink = NewLink
  BY DEF InInit
<1>2. NewLink.given = <<>> /\ NewLink.n = 0 /\ NewLink.sum = 0 /\ NewLink.min = 0 /\ NewLink.max = -200
  BY DEF NewLink
<1>3. NewLink \in [n : Nat, sum : Int, min : Int, max : Int, down : Nat, given : Seq(InSamples)]
  BY DEF NewLink
<1>4. Len(NewLink.given) = 0
  BY <1>2
<1> QED BY <1>1, <1>2, <1>3, <1>4 DEF MeasuresInv

LEMMA LinkHolds == MeasuresInv => LinkMeasured
<1> SUFFICES ASSUME MeasuresInv, inLink.given # <<>>
             PROVE  /\ inLink.min = Min(ToSet(inLink.given)) /\ inLink.max = Max(ToSet(inLink.given))
                    /\ inLink.min * inLink.n <= inLink.sum /\ inLink.sum <= inLink.max * inLink.n
  BY DEF LinkMeasured
<1> DEFINE g == inLink.given
           n == Len(g)
           S == ToSet(g)
<1>1. /\ g \in Seq(InSamples) /\ inLink.min \in Int /\ inLink.max \in Int /\ inLink.sum \in Int /\ inLink.n = n
  BY DEF MeasuresInv
<1>2. n \in Nat /\ n # 0 /\ DOMAIN g = 1..n
  BY <1>1
<1>3. \A x \in S : x \in Int /\ inLink.min <= x /\ x <= inLink.max
  <2> SUFFICES ASSUME NEW i \in 1..n PROVE g[i] \in Int /\ inLink.min <= g[i] /\ g[i] <= inLink.max
    BY <1>2 DEF ToSet
  <2>1. g[i] \in InSamples
    BY <1>1, <1>2
  <2>2. g[i] \in Int
    BY <2>1, SampleTyped
  <2>3. inLink.min <= g[i] /\ g[i] <= inLink.max
    BY DEF MeasuresInv
  <2> QED BY <2>2, <2>3
<1>4. inLink.min \in S /\ inLink.max \in S
  <2>1. PICK i \in 1..n, j \in 1..n : inLink.min = g[i] /\ inLink.max = g[j]
    BY <1>2 DEF MeasuresInv
  <2> QED BY <1>2, <2>1 DEF ToSet
<1>5. n * inLink.min <= inLink.sum /\ inLink.sum <= n * inLink.max
  BY DEF MeasuresInv
<1> HIDE DEF g, n, S
<1>6. inLink.min = Min(S)
  <2>1. Min(S) \in S /\ \A y \in S : Min(S) <= y
    BY <1>3, <1>4 DEF Min
  <2>2. Min(S) <= inLink.min /\ inLink.min <= Min(S) /\ Min(S) \in Int
    BY <1>3, <1>4, <2>1
  <2> QED BY <1>1, <2>2
<1>7. inLink.max = Max(S)
  <2>1. Max(S) \in S /\ \A y \in S : Max(S) >= y
    BY <1>3, <1>4 DEF Max
  <2>2. Max(S) <= inLink.max /\ inLink.max <= Max(S) /\ Max(S) \in Int
    BY <1>3, <1>4, <2>1
  <2> QED BY <1>1, <2>2
<1>8. n * inLink.min = inLink.min * n /\ n * inLink.max = inLink.max * n
  BY <1>1, <1>2
<1> QED BY <1>1, <1>5, <1>6, <1>7, <1>8 DEF S, g

LEMMA UplinkSteps ==
  ASSUME MeasuresInv, RecordUplink PROVE MeasuresInv'
<1>1. PICK x \in InSamples :
        inLink' = [inLink EXCEPT !.n = @ + 1, !.sum = @ + x, !.min = IF x < @ THEN x ELSE @,
                                 !.max = IF x > @ THEN x ELSE @, !.given = Append(@, x)]
  BY DEF RecordUplink
<1> DEFINE g  == inLink.given
           n  == Len(g)
           g2 == Append(g, x)
           least == IF x < inLink.min THEN x ELSE inLink.min
           most  == IF x > inLink.max THEN x ELSE inLink.max
           total == inLink.sum + x
<1>2. /\ g \in Seq(InSamples) /\ inLink.min \in Int /\ inLink.max \in Int /\ inLink.sum \in Int /\ inLink.n = n
      /\ inLink \in [n : Nat, sum : Int, min : Int, max : Int, down : Nat, given : Seq(InSamples)]
  BY DEF MeasuresInv
<1>3. x \in Int /\ -200 <= x /\ x <= 0 /\ n \in Nat
  BY <1>2, SampleTyped
<1>4. g2 \in Seq(InSamples) /\ Len(g2) = n + 1 /\ g2[n + 1] = x /\ \A i \in 1..n : g2[i] = g[i]
  BY <1>2
<1>5. \A i \in 1..n : g[i] \in Int /\ inLink.min <= g[i] /\ g[i] <= inLink.max
  <2> SUFFICES ASSUME NEW i \in 1..n PROVE g[i] \in Int /\ inLink.min <= g[i] /\ g[i] <= inLink.max
    OBVIOUS
  <2>1. g[i] \in InSamples
    BY <1>2
  <2>2. g[i] \in Int
    BY <2>1, SampleTyped
  <2>3. inLink.min <= g[i] /\ g[i] <= inLink.max
    BY DEF MeasuresInv
  <2> QED BY <2>2, <2>3
<1>6. n # 0 => \E i, j \in 1..n : inLink.min = g[i] /\ inLink.max = g[j]
  BY DEF MeasuresInv
<1>7. n * inLink.min <= inLink.sum /\ inLink.sum <= n * inLink.max
  BY DEF MeasuresInv
<1>8. n = 0 => inLink.sum = 0 /\ inLink.min = 0 /\ inLink.max = -200
  BY DEF MeasuresInv
<1>9. /\ inLink' = [inLink EXCEPT !.n = n + 1, !.sum = total, !.min = least, !.max = most, !.given = g2]
  BY <1>1, <1>2
<1>10. least \in Int /\ most \in Int /\ total \in Int /\ least <= x /\ x <= most /\ least <= inLink.min /\ inLink.max <= most
       /\ least \in {x, inLink.min} /\ most \in {x, inLink.max}
  BY <1>2, <1>3
<1> HIDE DEF g, n, g2, least, most, total
<1>11. /\ inLink' \in [n : Nat, sum : Int, min : Int, max : Int, down : Nat, given : Seq(InSamples)]
       /\ inLink'.n = n + 1 /\ inLink'.sum = total /\ inLink'.min = least /\ inLink'.max = most /\ inLink'.given = g2
  <2>1. n + 1 \in Nat /\ total \in Int /\ least \in Int /\ most \in Int /\ g2 \in Seq(InSamples)
    BY <1>3, <1>4, <1>10
  <2> QED BY <1>2, <1>9, <2>1
<1>12. \E i, j \in 1..n + 1 : least = g2[i] /\ most = g2[j]
  <2>1. CASE n = 0
    <3>1. least = x /\ most = x
      BY <1>3, <1>8, <2>1 DEF least, most
    <3> QED BY <1>3, <1>4, <3>1
  <2>2. CASE n # 0
    <3>1. PICK i \in 1..n, j \in 1..n : inLink.min = g[i] /\ inLink.max = g[j]
      BY <1>6, <2>2
    <3>2. i \in 1..n + 1 /\ j \in 1..n + 1 /\ n + 1 \in 1..n + 1 /\ g2[i] = inLink.min /\ g2[j] = inLink.max /\ g2[n + 1] = x
      BY <1>3, <1>4, <3>1
    <3> QED BY <1>10, <3>2
  <2> QED BY <2>1, <2>2
<1>13. \A i \in 1..n + 1 : least <= g2[i] /\ g2[i] <= most
  <2> SUFFICES ASSUME NEW i \in 1..n + 1 PROVE least <= g2[i] /\ g2[i] <= most
    OBVIOUS
  <2>1. CASE i = n + 1
    BY <1>4, <1>10, <2>1
  <2>2. CASE i # n + 1
    <3>1. i \in 1..n
      BY <1>3, <2>2
    <3>2. g2[i] = g[i] /\ g[i] \in Int /\ inLink.min <= g[i] /\ g[i] <= inLink.max
      BY <1>4, <1>5, <3>1
    <3>3. inLink.min \in Int /\ inLink.max \in Int
      BY <1>2
    <3> QED BY <1>10, <3>2, <3>3
  <2> QED BY <2>1, <2>2
<1>14. (n + 1) * least <= total /\ total <= (n + 1) * most
  <2>1. n * least <= n * inLink.min /\ n * inLink.max <= n * most
    BY <1>2, <1>3, <1>10, ProductGrows
  <2>2. (n + 1) * least = n * least + least /\ (n + 1) * most = n * most + most
    BY <1>3, <1>10
  <2> DEFINE a == n * least
             b == n * inLink.min
             c == n * inLink.max
             d == n * most
  <2>3. a \in Int /\ b \in Int /\ c \in Int /\ d \in Int
    BY <1>2, <1>3, <1>10
  <2>4. a <= b /\ b <= inLink.sum /\ inLink.sum <= c /\ c <= d
    BY <1>7, <2>1
  <2>5. (n + 1) * least = a + least /\ (n + 1) * most = d + most
    BY <2>2
  <2> HIDE DEF a, b, c, d
  <2>6. a + least <= inLink.sum + x /\ inLink.sum + x <= d + most
    BY <1>2, <1>3, <1>10, <2>3, <2>4
  <2> QED BY <2>5, <2>6 DEF total
<1>15. n + 1 # 0 /\ Len(inLink'.given) = n + 1
  BY <1>3, <1>4, <1>11
<1>16. /\ inLink'.n = Len(inLink'.given) /\ Len(inLink'.given) # 0
       /\ \E i, j \in 1..Len(inLink'.given) : inLink'.min = inLink'.given[i] /\ inLink'.max = inLink'.given[j]
       /\ \A i \in 1..Len(inLink'.given) : inLink'.min <= inLink'.given[i] /\ inLink'.given[i] <= inLink'.max
       /\ Len(inLink'.given) * inLink'.min <= inLink'.sum /\ inLink'.sum <= Len(inLink'.given) * inLink'.max
  BY <1>11, <1>12, <1>13, <1>14, <1>15
<1> QED BY <1>11, <1>16 DEF MeasuresInv

LEMMA LinkSteps == MeasuresInv /\ [InNext]_inVars => MeasuresInv'
<1> SUFFICES ASSUME MeasuresInv, [InNext]_inVars PROVE MeasuresInv'
  OBVIOUS
<1>1. CASE inLink' = inLink
  BY <1>1 DEF MeasuresInv
<1>2. CASE RecordUplink
  BY <1>2, UplinkSteps
<1>3. CASE RecordDownlink
  <2>1. inLink' = [inLink EXCEPT !.down = @ + 1]
    BY <1>3 DEF RecordDownlink
  <2>2. inLink \in [n : Nat, sum : Int, min : Int, max : Int, down : Nat, given : Seq(InSamples)]
    BY DEF MeasuresInv
  <2>3. /\ inLink' \in [n : Nat, sum : Int, min : Int, max : Int, down : Nat, given : Seq(InSamples)]
        /\ inLink'.n = inLink.n /\ inLink'.sum = inLink.sum /\ inLink'.min = inLink.min /\ inLink'.max = inLink.max
        /\ inLink'.given = inLink.given
    BY <2>1, <2>2
  <2> QED BY <2>3 DEF MeasuresInv
<1>4. ASSUME NEW t \in InThreads, \/ LooksUp(t) \/ Clears(t) \/ TakesStats(t) \/ Updates(t)
                                 \/ AlertsBegin(t) \/ AlertsAsk(t) \/ AlertsEnd(t)
      PROVE  inLink' = inLink
  BY <1>4 DEF LooksUp, Clears, TakesStats, Updates, AlertsBegin, AlertsAsk, AlertsEnd
<1>5. CASE StartsCall \/ InTick \/ MakeReport \/ UNCHANGED inVars
  BY <1>5, <1>1 DEF StartsCall, InCall, InTick, MakeReport, inVars
<1> QED BY <1>1, <1>2, <1>3, <1>4, <1>5 DEF InNext

-----------------------------------------------------------------------------
(* The readings of a report.                                                *)

(* A reading of a record, as ReadingsOf has it.                              *)
ReadAs(r, lora) ==
  [name |-> r.name, known |-> r.known \/ (lora /\ r.as # "number"),
   value |-> IF lora /\ r.as # "number" THEN 0 ELSE r.value,
   quality |-> IF r.alarm /\ ~lora THEN "Invalid" ELSE "Good", of |-> r]
ReadFrom(lora) == {ReadAs(r, lora) : r \in InRecords}

LEMMA ReadingTrue ==
  ASSUME NEW lora \in BOOLEAN, NEW x \in ReadFrom(lora)
  PROVE  /\ ValidReading(x) => /\ QuicklyValid(x) /\ (x.value = x.of.value \/ (lora /\ x.of.as # "number"))
                               /\ (~lora => ~x.of.alarm)
         /\ ~ValidReading(x) =>
              x.of.alarm \/ ~x.of.known \/ x.of.value \notin (IF x.of.name = "temperature" THEN -50..100 ELSE 0..100)
<1>1. PICK r \in InRecords : x = ReadAs(r, lora)
  BY DEF ReadFrom
<1>2. r.value \in Int /\ r.known \in BOOLEAN /\ r.alarm \in BOOLEAN
  BY InAssumption
<1>3. /\ x.name = r.name /\ x.of = r /\ x.quality = (IF r.alarm /\ ~lora THEN "Invalid" ELSE "Good")
      /\ x.value = (IF lora /\ r.as # "number" THEN 0 ELSE r.value)
      /\ x.known <=> r.known \/ (lora /\ r.as # "number")
  BY <1>1 DEF ReadAs
<1>4. x.value \in Int /\ (x.value = r.value \/ x.value = 0)
  BY <1>2, <1>3
<1>5. ValidReading(x) => QuicklyValid(x)
  BY <1>4 DEF ValidReading, QuicklyValid
<1>6. ValidReading(x) => (x.value = x.of.value \/ (lora /\ x.of.as # "number")) /\ (~lora => ~x.of.alarm)
  BY <1>3 DEF ValidReading
<1>7. ASSUME ~ValidReading(x) PROVE x.of.alarm \/ ~x.of.known \/ x.of.value \notin (IF x.of.name = "temperature" THEN -50..100 ELSE 0..100)
  <2>1. CASE ~x.known
    BY <1>3, <2>1
  <2>2. CASE x.quality # "Good"
    BY <1>3, <2>2
  <2>3. CASE x.name = "temperature" /\ x.value \notin -50..100
    <3>1. r.value \notin -50..100
      BY <1>4, <2>3
    <3> QED BY <1>3, <2>3, <3>1
  <2>4. CASE x.name \in {"volume", "power", "percentage", "pressure"} /\ x.value \notin 0..100
    <3>1. r.value \notin 0..100
      BY <1>4, <2>4
    <3> QED BY <1>3, <2>4, <3>1
  <2>5. x.known /\ x.quality = "Good" =>
          \/ x.name = "temperature" /\ x.value \notin -50..100
          \/ x.name \in {"volume", "power", "percentage", "pressure"} /\ x.value \notin 0..100
    BY <1>4, <1>7 DEF ValidReading
  <2> QED BY <2>1, <2>2, <2>3, <2>4, <2>5
<1> QED BY <1>5, <1>6, <1>7

LEMMA ReportSteps ==
  ASSUME MakeReport PROVE ReportsWhole'
<1>1. PICK n \in 0..InFrame, lora \in BOOLEAN, split \in BOOLEAN, only \in BOOLEAN : \E records \in [1..n -> InRecords] :
       LET all  == ReadingsOf(records, lora)
           good == Chosen(all, ValidOnes(all))
           bad  == Chosen(all, DOMAIN all \ ValidOnes(all))
           kept == IF ~split THEN all ELSE IF only THEN <<>> ELSE good
       IN /\ (only => split)
          /\ inReport' = [made |-> TRUE, lora |-> lora, records |-> records, only |-> only, readings |-> kept,
                          bad |-> IF split THEN bad ELSE <<>>,
                          quality |-> IF split THEN Overall(good, bad) ELSE "Good",
                          alarm |-> ~lora /\ \E i \in 1..n : records[i].alarm /\ records[i].as # "text",
                          metering |-> Metering(kept)]
  BY DEF MakeReport
<1> DEFINE all(rec)  == ReadingsOf(rec, lora)
           good(rec) == Chosen(all(rec), ValidOnes(all(rec)))
           bad(rec)  == Chosen(all(rec), DOMAIN all(rec) \ ValidOnes(all(rec)))
           kept(rec) == IF ~split THEN all(rec) ELSE IF only THEN <<>> ELSE good(rec)
<1>2. PICK records \in [1..n -> InRecords] :
         /\ (only => split)
         /\ inReport' = [made |-> TRUE, lora |-> lora, records |-> records, only |-> only, readings |-> kept(records),
                         bad |-> IF split THEN bad(records) ELSE <<>>,
                         quality |-> IF split THEN Overall(good(records), bad(records)) ELSE "Good",
                         alarm |-> ~lora /\ \E i \in 1..n : records[i].alarm /\ records[i].as # "text",
                         metering |-> Metering(kept(records))]
  BY <1>1
<1> DEFINE a == ReadingsOf(records, lora)
           V == ValidOnes(a)
           g == Chosen(a, V)
           b == Chosen(a, DOMAIN a \ V)
           k == IF ~split THEN a ELSE IF only THEN <<>> ELSE g
           bads == IF split THEN b ELSE <<>>
           m == Metering(k)
           R == {i \in DOMAIN records : lora \/ records[i].as # "text"}
           N == {i \in DOMAIN records : records[i].as # "text"}
           q == IF split THEN Overall(g, b) ELSE "Good"
<1>3. /\ inReport'.made /\ inReport'.lora = lora /\ inReport'.records = records /\ inReport'.only = only
      /\ inReport'.readings = k /\ inReport'.bad = bads /\ inReport'.quality = q /\ inReport'.metering = m
      /\ (only => split)
  BY <1>2
<1>4. n \in Nat /\ records \in Seq(InRecords) /\ Len(records) = n /\ DOMAIN records = 1..n
  <2>1. n \in Nat
    BY InAssumption
  <2> QED BY <2>1, SeqDef
<1>5. IsFiniteSet(1..n) /\ Cardinality(1..n) = n
  BY <1>4, UpToCounted
<1>6. R \in SUBSET (1..n) /\ N \in SUBSET R
  BY <1>4
<1>7. Cardinality(N) <= Cardinality(R) /\ Cardinality(R) <= n /\ Cardinality(R) \in Nat
  <2>1. IsFiniteSet(R) /\ Cardinality(R) <= n
    BY <1>5, <1>6, FS_Subset
  <2> QED BY <1>6, <2>1, FS_Subset, FS_CardinalityType
<1>8. a \in Seq(ReadFrom(lora)) /\ Len(a) = Cardinality(R)
  <2> DEFINE read == Chosen(records, R)
  <2>1. read \in Seq(InRecords) /\ ReadsAt(read, records, R)
    BY <1>4, <1>6, ChosenRead
  <2>2. Len(read) = Cardinality(R)
    BY <2>1 DEF ReadsAt
  <2>3. a = [i \in DOMAIN read |-> ReadAs(read[i], lora)]
    BY DEF ReadingsOf, ReadAs
  <2> HIDE DEF read, a, R
  <2>4. DOMAIN read = 1..Len(read) /\ Len(read) \in Nat /\ \A i \in DOMAIN read : read[i] \in InRecords
    BY <2>1
  <2>5. \A i \in DOMAIN read : ReadAs(read[i], lora) \in ReadFrom(lora)
    BY <2>4 DEF ReadFrom
  <2>6. a \in [1..Len(read) -> ReadFrom(lora)]
    BY <2>3, <2>4, <2>5
  <2> QED BY <2>2, <2>4, <2>6, SeqDef
<1> HIDE DEF a, R, N
<1>9. Len(a) \in Nat /\ DOMAIN a = 1..Len(a) /\ V \in SUBSET (1..Len(a)) /\ DOMAIN a \ V \in SUBSET (1..Len(a))
  BY <1>8 DEF ValidOnes
<1>10. \A i \in V : ValidReading(a[i])
  BY DEF ValidOnes
<1>11. \A i \in DOMAIN a \ V : ~ValidReading(a[i])
  BY DEF ValidOnes
<1> HIDE DEF V
<1>12. g \in Seq(ReadFrom(lora)) /\ ReadsAt(g, a, V) /\ IsFiniteSet(V)
  BY <1>8, <1>9, ChosenRead
<1>13. b \in Seq(ReadFrom(lora)) /\ ReadsAt(b, a, DOMAIN a \ V) /\ IsFiniteSet(DOMAIN a \ V)
  BY <1>8, <1>9, ChosenRead
<1> HIDE DEF g, b
<1>14. Len(g) + Len(b) = Len(a) /\ Len(g) \in Nat /\ Len(b) \in Nat
  <2>1. Len(g) = Cardinality(V) /\ Len(b) = Cardinality(DOMAIN a \ V)
    BY <1>12, <1>13 DEF ReadsAt
  <2>2. Cardinality(V \cup (DOMAIN a \ V)) = Cardinality(V) + Cardinality(DOMAIN a \ V) - Cardinality(V \cap (DOMAIN a \ V))
    BY <1>12, <1>13, FS_Union
  <2>3. V \cup (DOMAIN a \ V) = 1..Len(a) /\ V \cap (DOMAIN a \ V) = {}
    BY <1>9
  <2>4. Cardinality(1..Len(a)) = Len(a) /\ Cardinality({}) = 0
    BY <1>9, UpToCounted, FS_EmptySet
  <2>5. Cardinality(V) \in Nat /\ Cardinality(DOMAIN a \ V) \in Nat
    BY <1>12, <1>13, FS_CardinalityType
  <2>6. Len(a) = Cardinality(V) + Cardinality(DOMAIN a \ V) - 0
    BY <2>2, <2>3, <2>4
  <2> DEFINE x == Cardinality(V)
             y == Cardinality(DOMAIN a \ V)
  <2>7. x \in Nat /\ y \in Nat /\ Len(a) = x + y - 0 /\ Len(g) = x /\ Len(b) = y
    BY <2>1, <2>5, <2>6
  <2> HIDE DEF x, y
  <2> QED BY <2>7
<1>15. ~only => Len(k) + Len(bads) = Len(a)
  <2>1. CASE split
    BY <1>14, <2>1
  <2>2. CASE ~split
    <3>1. k = a /\ bads = <<>> /\ Len(bads) = 0
      BY <2>2
    <3> HIDE DEF k, bads
    <3> QED BY <1>9, <3>1
  <2> QED BY <2>1, <2>2
<1>16. \A i \in DOMAIN b : b[i] \in ReadFrom(lora) /\ ~ValidReading(b[i])
  <2> SUFFICES ASSUME NEW i \in DOMAIN b PROVE b[i] \in ReadFrom(lora) /\ ~ValidReading(b[i])
    OBVIOUS
  <2>1. b[i] \in ReadFrom(lora) /\ i \in 1..Len(b)
    BY <1>13
  <2>2. PICK pos : Positions(DOMAIN a \ V, pos) /\ \A j \in 1..Cardinality(DOMAIN a \ V) : b[j] = a[pos[j]]
    BY <1>13 DEF ReadsAt
  <2>3. i \in 1..Cardinality(DOMAIN a \ V)
    BY <1>13, <2>1 DEF ReadsAt
  <2>4. pos[i] \in DOMAIN a \ V /\ b[i] = a[pos[i]]
    BY <2>2, <2>3 DEF Positions
  <2> QED BY <1>11, <2>1, <2>4
<1>17. k \in Seq(ReadFrom(lora))
  BY <1>8, <1>12
<1> DEFINE W == ValidOnes(k)
<1>18. W \in SUBSET (1..Len(k)) /\ \A i \in W : ValidReading(k[i])
  BY <1>17 DEF ValidOnes
<1> HIDE DEF k
<1>19. m = Chosen(k, W)
  BY DEF Metering
<1> HIDE DEF W, m
<1>20. m \in Seq(ReadFrom(lora)) /\ ReadsAt(m, k, W)
  BY <1>17, <1>18, <1>19, ChosenRead
<1>21. \A i \in DOMAIN m : m[i] \in ReadFrom(lora) /\ ValidReading(m[i])
  <2> SUFFICES ASSUME NEW i \in DOMAIN m PROVE m[i] \in ReadFrom(lora) /\ ValidReading(m[i])
    OBVIOUS
  <2>1. m[i] \in ReadFrom(lora) /\ i \in 1..Len(m)
    BY <1>20
  <2>2. PICK pos : Positions(W, pos) /\ \A j \in 1..Cardinality(W) : m[j] = k[pos[j]]
    BY <1>20 DEF ReadsAt
  <2>3. i \in 1..Cardinality(W)
    BY <1>20, <2>1 DEF ReadsAt
  <2>4. pos[i] \in W /\ m[i] = k[pos[i]]
    BY <2>2, <2>3 DEF Positions
  <2> QED BY <1>18, <2>1, <2>4
<1>22. q = "Substitute" => bads # <<>> /\ (k # <<>> \/ only)
  BY DEF Overall, k
<1>23. q = "Invalid" => k = <<>> /\ bads # <<>>
  BY DEF Overall, k
<1>24. \A i \in DOMAIN bads : bads[i] \in ReadFrom(lora) /\ ~ValidReading(bads[i])
  BY <1>16
<1> HIDE DEF bads, q
<1>25. ~only => Len(k) + Len(bads) >= Cardinality(N) /\ Len(k) + Len(bads) <= n
  <2>1. Cardinality(N) \in Nat
    <3>1. IsFiniteSet(N)
      BY <1>5, <1>6, FS_Subset
    <3> QED BY <3>1, FS_CardinalityType
  <2> QED BY <1>4, <1>7, <1>8, <1>15, <2>1
<1>26. \A i \in DOMAIN m :
         /\ QuicklyValid(m[i]) /\ (m[i].value = m[i].of.value \/ (lora /\ m[i].of.as # "number"))
         /\ ~lora => ~m[i].of.alarm
  BY <1>21, ReadingTrue
<1>27. \A i \in DOMAIN bads :
         bads[i].of.alarm \/ ~bads[i].of.known \/ bads[i].of.value \notin (IF bads[i].of.name = "temperature" THEN -50..100 ELSE 0..100)
  BY <1>24, ReadingTrue
<1>28. N = {i \in DOMAIN inReport'.records : inReport'.records[i].as # "text"}
  BY <1>3 DEF N
<1> HIDE DEF all, good, bad, kept
<1> QED BY <1>3, <1>4, <1>22, <1>23, <1>25, <1>26, <1>27, <1>28 DEF ReportsWhole

LEMMA ReportsStep == ReportsWhole /\ [InNext]_inVars => ReportsWhole'
<1> SUFFICES ASSUME ReportsWhole, [InNext]_inVars PROVE ReportsWhole'
  OBVIOUS
<1>1. CASE inReport' = inReport
  BY <1>1 DEF ReportsWhole
<1>2. CASE MakeReport
  BY <1>2, ReportSteps
<1>4. ASSUME NEW t \in InThreads, \/ LooksUp(t) \/ Clears(t) \/ TakesStats(t) \/ Updates(t)
                                 \/ AlertsBegin(t) \/ AlertsAsk(t) \/ AlertsEnd(t)
      PROVE  inReport' = inReport
  BY <1>4 DEF LooksUp, Clears, TakesStats, Updates, AlertsBegin, AlertsAsk, AlertsEnd
<1>5. CASE StartsCall \/ InTick \/ RecordUplink \/ RecordDownlink \/ UNCHANGED inVars
  BY <1>5, <1>1 DEF StartsCall, InCall, InTick, RecordUplink, RecordDownlink, inVars
<1> QED BY <1>1, <1>2, <1>4, <1>5 DEF InNext

LEMMA ReportsStart == InInit => ReportsWhole
<1> SUFFICES ASSUME InInit PROVE ReportsWhole
  OBVIOUS
<1>1. inReport = NoReport /\ ~NoReport.made
  BY DEF InInit, NoReport
<1> QED BY <1>1 DEF ReportsWhole

-----------------------------------------------------------------------------
(* Which format is found for a payload.                                     *)

(* What the signatures and the analyzers can answer.                         *)
Named == {"OMS", "CayenneLPP", "CompactFrame", "Decentlab", "Dragino", "Elvaco", "Sensative", "GenericCounter", "wM-Bus"}
Sure  == {0, 40, 60, 80, 100}
Guesses == [format : Named, confidence : Sure]
CanAnswer == Guesses \cup {LfUnknown}

(* The better one of every guess and of those before it.                     *)
BestStep(f, guesses, from, n) == IF n = 0 THEN from ELSE Better(f[n - 1], guesses[n])
Bests(f, guesses, from, last) == f = [n \in 0..last |-> BestStep(f, guesses, from, n)]

LEMMA BestsExist ==
  ASSUME NEW guesses, NEW from, NEW last \in Nat PROVE \E f : Bests(f, guesses, from, last)
<1> DEFINE S == {n \in Nat : ~\E f : Bests(f, guesses, from, n)}
<1>1. SUFFICES ASSUME S # {} PROVE FALSE
  OBVIOUS
<1>2. PICK m \in S : \A y \in S : m <= y
  BY <1>1, LeastOne
<1>3. CASE m = 0
  <2> DEFINE f == [n \in 0..0 |-> from]
  <2>1. \A n \in 0..0 : BestStep(f, guesses, from, n) = from
    BY DEF BestStep
  <2>2. Bests(f, guesses, from, 0)
    BY <2>1 DEF Bests
  <2> QED BY <1>2, <1>3, <2>2
<1>4. CASE m # 0
  <2>1. m - 1 \in Nat /\ m - 1 \notin S /\ m \in Nat /\ ~\E f : Bests(f, guesses, from, m)
    BY <1>2, <1>4
  <2>2. PICK f : Bests(f, guesses, from, m - 1)
    BY <2>1
  <2> DEFINE g == [n \in 0..m |-> IF n = m THEN BestStep(f, guesses, from, m) ELSE f[n]]
  <2>3. ASSUME NEW n \in 0..m PROVE g[n] = BestStep(g, guesses, from, n)
    <3>1. n # 0 => g[n - 1] = f[n - 1]
      BY <2>1
    <3>2. BestStep(g, guesses, from, n) = BestStep(f, guesses, from, n)
      <4> HIDE DEF g
      <4> QED BY <3>1 DEF BestStep
    <3>3. CASE n = m
      BY <3>2, <3>3
    <3>4. CASE n # m
      <4>1. n \in 0..m - 1 /\ g[n] = f[n]
        BY <2>1, <3>4
      <4>2. f[n] = BestStep(f, guesses, from, n)
        BY <2>2, <4>1 DEF Bests
      <4> QED BY <3>2, <4>1, <4>2
    <3> QED BY <3>3, <3>4
  <2>4. g = [n \in 0..m |-> g[n]]
    OBVIOUS
  <2> HIDE DEF g
  <2>5. Bests(g, guesses, from, m)
    BY <2>3, <2>4 DEF Bests
  <2> QED BY <2>1, <2>5
<1> QED BY <1>3, <1>4

(* The best answer is the one before them, which none of them beats, or the  *)
(* first of the most certain.                                              *)
IsBest(x, guesses, from, n) ==
  /\ x \in CanAnswer /\ from.confidence <= x.confidence
  /\ \A i \in 1..n : guesses[i].confidence <= x.confidence
  /\ \/ x = from
     \/ \E k \in 1..n : /\ x = guesses[k] /\ x.confidence > from.confidence
                        /\ \A i \in 1..k - 1 : guesses[i].confidence < x.confidence

LEMMA AnswerTyped ==
  ASSUME NEW x \in CanAnswer
  PROVE  x.confidence \in Sure /\ x.confidence \in Nat /\ x.confidence <= 100
<1>1. CASE x = LfUnknown
  BY <1>1 DEF LfUnknown, Sure
<1>2. CASE x \in Guesses
  BY <1>2 DEF Guesses, Sure
<1> QED BY <1>1, <1>2 DEF CanAnswer

LEMMA BestIs ==
  ASSUME NEW guesses \in Seq(Guesses), NEW from \in CanAnswer
  PROVE  IsBest(BestOf(guesses, from), guesses, from, Len(guesses))
<1> DEFINE last == Len(guesses)
<1>1. last \in Nat /\ \A i \in 1..last : guesses[i] \in CanAnswer
  BY DEF CanAnswer
<1>2. PICK f : Bests(f, guesses, from, last)
  BY <1>1, BestsExist
<1>3. BestOf(guesses, from) = (CHOOSE h : Bests(h, guesses, from, last))[last]
  BY DEF BestOf, Bests, BestStep
<1> DEFINE h == CHOOSE h : Bests(h, guesses, from, last)
<1>4. Bests(h, guesses, from, last)
  BY <1>2
<1>5. BestOf(guesses, from) = h[last]
  BY <1>3
<1> HIDE DEF h
<1>6. \A n \in 0..last : h[n] = BestStep(h, guesses, from, n)
  BY <1>4 DEF Bests
<1> DEFINE Good(n) == IsBest(h[n], guesses, from, n)
           S == {n \in 0..last : ~Good(n)}
<1>7. S = {}
  <2> SUFFICES ASSUME S # {} PROVE FALSE
    OBVIOUS
  <2>1. PICK m \in S : \A y \in S : m <= y
    <3>1. S \in SUBSET Nat
      BY <1>1
    <3> QED BY <3>1, LeastOne
  <2>2. CASE m = 0
    <3>1. h[0] = from
      BY <1>1, <1>6 DEF BestStep
    <3>2. Good(0)
      BY <3>1, AnswerTyped DEF IsBest
    <3> QED BY <2>1, <2>2, <3>2
  <2>3. CASE m # 0
    <3>0. m \in 0..last
      BY <2>1
    <3>1. m - 1 \notin S
      <4> HIDE DEF S
      <4> QED BY <1>1, <2>1, <3>0
    <3>2. m - 1 \in 0..last /\ m \in 1..last /\ m \in Nat
      <4> HIDE DEF S
      <4> QED BY <1>1, <2>3, <3>0
    <3>3. Good(m - 1)
      BY <3>1, <3>2
    <3> DEFINE x == h[m - 1]
               g == guesses[m]
    <3>4. h[m] = IF g.confidence > x.confidence THEN g ELSE x
      BY <1>6, <2>3, <3>2 DEF BestStep, Better
    <3>5. x \in CanAnswer /\ from.confidence <= x.confidence /\ (\A i \in 1..m - 1 : guesses[i].confidence <= x.confidence)
          /\ (\/ x = from
              \/ \E k \in 1..m - 1 : /\ x = guesses[k] /\ x.confidence > from.confidence
                                     /\ \A i \in 1..k - 1 : guesses[i].confidence < x.confidence)
      BY <3>3 DEF IsBest
    <3>6. g \in CanAnswer /\ g.confidence \in Nat /\ x.confidence \in Nat /\ from.confidence \in Nat
          /\ \A i \in 1..last : guesses[i].confidence \in Nat
      BY <1>1, <3>2, <3>5, AnswerTyped
    <3>9. h[m] = x \/ h[m] = g
      BY <3>4
    <3> HIDE DEF x, g
    <3>7. Good(m)
      <4>1. CASE g.confidence > x.confidence
        <5>1. h[m] = g
          BY <3>4, <4>1
        <5>2. \A i \in 1..m : guesses[i].confidence <= g.confidence
          <6> SUFFICES ASSUME NEW i \in 1..m PROVE guesses[i].confidence <= g.confidence
            OBVIOUS
          <6>1. CASE i = m
            BY <3>6, <6>1 DEF g
          <6>2. CASE i # m
            <7>1. i \in 1..m - 1 /\ i \in 1..last
              BY <3>2, <6>2
            <7> QED BY <3>5, <3>6, <4>1, <7>1
          <6> QED BY <6>1, <6>2
        <5>3. \A i \in 1..m - 1 : guesses[i].confidence < g.confidence
          <6> SUFFICES ASSUME NEW i \in 1..m - 1 PROVE guesses[i].confidence < g.confidence
            OBVIOUS
          <6>1. i \in 1..last
            BY <3>2
          <6> QED BY <3>5, <3>6, <4>1, <6>1
        <5>4. from.confidence <= g.confidence /\ g.confidence > from.confidence
          BY <3>5, <3>6, <4>1
        <5>5. m \in 1..m /\ g = guesses[m]
          BY <3>2 DEF g
        <5> QED BY <3>6, <5>1, <5>2, <5>3, <5>4, <5>5 DEF IsBest
      <4>2. CASE ~(g.confidence > x.confidence)
        <5>1. h[m] = x
          BY <3>4, <4>2
        <5>2. \A i \in 1..m : guesses[i].confidence <= x.confidence
          <6> SUFFICES ASSUME NEW i \in 1..m PROVE guesses[i].confidence <= x.confidence
            OBVIOUS
          <6>1. CASE i = m
            BY <3>6, <4>2, <6>1 DEF g
          <6>2. CASE i # m
            <7>1. i \in 1..m - 1
              BY <3>2, <6>2
            <7> QED BY <3>5, <7>1
          <6> QED BY <6>1, <6>2
        <5>3. \/ x = from
              \/ \E k \in 1..m : /\ x = guesses[k] /\ x.confidence > from.confidence
                                 /\ \A i \in 1..k - 1 : guesses[i].confidence < x.confidence
          <6>1. 1..m - 1 \subseteq 1..m
            BY <3>2
          <6> QED BY <3>5, <6>1
        <5> QED BY <3>5, <5>1, <5>2, <5>3 DEF IsBest
      <4> QED BY <4>1, <4>2
    <3> QED BY <2>1, <3>7
  <2> QED BY <2>2, <2>3
<1>8. Good(last)
  <2>1. last \in 0..last /\ last \notin S
    <3> HIDE DEF S
    <3> QED BY <1>1, <1>7
  <2> QED BY <2>1
<1> QED BY <1>5, <1>8

LEMMA GuessTyped ==
  ASSUME NEW format \in Named, NEW score, NEW least PROVE Guess(format, score, least) \in Guesses
<1>1. FromScore(score) \in Sure
  BY DEF FromScore, Sure
<1>2. (IF score >= least THEN FromScore(score) ELSE 0) \in Sure
  BY <1>1 DEF Sure
<1> QED BY <1>2 DEF Guess, Guesses

LEMMA GuessesTyped ==
  ASSUME NEW p, NEW port
  PROVE  /\ Signatures(p, port) \in Seq(Guesses) /\ Len(Signatures(p, port)) = 7
         /\ Analyzers(p) \in Seq(Guesses) /\ Len(Analyzers(p)) = 2
<1>1. /\ Guess("OMS", OmsScore(p), 1) \in Guesses /\ Guess("CayenneLPP", CayenneScore(p), 1) \in Guesses
      /\ Guess("CompactFrame", CompactScore(p, port), 50) \in Guesses /\ Guess("Decentlab", DecentlabScore(p), 50) \in Guesses
      /\ Guess("Dragino", DraginoScore(p), 1) \in Guesses /\ Guess("Elvaco", ElvacoScore(p), 1) \in Guesses
      /\ Guess("Sensative", SensativeScore(p), 1) \in Guesses
      /\ Guess("GenericCounter", GenericScore(p), 30) \in Guesses /\ Guess("wM-Bus", WMBusScore(p), 50) \in Guesses
  BY GuessTyped DEF Named
<1> QED BY <1>1 DEF Signatures, Analyzers

LEMMA OfConfidenceChosen ==
  ASSUME NEW guesses, NEW c
  PROVE  OfConfidence(guesses, c) = Chosen(guesses, {i \in DOMAIN guesses : guesses[i].confidence = c})
BY DEF OfConfidence, Chosen

(* The guesses of a confidence begin with the first of them.                 *)
LEMMA OfConfidenceFirst ==
  ASSUME NEW guesses \in Seq(Guesses), NEW c
  PROVE  /\ OfConfidence(guesses, c) \in Seq(Guesses)
         /\ (\A i \in 1..Len(guesses) : guesses[i].confidence # c) => OfConfidence(guesses, c) = <<>>
         /\ \A k \in 1..Len(guesses) :
              guesses[k].confidence = c /\ (\A i \in 1..k - 1 : guesses[i].confidence # c)
                => OfConfidence(guesses, c) # <<>> /\ OfConfidence(guesses, c)[1] = guesses[k]
<1> DEFINE P == {i \in DOMAIN guesses : guesses[i].confidence = c}
           q == OfConfidence(guesses, c)
<1>1. P \in SUBSET (1..Len(guesses)) /\ Len(guesses) \in Nat /\ DOMAIN guesses = 1..Len(guesses)
  OBVIOUS
<1>2. q \in Seq(Guesses) /\ ReadsAt(q, guesses, P) /\ IsFiniteSet(P)
  BY <1>1, OfConfidenceChosen, ChosenRead
<1>3. PICK pos : Positions(P, pos) /\ Len(q) = Cardinality(P) /\ \A i \in 1..Cardinality(P) : q[i] = guesses[pos[i]]
  BY <1>2 DEF ReadsAt
<1>4. ASSUME \A i \in 1..Len(guesses) : guesses[i].confidence # c PROVE q = <<>>
  <2>1. P = {}
    BY <1>1, <1>4
  <2>2. Len(q) = 0
    BY <1>3, <2>1, FS_EmptySet
  <2> HIDE DEF q
  <2> QED BY <1>2, <2>2
<1>5. ASSUME NEW k \in 1..Len(guesses), guesses[k].confidence = c, \A i \in 1..k - 1 : guesses[i].confidence # c
      PROVE  q # <<>> /\ q[1] = guesses[k]
  <2>1. k \in P
    BY <1>1, <1>5
  <2> DEFINE n == Cardinality(P)
  <2>2. n \in Nat
    BY <1>2, FS_CardinalityType
  <2>3. PICK j \in 1..n : pos[j] = k
    BY <1>3, <2>1 DEF Positions
  <2>4. pos \in [1..n -> P] /\ \A i, l \in 1..n : i < l => pos[l] - pos[i] >= l - i
    BY <1>3 DEF Positions
  <2> HIDE DEF n
  <2>5. 1 \in 1..n
    BY <2>2, <2>3
  <2>6. pos[1] \in P
    BY <2>4, <2>5
  <2>7. pos[1] \in 1..Len(guesses) /\ guesses[pos[1]].confidence = c
    BY <1>1, <2>6
  <2>8. pos[1] = k
    <3> SUFFICES ASSUME pos[1] # k PROVE FALSE
      OBVIOUS
    <3>1. 1 < j
      <4>1. j # 1
        <5>1. ASSUME j = 1 PROVE FALSE
          <6>1. pos[1] = k
            BY <2>3, <5>1
          <6> QED BY <6>1
        <5> QED BY <5>1
      <4> QED BY <2>2, <2>3, <4>1
    <3>2. pos[j] - pos[1] >= j - 1
      BY <2>4, <2>5, <3>1
    <3>3. pos[1] \in 1..k - 1
      BY <1>1, <2>2, <2>3, <2>7, <3>1, <3>2
    <3> QED BY <1>5, <2>7, <3>3
  <2>9. Len(q) = n /\ q[1] = guesses[k]
    BY <1>3, <2>5, <2>8 DEF n
  <2> HIDE DEF q
  <2> QED BY <1>2, <2>2, <2>3, <2>9
<1> QED BY <1>2, <1>4, <1>5

LEMMA TwoInOne ==
  ASSUME NEW T, NEW s \in Seq(T), NEW a \in Seq(T), Len(s) = 7, Len(a) = 2
  PROVE  /\ s \o a \in Seq(T) /\ Len(s \o a) = 9 /\ (\A i \in 1..7 : (s \o a)[i] = s[i])
         /\ \A i \in 8..9 : (s \o a)[i] = a[i - 7]
<1>1. /\ s \o a \in Seq(T) /\ Len(s \o a) = 7 + 2
      /\ \A i \in 1..7 + 2 : (s \o a)[i] = IF i <= 7 THEN s[i] ELSE a[i - 7]
  <2>1. /\ s \o a \in Seq(T) /\ Len(s \o a) = Len(s) + Len(a)
        /\ \A i \in 1..Len(s) + Len(a) : (s \o a)[i] = IF i <= Len(s) THEN s[i] ELSE a[i - Len(s)]
    BY ConcatProperties, Zenon
  <2> DEFINE b == s \o a
  <2> HIDE DEF b
  <2>2. /\ b \in Seq(T) /\ Len(b) = 7 + 2 /\ \A i \in 1..7 + 2 : b[i] = IF i <= 7 THEN s[i] ELSE a[i - 7]
    BY <2>1 DEF b
  <2> QED BY <2>2 DEF b
<1> DEFINE b == s \o a
<1> HIDE DEF b
<1>2. b \in Seq(T) /\ Len(b) = 7 + 2 /\ \A i \in 1..7 + 2 : b[i] = IF i <= 7 THEN s[i] ELSE a[i - 7]
  BY <1>1 DEF b
<1>3. (\A i \in 1..7 : b[i] = s[i]) /\ \A i \in 8..9 : b[i] = a[i - 7]
  BY <1>2
<1> QED BY <1>2, <1>3 DEF b

LEMMA ElementsOf ==
  ASSUME NEW T, NEW s \in Seq(T), Len(s) = 9 PROVE \A i \in 1..9 : s[i] \in T
OBVIOUS

(* The early answer is the best of all.                                      *)
LEMMA DetectIsBest ==
  ASSUME NEW p, NEW port
  PROVE  /\ Signatures(p, port) \o Analyzers(p) \in Seq(Guesses) /\ Len(Signatures(p, port) \o Analyzers(p)) = 9
         /\ IsBest(Detect(p, port), Signatures(p, port) \o Analyzers(p), LfUnknown, 9)
<1> DEFINE s == Signatures(p, port)
           a == Analyzers(p)
           g == s \o a
           signed == BestOf(s, LfUnknown)
           late == BestOf(a, signed)
<1>1. s \in Seq(Guesses) /\ Len(s) = 7 /\ a \in Seq(Guesses) /\ Len(a) = 2
  BY GuessesTyped
<1>2. LfUnknown \in CanAnswer /\ LfUnknown.confidence = 0
  BY DEF CanAnswer, LfUnknown
<1>3. IsBest(signed, s, LfUnknown, 7)
  BY <1>1, <1>2, BestIs
<1>4. signed \in CanAnswer
  BY <1>3 DEF IsBest
<1>5. IsBest(late, a, signed, 2)
  <2> HIDE DEF s, a, signed
  <2> QED BY <1>1, <1>4, BestIs
<1>6. Detect(p, port) = IF signed.confidence = 100 THEN signed ELSE late
  BY DEF Detect
<1> HIDE DEF s, a, signed, late
<1>7. g \in Seq(Guesses) /\ Len(g) = 9 /\ (\A i \in 1..7 : g[i] = s[i]) /\ \A i \in 8..9 : g[i] = a[i - 7]
  <2> HIDE DEF s, a
  <2> QED BY <1>1, TwoInOne
<1> HIDE DEF g
<1>8. \A i \in 1..9 : g[i] \in CanAnswer /\ g[i].confidence \in Nat /\ g[i].confidence <= 100
  <2>0. \A i \in 1..9 : g[i] \in Guesses
    BY <1>7, ElementsOf
  <2>1. \A i \in 1..9 : g[i] \in CanAnswer
    BY <2>0 DEF CanAnswer
  <2> QED BY <2>1, AnswerTyped
<1>9. \A i \in 1..9 : i \in 1..7 \/ (i \in 8..9 /\ i - 7 \in 1..2)
  OBVIOUS
<1>10. signed.confidence \in Nat /\ signed.confidence <= 100
  BY <1>4, AnswerTyped
<1>11. CASE signed.confidence = 100
  <2>1. \A i \in 1..9 : g[i].confidence <= signed.confidence
    BY <1>8, <1>11
  <2>2. \/ signed = LfUnknown
        \/ \E k \in 1..7 : /\ signed = s[k] /\ signed.confidence > LfUnknown.confidence
                           /\ \A i \in 1..k - 1 : s[i].confidence < signed.confidence
    BY <1>3 DEF IsBest
  <2>3. ASSUME NEW k \in 1..7, signed = s[k], signed.confidence > LfUnknown.confidence,
               \A i \in 1..k - 1 : s[i].confidence < signed.confidence
        PROVE  /\ k \in 1..9 /\ signed = g[k] /\ signed.confidence > LfUnknown.confidence
               /\ \A i \in 1..k - 1 : g[i].confidence < signed.confidence
    <3>1. \A i \in 1..k - 1 : i \in 1..7
      OBVIOUS
    <3> QED BY <1>7, <2>3, <3>1
  <2>4. IsBest(signed, g, LfUnknown, 9)
    BY <1>2, <1>4, <1>10, <2>1, <2>2, <2>3 DEF IsBest
  <2> QED BY <1>6, <1>7, <1>11, <2>4 DEF g, s, a
<1>12. CASE signed.confidence # 100
  <2>0. late \in CanAnswer /\ signed.confidence <= late.confidence /\ (\A i \in 1..2 : a[i].confidence <= late.confidence)
        /\ (\/ late = signed
            \/ \E k \in 1..2 : /\ late = a[k] /\ late.confidence > signed.confidence
                               /\ \A i \in 1..k - 1 : a[i].confidence < late.confidence)
    BY <1>5 DEF IsBest
  <2>1. late.confidence \in Nat
    BY <2>0, AnswerTyped
  <2>2. \A i \in 1..7 : s[i].confidence <= signed.confidence
    BY <1>3 DEF IsBest
  <2>3. \A i \in 1..9 : g[i].confidence <= late.confidence
    <3> SUFFICES ASSUME NEW i \in 1..9 PROVE g[i].confidence <= late.confidence
      OBVIOUS
    <3>1. CASE i \in 1..7
      <4>1. g[i] = s[i] /\ g[i].confidence \in Nat /\ s[i].confidence <= signed.confidence
        BY <1>7, <1>8, <2>2, <3>1
      <4>2. g[i].confidence <= signed.confidence /\ signed.confidence <= late.confidence
        BY <2>0, <4>1
      <4> QED BY <1>10, <2>1, <4>1, <4>2
    <3>2. CASE i \in 8..9
      BY <1>7, <1>9, <2>0, <3>2
    <3> QED BY <1>9, <3>1, <3>2
  <2>4. CASE late = signed
    <3>1. \/ signed = LfUnknown
          \/ \E k \in 1..7 : /\ signed = s[k] /\ signed.confidence > LfUnknown.confidence
                             /\ \A i \in 1..k - 1 : s[i].confidence < signed.confidence
      BY <1>3 DEF IsBest
    <3>2. ASSUME NEW k \in 1..7, signed = s[k], signed.confidence > LfUnknown.confidence,
                 \A i \in 1..k - 1 : s[i].confidence < signed.confidence
          PROVE  /\ k \in 1..9 /\ late = g[k] /\ late.confidence > LfUnknown.confidence
                 /\ \A i \in 1..k - 1 : g[i].confidence < late.confidence
      <4>1. \A i \in 1..k - 1 : i \in 1..7
        OBVIOUS
      <4> QED BY <1>7, <2>4, <3>2, <4>1
    <3>3. IsBest(late, g, LfUnknown, 9)
      BY <1>2, <2>0, <2>1, <2>3, <2>4, <3>1, <3>2 DEF IsBest
    <3> QED BY <1>6, <1>7, <1>12, <3>3 DEF g, s, a
  <2>5. ASSUME NEW k \in 1..2, late = a[k], late.confidence > signed.confidence, \A i \in 1..k - 1 : a[i].confidence < late.confidence
        PROVE  IsBest(late, g, LfUnknown, 9)
    <3>1. k + 7 \in 1..9 /\ late = g[k + 7] /\ late.confidence > LfUnknown.confidence
      <4>1. k + 7 \in 8..9 /\ k + 7 - 7 = k
        OBVIOUS
      <4> QED BY <1>2, <1>7, <1>10, <2>1, <2>5, <4>1
    <3>2. ASSUME NEW i \in 1..k + 7 - 1 PROVE g[i].confidence < late.confidence
      <4>1. CASE i \in 1..7
        <5>1. g[i] = s[i] /\ g[i].confidence \in Nat /\ s[i].confidence <= signed.confidence
          <6>1. i \in 1..9
            BY <4>1
          <6> QED BY <1>7, <1>8, <2>2, <4>1, <6>1
        <5>2. g[i].confidence <= signed.confidence /\ late.confidence > signed.confidence
          BY <2>5, <5>1
        <5> QED BY <1>10, <2>1, <5>1, <5>2
      <4>2. CASE i \notin 1..7
        <5>1. i \in 8..9 /\ i - 7 \in 1..k - 1
          BY <4>2
        <5> QED BY <1>7, <2>5, <5>1
      <4> QED BY <4>1, <4>2
    <3> QED BY <1>2, <2>0, <2>1, <2>3, <3>1, <3>2 DEF IsBest
  <2>6. IsBest(late, g, LfUnknown, 9)
    BY <2>0, <2>4, <2>5, <1>6, <1>7, <1>12 DEF g, s, a
  <2> QED BY <1>6, <1>7, <1>12, <2>6 DEF g, s, a
<1> QED BY <1>11, <1>12

LEMMA AgreesAlways ==
  ASSUME NEW p, NEW port
  PROVE  Detect(p, port) = IF DetectAll(p, port) = <<>> THEN LfUnknown ELSE Head(DetectAll(p, port))
<1> DEFINE g == Signatures(p, port) \o Analyzers(p)
           x == Detect(p, port)
           A == OfConfidence(g, 100)
           B == OfConfidence(g, 80)
           C == OfConfidence(g, 60)
           D == OfConfidence(g, 40)
<1>1. g \in Seq(Guesses) /\ Len(g) = 9 /\ IsBest(x, g, LfUnknown, 9)
  BY DetectIsBest
<1>2. DetectAll(p, port) = A \o B \o C \o D
  BY DEF DetectAll
<1> HIDE DEF g, x
<1>3. /\ x \in CanAnswer /\ \A i \in 1..9 : g[i].confidence <= x.confidence
      /\ \/ x = LfUnknown
         \/ \E k \in 1..9 : /\ x = g[k] /\ x.confidence > LfUnknown.confidence
                            /\ \A i \in 1..k - 1 : g[i].confidence < x.confidence
  BY <1>1 DEF IsBest
<1>4. \A i \in 1..9 : g[i].confidence \in Nat
  <2>0. \A i \in 1..9 : g[i] \in Guesses
    BY <1>1, ElementsOf
  <2>1. \A i \in 1..9 : g[i] \in CanAnswer
    BY <2>0 DEF CanAnswer
  <2> QED BY <2>1, AnswerTyped
<1>5. x.confidence \in Sure /\ x.confidence \in Nat /\ LfUnknown.confidence = 0
  BY <1>3, AnswerTyped DEF LfUnknown
<1>6. ASSUME NEW c \in Nat, c > x.confidence PROVE OfConfidence(g, c) = <<>>
  <2>1. \A i \in 1..Len(g) : g[i].confidence # c
    <3> SUFFICES ASSUME NEW i \in 1..9, g[i].confidence = c PROVE FALSE
      BY <1>1
    <3>1. c <= x.confidence
      BY <1>3
    <3> QED BY <1>5, <1>6, <3>1
  <2> QED BY <1>1, <2>1, OfConfidenceFirst
<1>7. A \in Seq(Guesses) /\ B \in Seq(Guesses) /\ C \in Seq(Guesses) /\ D \in Seq(Guesses)
  BY <1>1, OfConfidenceFirst
<1>8. ASSUME x # LfUnknown PROVE OfConfidence(g, x.confidence) # <<>> /\ OfConfidence(g, x.confidence)[1] = x /\ x.confidence # 0
  <2>1. PICK k \in 1..9 : /\ x = g[k] /\ x.confidence > LfUnknown.confidence
                          /\ \A i \in 1..k - 1 : g[i].confidence < x.confidence
    BY <1>3, <1>8
  <2>2. \A i \in 1..k - 1 : i \in 1..9
    OBVIOUS
  <2>3. k \in 1..Len(g) /\ g[k].confidence = x.confidence /\ \A i \in 1..k - 1 : g[i].confidence # x.confidence
    <3>1. \A i \in 1..k - 1 : g[i].confidence # x.confidence
      <4> SUFFICES ASSUME NEW i \in 1..k - 1, g[i].confidence = x.confidence PROVE FALSE
        OBVIOUS
      <4>1. x.confidence < x.confidence
        BY <2>1
      <4> QED BY <1>5, <4>1
    <3> QED BY <1>1, <2>1, <3>1
  <2> DEFINE c == x.confidence
  <2> HIDE DEF c
  <2>4. OfConfidence(g, c) # <<>> /\ OfConfidence(g, c)[1] = g[k]
    BY <1>1, <2>3, OfConfidenceFirst DEF c
  <2> QED BY <1>5, <2>1, <2>4 DEF c
<1>9. CASE x = LfUnknown
  <2>1. A = <<>> /\ B = <<>> /\ C = <<>> /\ D = <<>>
    BY <1>5, <1>6, <1>9
  <2>2. A \o B \o C \o D = <<>>
    BY <2>1
  <2> QED BY <1>2, <1>9, <2>2 DEF x
<1>10. CASE x # LfUnknown
  <2>1. x.confidence \in {100, 80, 60, 40}
    BY <1>5, <1>8, <1>10 DEF Sure
  <2>2. (A \o B \o C \o D) # <<>> /\ Head(A \o B \o C \o D) = x
    <3> HIDE DEF A, B, C, D
    <3>1. CASE x.confidence = 100
      <4>1. A # <<>> /\ A[1] = x
        BY <1>8, <1>10, <3>1 DEF A
      <4> QED BY <1>7, <4>1
    <3>2. CASE x.confidence = 80
      <4>1. B # <<>> /\ B[1] = x
        BY <1>8, <1>10, <3>2 DEF B
      <4>2. A = <<>>
        BY <1>6, <3>2 DEF A
      <4> QED BY <1>7, <4>1, <4>2
    <3>3. CASE x.confidence = 60
      <4>1. C # <<>> /\ C[1] = x
        BY <1>8, <1>10, <3>3 DEF C
      <4>2. A = <<>> /\ B = <<>>
        BY <1>6, <3>3 DEF A, B
      <4> QED BY <1>7, <4>1, <4>2
    <3>4. CASE x.confidence = 40
      <4>1. D # <<>> /\ D[1] = x
        BY <1>8, <1>10, <3>4 DEF D
      <4>2. A = <<>> /\ B = <<>> /\ C = <<>>
        BY <1>6, <3>4 DEF A, B, C
      <4> QED BY <1>7, <4>1, <4>2
    <3> QED BY <2>1, <3>1, <3>2, <3>3, <3>4
  <2> QED BY <1>2, <2>2 DEF x
<1> QED BY <1>9, <1>10

-----------------------------------------------------------------------------
(* What is heard from a device and what is learnt of it.                    *)

Packet == [found : Named \cup {"Unknown", "registered"}, confidence : Nat, learnt : BOOLEAN]


(* How sure the guesses were, together, up to the last packet.               *)
SureStep(f, heard, n) ==
  IF n = 0 THEN 0
    ELSE f[n - 1] + (IF heard[n].learnt /\ heard[n].found # "registered" THEN heard[n].confidence ELSE 0)
Sureties(f, heard, last) == f = [n \in 0..last |-> SureStep(f, heard, n)]

LEMMA SuretiesExist ==
  ASSUME NEW heard, NEW last \in Nat PROVE \E f : Sureties(f, heard, last)
<1> DEFINE S == {n \in Nat : ~\E f : Sureties(f, heard, n)}
<1>1. SUFFICES ASSUME S # {} PROVE FALSE
  OBVIOUS
<1>2. PICK m \in S : \A y \in S : m <= y
  BY <1>1, LeastOne
<1>3. CASE m = 0
  <2> DEFINE f == [n \in 0..0 |-> 0]
  <2>1. \A n \in 0..0 : SureStep(f, heard, n) = 0
    BY DEF SureStep
  <2>2. Sureties(f, heard, 0)
    BY <2>1 DEF Sureties
  <2> QED BY <1>2, <1>3, <2>2
<1>4. CASE m # 0
  <2>1. m - 1 \in Nat /\ m - 1 \notin S /\ m \in Nat /\ ~\E f : Sureties(f, heard, m)
    BY <1>2, <1>4
  <2>2. PICK f : Sureties(f, heard, m - 1)
    BY <2>1
  <2> DEFINE g == [n \in 0..m |-> IF n = m THEN SureStep(f, heard, m) ELSE f[n]]
  <2>3. ASSUME NEW n \in 0..m PROVE g[n] = SureStep(g, heard, n)
    <3>1. n # 0 => g[n - 1] = f[n - 1]
      BY <2>1
    <3>2. SureStep(g, heard, n) = SureStep(f, heard, n)
      <4> HIDE DEF g
      <4> QED BY <3>1 DEF SureStep
    <3>3. CASE n = m
      BY <3>2, <3>3
    <3>4. CASE n # m
      <4>1. n \in 0..m - 1 /\ g[n] = f[n]
        BY <2>1, <3>4
      <4>2. f[n] = SureStep(f, heard, n)
        BY <2>2, <4>1 DEF Sureties
      <4> QED BY <3>2, <4>1, <4>2
    <3> QED BY <3>3, <3>4
  <2>4. g = [n \in 0..m |-> g[n]]
    OBVIOUS
  <2> HIDE DEF g
  <2>5. Sureties(g, heard, m)
    BY <2>3, <2>4 DEF Sureties
  <2> QED BY <2>1, <2>5
<1> QED BY <1>3, <1>4

LEMMA SuretiesAgree ==
  ASSUME NEW heard, NEW more, NEW f, NEW g, NEW last \in Nat, NEW longer \in Nat, last <= longer,
         Sureties(f, heard, last), Sureties(g, more, longer),
         \A n \in 1..last : more[n] = heard[n] /\ heard[n].confidence \in Nat
  PROVE  (\A n \in 0..last : f[n] = g[n] /\ f[n] \in Nat) /\ \A n \in 0..longer : g[n] = SureStep(g, more, n)
<1>1. \A n \in 0..last : f[n] = SureStep(f, heard, n)
  BY DEF Sureties
<1>2. \A n \in 0..longer : g[n] = SureStep(g, more, n)
  BY DEF Sureties
<1> DEFINE S == {n \in 0..last : ~(f[n] = g[n] /\ f[n] \in Nat)}
<1>3. S = {}
  <2> SUFFICES ASSUME S # {} PROVE FALSE
    OBVIOUS
  <2>1. PICK m \in S : \A y \in S : m <= y
    <3>1. S \in SUBSET Nat
      OBVIOUS
    <3> QED BY <3>1, LeastOne
  <2>2. m \in 0..last /\ m \in 0..longer
    OBVIOUS
  <2>3. CASE m = 0
    <3>1. f[0] = 0 /\ g[0] = 0
      BY <1>1, <1>2, <2>2, <2>3 DEF SureStep
    <3>2. f[m] = g[m] /\ f[m] \in Nat
      BY <2>3, <3>1
    <3> QED BY <2>1, <3>2
  <2>4. CASE m # 0
    <3>1. m - 1 \in 0..last /\ m \in 1..last
      BY <2>2, <2>4
    <3>2. m - 1 \notin S
      <4> HIDE DEF S
      <4> QED BY <2>1, <2>2
    <3>3. f[m - 1] = g[m - 1] /\ f[m - 1] \in Nat
      BY <3>1, <3>2
    <3>4. more[m] = heard[m] /\ heard[m].confidence \in Nat
      BY <3>1
    <3>5. SureStep(f, heard, m) = SureStep(g, more, m) /\ SureStep(f, heard, m) \in Nat
      BY <2>4, <3>3, <3>4 DEF SureStep
    <3> QED BY <1>1, <1>2, <2>1, <2>2, <3>5
  <2> QED BY <2>3, <2>4
<1> QED BY <1>2, <1>3

LEMMA OneMore ==
  ASSUME NEW n \in Nat, NEW A \in SUBSET (1..n), NEW c \in BOOLEAN
  PROVE  /\ Cardinality(A \cup (IF c THEN {n + 1} ELSE {})) = Cardinality(A) + (IF c THEN 1 ELSE 0)
         /\ Cardinality(A) \in Nat
<1>1. IsFiniteSet(A)
  BY UpToCounted, FS_Subset
<1>2. n + 1 \notin A
  OBVIOUS
<1>3. Cardinality(A) \in Nat
  BY <1>1, FS_CardinalityType
<1>4. CASE c
  <2>1. Cardinality(A \cup {n + 1}) = Cardinality(A) + 1
    BY <1>1, <1>2, FS_AddElement
  <2> QED BY <1>3, <1>4, <2>1
<1>5. CASE ~c
  <2>1. A \cup {} = A
    OBVIOUS
  <2> QED BY <1>3, <1>5, <2>1
<1> QED BY <1>4, <1>5

KnownHeard(heard) == Learnt(heard) \ FoundAs(heard, "Unknown")
One(c) == IF c THEN 1 ELSE 0

(* One packet more counts where it belongs.                                  *)
LEMMA OneHeard ==
  ASSUME NEW heard \in Seq(Packet), NEW h \in Packet
  PROVE  /\ Append(heard, h) \in Seq(Packet)
         /\ \A f : /\ Cardinality(FoundAs(Append(heard, h), f)) = Cardinality(FoundAs(heard, f)) + One(h.learnt /\ h.found = f)
                   /\ Cardinality(FoundAs(heard, f)) \in Nat
                   /\ FoundAs(heard, f) \subseteq FoundAs(Append(heard, h), f)
                   /\ h.learnt /\ h.found = f => FoundAs(Append(heard, h), f) # {}
         /\ Cardinality(KnownHeard(Append(heard, h))) = Cardinality(KnownHeard(heard)) + One(h.learnt /\ h.found # "Unknown")
         /\ Cardinality(KnownHeard(heard)) \in Nat
         /\ Cardinality(Detected(Append(heard, h))) = Cardinality(Detected(heard)) + One(h.learnt /\ h.found # "registered")
         /\ Cardinality(Detected(heard)) \in Nat
         /\ Confidences(Append(heard, h)) = Confidences(heard) + (IF h.learnt /\ h.found # "registered" THEN h.confidence ELSE 0)
         /\ Confidences(heard) \in Nat
<1> DEFINE n == Len(heard)
           more == Append(heard, h)
<1>1. n \in Nat /\ DOMAIN heard = 1..n /\ \A i \in 1..n : heard[i] \in Packet
  OBVIOUS
<1>2. /\ more \in Seq(Packet) /\ Len(more) = n + 1 /\ DOMAIN more = 1..n + 1 /\ more[n + 1] = h
      /\ \A i \in 1..n : more[i] = heard[i]
  BY <1>1
<1> HIDE DEF more, n
<1>3. h.learnt \in BOOLEAN /\ h.confidence \in Nat
  BY DEF Packet
<1>4. \A i : i \in 1..n + 1 <=> i \in 1..n \/ i = n + 1
  BY <1>1
<1>5. n + 1 \notin 1..n
  BY <1>1
<1>6. Learnt(more) = Learnt(heard) \cup (IF h.learnt THEN {n + 1} ELSE {}) /\ Learnt(heard) \in SUBSET (1..n)
  <2>1. ASSUME NEW i PROVE i \in Learnt(more) <=> i \in Learnt(heard) \/ (i = n + 1 /\ h.learnt)
    BY <1>1, <1>2, <1>4, <1>5 DEF Learnt
  <2>2. Learnt(heard) \in SUBSET (1..n)
    BY <1>1 DEF Learnt
  <2> QED BY <2>1, <2>2
<1>7. ASSUME NEW f
      PROVE  /\ FoundAs(more, f) = FoundAs(heard, f) \cup (IF h.learnt /\ h.found = f THEN {n + 1} ELSE {})
             /\ FoundAs(heard, f) \in SUBSET (1..n)
  <2>1. ASSUME NEW i PROVE i \in FoundAs(more, f) <=> i \in FoundAs(heard, f) \/ (i = n + 1 /\ h.learnt /\ h.found = f)
    <3>1. CASE i = n + 1
      BY <1>2, <1>5, <1>6, <3>1 DEF FoundAs
    <3>2. CASE i # n + 1
      <4>1. i \in Learnt(more) <=> i \in Learnt(heard)
        BY <1>6, <3>2
      <4>2. i \in Learnt(heard) => more[i] = heard[i]
        BY <1>2, <1>6
      <4> QED BY <3>2, <4>1, <4>2 DEF FoundAs
    <3> QED BY <3>1, <3>2
  <2>2. FoundAs(heard, f) \in SUBSET (1..n)
    BY <1>6 DEF FoundAs
  <2> QED BY <2>1, <2>2
<1>8. /\ KnownHeard(more) = KnownHeard(heard) \cup (IF h.learnt /\ h.found # "Unknown" THEN {n + 1} ELSE {})
      /\ KnownHeard(heard) \in SUBSET (1..n)
  <2>1. ASSUME NEW i PROVE i \in KnownHeard(more) <=> i \in KnownHeard(heard) \/ (i = n + 1 /\ h.learnt /\ h.found # "Unknown")
    <3>1. i \in Learnt(more) <=> i \in Learnt(heard) \/ (i = n + 1 /\ h.learnt)
      BY <1>6
    <3>2. i \in FoundAs(more, "Unknown") <=> i \in FoundAs(heard, "Unknown") \/ (i = n + 1 /\ h.learnt /\ h.found = "Unknown")
      BY <1>7
    <3>3. i = n + 1 => i \notin Learnt(heard) /\ i \notin FoundAs(heard, "Unknown")
      BY <1>5, <1>6, <1>7
    <3> QED BY <3>1, <3>2, <3>3 DEF KnownHeard
  <2>2. KnownHeard(heard) \in SUBSET (1..n)
    BY <1>6 DEF KnownHeard
  <2> QED BY <2>1, <2>2
<1>9. /\ Detected(more) = Detected(heard) \cup (IF h.learnt /\ h.found # "registered" THEN {n + 1} ELSE {})
      /\ Detected(heard) \in SUBSET (1..n)
  <2>1. ASSUME NEW i PROVE i \in Detected(more) <=> i \in Detected(heard) \/ (i = n + 1 /\ h.learnt /\ h.found # "registered")
    <3>1. CASE i = n + 1
      BY <1>2, <1>5, <1>6, <3>1 DEF Detected
    <3>2. CASE i # n + 1
      <4>1. i \in Learnt(more) <=> i \in Learnt(heard)
        BY <1>6, <3>2
      <4>2. i \in Learnt(heard) => more[i] = heard[i]
        BY <1>2, <1>6
      <4> QED BY <3>2, <4>1, <4>2 DEF Detected
    <3> QED BY <3>1, <3>2
  <2>2. Detected(heard) \in SUBSET (1..n)
    BY <1>6 DEF Detected
  <2> QED BY <2>1, <2>2
<1>10. ASSUME NEW f
       PROVE  /\ Cardinality(FoundAs(more, f)) = Cardinality(FoundAs(heard, f)) + One(h.learnt /\ h.found = f)
              /\ Cardinality(FoundAs(heard, f)) \in Nat
              /\ FoundAs(heard, f) \subseteq FoundAs(more, f)
              /\ h.learnt /\ h.found = f => FoundAs(more, f) # {}
  <2>1. (h.learnt /\ h.found = f) \in BOOLEAN
    OBVIOUS
  <2>2. Cardinality(FoundAs(heard, f) \cup (IF h.learnt /\ h.found = f THEN {n + 1} ELSE {})) =
          Cardinality(FoundAs(heard, f)) + (IF h.learnt /\ h.found = f THEN 1 ELSE 0) /\ Cardinality(FoundAs(heard, f)) \in Nat
    BY <1>1, <1>7, <2>1, OneMore
  <2> QED BY <1>7, <2>2 DEF One
<1>11. /\ Cardinality(KnownHeard(more)) = Cardinality(KnownHeard(heard)) + One(h.learnt /\ h.found # "Unknown")
       /\ Cardinality(KnownHeard(heard)) \in Nat
  <2> DEFINE A == KnownHeard(heard)
             c == h.learnt /\ h.found # "Unknown"
  <2>1. c \in BOOLEAN
    OBVIOUS
  <2>2. n \in Nat /\ A \in SUBSET (1..n)
    BY <1>1, <1>8
  <2>3. KnownHeard(more) = A \cup (IF c THEN {n + 1} ELSE {})
    BY <1>8
  <2> HIDE DEF A, c
  <2>4. /\ Cardinality(A \cup (IF c THEN {n + 1} ELSE {})) = Cardinality(A) + (IF c THEN 1 ELSE 0)
        /\ Cardinality(A) \in Nat
    BY <2>1, <2>2, OneMore
  <2>5. Cardinality(KnownHeard(more)) = Cardinality(A) + One(c) /\ Cardinality(A) \in Nat
    BY <2>3, <2>4 DEF One
  <2> QED BY <2>5 DEF A, c
<1>12. /\ Cardinality(Detected(more)) = Cardinality(Detected(heard)) + One(h.learnt /\ h.found # "registered")
       /\ Cardinality(Detected(heard)) \in Nat
  <2> DEFINE A == Detected(heard)
             c == h.learnt /\ h.found # "registered"
  <2>1. c \in BOOLEAN
    OBVIOUS
  <2>2. n \in Nat /\ A \in SUBSET (1..n)
    BY <1>1, <1>9
  <2>3. Detected(more) = A \cup (IF c THEN {n + 1} ELSE {})
    BY <1>9
  <2> HIDE DEF A, c
  <2>4. /\ Cardinality(A \cup (IF c THEN {n + 1} ELSE {})) = Cardinality(A) + (IF c THEN 1 ELSE 0)
        /\ Cardinality(A) \in Nat
    BY <2>1, <2>2, OneMore
  <2>5. Cardinality(Detected(more)) = Cardinality(A) + One(c) /\ Cardinality(A) \in Nat
    BY <2>3, <2>4 DEF One
  <2> QED BY <2>5 DEF A, c
<1>13. /\ Confidences(more) = Confidences(heard) + (IF h.learnt /\ h.found # "registered" THEN h.confidence ELSE 0)
       /\ Confidences(heard) \in Nat
  <2> DEFINE a == CHOOSE f : Sureties(f, heard, n)
             b == CHOOSE f : Sureties(f, more, n + 1)
  <2>1. Confidences(heard) = a[n]
    BY DEF Confidences, Sureties, SureStep, n
  <2>2. Confidences(more) = b[n + 1]
    <3>1. Confidences(more) = (CHOOSE f : Sureties(f, more, Len(more)))[Len(more)]
      BY DEF Confidences, Sureties, SureStep
    <3> QED BY <1>2, <3>1
  <2>3. Sureties(a, heard, n) /\ Sureties(b, more, n + 1)
    <3>1. n + 1 \in Nat
      BY <1>1
    <3> QED BY <1>1, <3>1, SuretiesExist
  <2> HIDE DEF a, b
  <2>4. \A i \in 1..n : more[i] = heard[i] /\ heard[i].confidence \in Nat
    <3> SUFFICES ASSUME NEW i \in 1..n PROVE heard[i].confidence \in Nat
      BY <1>2
    <3>1. heard[i] \in Packet
      BY <1>1
    <3> QED BY <3>1 DEF Packet
  <2>5. n + 1 \in Nat /\ n <= n + 1
    BY <1>1
  <2>6. (\A i \in 0..n : a[i] = b[i] /\ a[i] \in Nat) /\ \A i \in 0..n + 1 : b[i] = SureStep(b, more, i)
    <3> DEFINE m == n + 1
    <3>1. n \in Nat /\ m \in Nat /\ n <= m
      BY <1>1, <2>5
    <3>2. Sureties(a, heard, n) /\ Sureties(b, more, m)
      BY <2>3
    <3> HIDE DEF m
    <3>5. Sureties(a, heard, n)
      BY <3>2
    <3>6. Sureties(b, more, m)
      BY <3>2
    <3>7. n \in Nat
      BY <3>1
    <3>8. m \in Nat
      BY <3>1
    <3>9. n <= m
      BY <3>1
    <3>3. \A i \in 0..n : a[i] = b[i] /\ a[i] \in Nat
      BY <2>4, <3>5, <3>6, <3>7, <3>8, <3>9, SuretiesAgree, Zenon
    <3>4. \A i \in 0..m : b[i] = SureStep(b, more, i)
      BY <3>6 DEF Sureties
    <3> QED BY <3>3, <3>4 DEF m
  <2>7. n \in 0..n /\ n + 1 \in 0..n + 1 /\ n + 1 # 0 /\ n + 1 - 1 = n
    BY <1>1
  <2>8. b[n + 1] = b[n] + (IF h.learnt /\ h.found # "registered" THEN h.confidence ELSE 0)
    BY <1>2, <2>6, <2>7 DEF SureStep
  <2> QED BY <2>1, <2>2, <2>6, <2>7, <2>8
<1> QED BY <1>2, <1>10, <1>11, <1>12, <1>13 DEF more

Kinds   == Named \cup {"RawBinary"}
Tallies == UNION {[F -> Nat] : F \in SUBSET Kinds}
Tally   == [formats : Tallies, last : Kinds \cup {"none"}, failed : Nat, total : Nat, avg : Int \X Int]
As(f)   == IF f = "RawBinary" THEN "registered" ELSE f

(* The statistics of a device and what was heard from it agree.              *)
Accounts(s, heard) ==
  /\ s.failed = 0 /\ s.total = Cardinality(KnownHeard(heard))
  /\ \A f \in Kinds : CountOf(s, f) = Cardinality(FoundAs(heard, As(f)))
  /\ FoundAs(heard, "Unknown") = {} => s.avg[1] * Cardinality(Detected(heard)) = s.avg[2] * Confidences(heard)
Registers(decoder, why, heard) ==
  /\ decoder = NotYet => \A i \in DOMAIN heard : heard[i].found # "registered"
  /\ decoder # NotYet => why.confidence = 100 \/ (why.count >= 3 /\ Cardinality(FoundAs(heard, decoder)) >= 3)
  /\ \A i, j \in DOMAIN heard : i < j /\ heard[i].found = "registered" => heard[j].found = "registered"
FormatsInv ==
  /\ lfHeard \in [LfDevices -> Seq(Packet)] /\ lfStats \in [LfDevices -> Tally]
  /\ lfDecoder \in [LfDevices -> Named \cup {NotYet}] /\ lfLearning \in BOOLEAN
  /\ lfWhy \in [LfDevices -> [confidence : Nat, count : Nat]]
  /\ \A d \in LfDevices : Accounts(lfStats[d], lfHeard[d]) /\ Registers(lfDecoder[d], lfWhy[d], lfHeard[d])

LEMMA NothingHeard ==
  /\ <<>> \in Seq(Packet) /\ KnownHeard(<<>>) = {} /\ Detected(<<>>) = {} /\ (\A f : FoundAs(<<>>, f) = {})
  /\ Confidences(<<>>) = 0 /\ Cardinality({}) = 0
<1>1. Learnt(<<>>) = {}
  BY DEF Learnt
<1>2. PICK h : Sureties(h, <<>>, 0)
  BY SuretiesExist
<1> DEFINE a == CHOOSE f : Sureties(f, <<>>, Len(<<>>))
<1>3. Confidences(<<>>) = a[Len(<<>>)]
  BY DEF Confidences, Sureties, SureStep
<1>4. Len(<<>>) = 0
  OBVIOUS
<1>5. Sureties(a, <<>>, 0)
  BY <1>2, <1>4
<1> HIDE DEF a
<1>6. a[0] = 0
  BY <1>5 DEF Sureties, SureStep
<1> QED BY <1>1, <1>3, <1>4, <1>6, FS_EmptySet DEF KnownHeard, Detected, FoundAs

LEMMA FormatsStart == LfInit => FormatsInv
<1> SUFFICES ASSUME LfInit PROVE FormatsInv
  OBVIOUS
<1>1. Unseen \in Tally /\ Unseen.failed = 0 /\ Unseen.total = 0 /\ Unseen.avg[1] = 0 /\ Unseen.avg[2] = 1
      /\ \A f : CountOf(Unseen, f) = 0
  <2>1. [f \in {} |-> 0] \in [{} -> Nat]
    OBVIOUS
  <2>2. [f \in {} |-> 0] \in Tallies
    BY <2>1 DEF Tallies
  <2>3. DOMAIN [f \in {} |-> 0] = {}
    OBVIOUS
  <2> DEFINE none == [f \in {} |-> 0]
  <2> HIDE DEF none
  <2>4. Unseen = [formats |-> none, last |-> "none", failed |-> 0, total |-> 0, avg |-> <<0, 1>>]
    BY DEF Unseen, none
  <2>5. Unseen.formats = none /\ none \in Tallies /\ DOMAIN none = {}
    BY <2>2, <2>3, <2>4 DEF none
  <2>6. <<0, 1>> \in Int \X Int /\ <<0, 1>>[1] = 0 /\ <<0, 1>>[2] = 1
    OBVIOUS
  <2>7. Unseen.failed = 0 /\ Unseen.total = 0 /\ Unseen.avg = <<0, 1>> /\ Unseen.last = "none"
    BY <2>4
  <2>8. Unseen \in Tally
    BY <2>4, <2>5, <2>6 DEF Tally
  <2>9. \A f : CountOf(Unseen, f) = 0
    BY <2>5 DEF CountOf
  <2> QED BY <2>6, <2>7, <2>8, <2>9
<1>2. Accounts(Unseen, <<>>)
  <2>1. Unseen.avg[1] * Cardinality(Detected(<<>>)) = Unseen.avg[2] * Confidences(<<>>)
    <3>1. Unseen.avg[1] = 0 /\ Unseen.avg[2] = 1
      BY <1>1
    <3>2. Cardinality(Detected(<<>>)) = 0 /\ Confidences(<<>>) = 0
      BY NothingHeard
    <3> QED BY <3>1, <3>2
  <2>2. \A f : Cardinality(FoundAs(<<>>, f)) = 0
    BY NothingHeard
  <2> QED BY <1>1, <2>1, <2>2, NothingHeard DEF Accounts
<1>3. \A why : Registers(NotYet, why, <<>>)
  BY DEF Registers
<1> QED BY <1>1, <1>2, <1>3, NothingHeard DEF LfInit, FormatsInv

LEMMA FormatsHold == FormatsInv => FormatsLearnt
<1> SUFFICES ASSUME FormatsInv PROVE FormatsLearnt
  OBVIOUS
<1>1. DetectAgrees
  BY AgreesAlways DEF DetectAgrees
<1>2. RegisteredForGood
  BY DEF FormatsInv, Registers, RegisteredForGood
<1>3. StatsAccount
  <2> SUFFICES ASSUME NEW d \in LfDevices
               PROVE  LET s == lfStats[d] heard == lfHeard[d] IN
                      /\ s.failed = 0
                      /\ s.total = Cardinality(Learnt(heard) \ FoundAs(heard, "Unknown"))
                      /\ \A f \in DOMAIN s.formats :
                           s.formats[f] = Cardinality(FoundAs(heard, IF f = "RawBinary" THEN "registered" ELSE f))
                      /\ FoundAs(heard, "Unknown") = {} =>
                           s.avg[1] * Cardinality(Detected(heard)) = s.avg[2] * Confidences(heard)
    BY DEF StatsAccount
  <2>1. Accounts(lfStats[d], lfHeard[d]) /\ lfStats[d] \in Tally
    BY DEF FormatsInv
  <2>2. lfStats[d].formats \in Tallies
    BY <2>1 DEF Tally
  <2>3. DOMAIN lfStats[d].formats \subseteq Kinds
    BY <2>2 DEF Tallies
  <2>4. \A f \in DOMAIN lfStats[d].formats : lfStats[d].formats[f] = Cardinality(FoundAs(lfHeard[d], As(f)))
    BY <2>1, <2>3 DEF Accounts, CountOf
  <2> QED BY <2>1, <2>4 DEF Accounts, KnownHeard, As
<1> QED BY <1>1, <1>2, <1>3 DEF FormatsLearnt

LEMMA SucceededCounts ==
  ASSUME NEW s \in Tally, NEW f \in Kinds
  PROVE  LET t == Succeeded(s, f) IN
         /\ t \in Tally /\ t.failed = s.failed /\ t.total = s.total + 1 /\ t.avg = s.avg
         /\ \A k \in Kinds : CountOf(t, k) = CountOf(s, k) + One(k = f)
<1> DEFINE F == DOMAIN s.formats
           counts == [k \in F \cup {f} |-> CountOf(s, k) + (IF k = f THEN 1 ELSE 0)]
           t == Succeeded(s, f)
<1>1. s.formats \in Tallies
  BY DEF Tally
<1>2. F \subseteq Kinds /\ \A k \in F : s.formats[k] \in Nat
  BY <1>1 DEF Tallies
<1>3. \A k : CountOf(s, k) \in Nat
  BY <1>2 DEF CountOf
<1>4. counts \in [F \cup {f} -> Nat]
  BY <1>3
<1>5. counts \in Tallies
  <2>1. F \cup {f} \in SUBSET Kinds
    BY <1>2
  <2> HIDE DEF counts
  <2> QED BY <1>4, <2>1 DEF Tallies
<1>6. t = [s EXCEPT !.formats = counts, !.last = f, !.total = @ + 1]
  BY DEF Succeeded
<1>7. DOMAIN counts = F \cup {f} /\ \A k \in F \cup {f} : counts[k] = CountOf(s, k) + (IF k = f THEN 1 ELSE 0)
  OBVIOUS
<1> HIDE DEF counts, t
<1>8. f \in Kinds \cup {"none"} /\ s.total + 1 \in Nat
  BY DEF Tally
<1>9. /\ t \in Tally /\ t.failed = s.failed /\ t.total = s.total + 1 /\ t.avg = s.avg /\ t.formats = counts
  BY <1>5, <1>6, <1>8 DEF Tally
<1>10. ASSUME NEW k \in Kinds PROVE CountOf(t, k) = CountOf(s, k) + One(k = f)
  <2>1. CASE k \in F \cup {f}
    BY <1>7, <1>9, <2>1 DEF CountOf, One
  <2>2. CASE k \notin F \cup {f}
    BY <1>7, <1>9, <2>2 DEF CountOf, One
  <2> QED BY <2>1, <2>2
<1> QED BY <1>9, <1>10 DEF t

LEMMA AveragedCounts ==
  ASSUME NEW s \in Tally, NEW c \in Nat
  PROVE  LET t == Averaged(s, c) IN
         /\ t \in Tally /\ t.failed = s.failed /\ t.total = s.total /\ t.formats = s.formats /\ t.last = s.last
         /\ t.avg[1] = s.avg[1] * s.total + c * s.avg[2] /\ t.avg[2] = s.avg[2] * (s.total + 1)
<1> DEFINE a == s.avg[1] * s.total + c * s.avg[2]
           b == s.avg[2] * (s.total + 1)
           t == Averaged(s, c)
<1>1. s.avg \in Int \X Int /\ s.total \in Nat
  BY DEF Tally
<1>2. s.avg[1] \in Int /\ s.avg[2] \in Int
  BY <1>1
<1>3. a \in Int /\ b \in Int
  BY <1>1, <1>2
<1>4. t = [s EXCEPT !.avg = <<a, b>>]
  BY DEF Averaged
<1> HIDE DEF a, b, t
<1>5. <<a, b>> \in Int \X Int /\ <<a, b>>[1] = a /\ <<a, b>>[2] = b
  BY <1>3
<1>6. t \in Tally /\ t.failed = s.failed /\ t.total = s.total /\ t.formats = s.formats /\ t.last = s.last /\ t.avg = <<a, b>>
  BY <1>4, <1>5 DEF Tally
<1> QED BY <1>5, <1>6 DEF a, b, t

LEMMA MeanGrows ==
  ASSUME NEW a \in Int, NEW b \in Int, NEW n \in Int, NEW m \in Int, NEW c \in Int, a * n = b * m
  PROVE  (a * n + c * b) * (n + 1) = (b * (n + 1)) * (m + c)
<1>1. a * n + c * b = b * (m + c)
  <2>1. b * (m + c) = b * m + b * c
    OBVIOUS
  <2>2. b * c = c * b
    OBVIOUS
  <2> QED BY <2>1, <2>2
<1>2. (b * (m + c)) * (n + 1) = (b * (n + 1)) * (m + c)
  <2> DEFINE x == m + c
             y == n + 1
  <2>1. x \in Int /\ y \in Int
    OBVIOUS
  <2> HIDE DEF x, y
  <2>2. (b * x) * y = (b * y) * x
    BY <2>1
  <2> QED BY <2>2 DEF x, y
<1> QED BY <1>1, <1>2

(* The packets of one device go on as they were, but for one more.           *)
LEMMA RegistersMore ==
  ASSUME NEW heard \in Seq(Packet), NEW h \in Packet, NEW decoder, NEW why, Registers(decoder, why, heard),
         decoder = NotYet <=> h.found # "registered"
  PROVE  /\ decoder # NotYet => Registers(decoder, why, Append(heard, h))
         /\ decoder = NotYet => \A i \in DOMAIN Append(heard, h) : Append(heard, h)[i].found # "registered"
<1> DEFINE n == Len(heard)
           more == Append(heard, h)
<1>1. n \in Nat /\ DOMAIN heard = 1..n
  OBVIOUS
<1>2. DOMAIN more = 1..n + 1 /\ more[n + 1] = h /\ \A i \in 1..n : more[i] = heard[i]
  BY <1>1
<1> HIDE DEF more, n
<1>3. \A i \in 1..n + 1 : i \in 1..n \/ i = n + 1
  BY <1>1
<1>4. decoder = NotYet => \A i \in DOMAIN more : more[i].found # "registered"
  BY <1>1, <1>2, <1>3 DEF Registers
<1>5. ASSUME decoder # NotYet PROVE Registers(decoder, why, more)
  <2>1. ASSUME NEW i \in DOMAIN more, NEW j \in DOMAIN more, i < j, more[i].found = "registered"
        PROVE  more[j].found = "registered"
    <3>1. CASE j = n + 1
      BY <1>2, <1>5, <3>1
    <3>2. CASE j # n + 1
      <4>1. j \in 1..n /\ i \in 1..n
        BY <1>1, <1>2, <1>3, <2>1, <3>2
      <4> QED BY <1>1, <1>2, <2>1, <4>1 DEF Registers
    <3> QED BY <3>1, <3>2
  <2>2. /\ Cardinality(FoundAs(more, decoder)) = Cardinality(FoundAs(heard, decoder)) + One(h.learnt /\ h.found = decoder)
        /\ Cardinality(FoundAs(heard, decoder)) \in Nat
    BY OneHeard DEF more
  <2>3. One(h.learnt /\ h.found = decoder) \in {0, 1}
    BY DEF One
  <2>4. Cardinality(FoundAs(heard, decoder)) >= 3 => Cardinality(FoundAs(more, decoder)) >= 3
    BY <2>2, <2>3
  <2> QED BY <1>5, <2>1, <2>4 DEF Registers
<1> QED BY <1>4, <1>5 DEF more

(* A step of one device.                                                    *)
LEMMA DeviceSteps ==
  ASSUME FormatsInv, NEW d \in LfDevices, NEW s \in Tally, NEW h \in Packet, NEW decoder \in Named \cup {NotYet},
         NEW why \in [confidence : Nat, count : Nat],
         lfHeard' = [lfHeard EXCEPT ![d] = Append(@, h)], lfStats' = [lfStats EXCEPT ![d] = s],
         lfDecoder' = [lfDecoder EXCEPT ![d] = decoder], lfWhy' = [lfWhy EXCEPT ![d] = why], lfLearning' = lfLearning,
         Accounts(s, Append(lfHeard[d], h)), Registers(decoder, why, Append(lfHeard[d], h))
  PROVE  FormatsInv'
<1> DEFINE more == Append(lfHeard[d], h)
<1>1. lfHeard[d] \in Seq(Packet) /\ more \in Seq(Packet)
  BY DEF FormatsInv
<1>2. lfHeard' = [lfHeard EXCEPT ![d] = more]
  OBVIOUS
<1>3. Accounts(s, more) /\ Registers(decoder, why, more)
  OBVIOUS
<1> HIDE DEF more
<1>4. /\ lfHeard' \in [LfDevices -> Seq(Packet)] /\ lfStats' \in [LfDevices -> Tally]
      /\ lfDecoder' \in [LfDevices -> Named \cup {NotYet}] /\ lfLearning' \in BOOLEAN
      /\ lfWhy' \in [LfDevices -> [confidence : Nat, count : Nat]]
  BY <1>1, <1>2 DEF FormatsInv
<1>5. ASSUME NEW e \in LfDevices PROVE Accounts(lfStats'[e], lfHeard'[e]) /\ Registers(lfDecoder'[e], lfWhy'[e], lfHeard'[e])
  <2>1. CASE e = d
    <3>1. lfStats'[e] = s /\ lfHeard'[e] = more /\ lfDecoder'[e] = decoder /\ lfWhy'[e] = why
      BY <1>2, <2>1 DEF FormatsInv
    <3> QED BY <1>3, <3>1
  <2>2. CASE e # d
    <3>1. lfStats'[e] = lfStats[e] /\ lfHeard'[e] = lfHeard[e] /\ lfDecoder'[e] = lfDecoder[e] /\ lfWhy'[e] = lfWhy[e]
      BY <1>2, <2>2 DEF FormatsInv
    <3> QED BY <3>1 DEF FormatsInv
  <2> QED BY <2>1, <2>2
<1> QED BY <1>4, <1>5 DEF FormatsInv

LEMMA RegisteredSteps ==
  ASSUME FormatsInv, NEW d \in LfDevices, NEW p, DecodeRegistered(d, p) PROVE FormatsInv'
<1> DEFINE s == lfStats[d]
           heard == lfHeard[d]
           h == [found |-> "registered", confidence |-> 0, learnt |-> lfLearning]
           t == Learn(s, Succeeded(s, "RawBinary"))
           more == Append(heard, h)
<1>1. /\ lfDecoder[d] # NotYet /\ lfStats' = [lfStats EXCEPT ![d] = t] /\ lfHeard' = [lfHeard EXCEPT ![d] = Append(@, h)]
      /\ lfDecoder' = lfDecoder /\ lfLearning' = lfLearning /\ lfWhy' = lfWhy
  BY DEF DecodeRegistered
<1>2. /\ s \in Tally /\ heard \in Seq(Packet) /\ lfLearning \in BOOLEAN /\ Accounts(s, heard)
      /\ Registers(lfDecoder[d], lfWhy[d], heard) /\ lfDecoder[d] \in Named \cup {NotYet}
      /\ lfWhy[d] \in [confidence : Nat, count : Nat]
  BY DEF FormatsInv
<1>3. h \in Packet /\ h.found = "registered" /\ h.confidence = 0 /\ h.learnt = lfLearning
  BY <1>2 DEF Packet
<1>4. "RawBinary" \in Kinds
  BY DEF Kinds
<1> HIDE DEF h, s, heard
<1>5. /\ Succeeded(s, "RawBinary") \in Tally /\ Succeeded(s, "RawBinary").failed = s.failed
      /\ Succeeded(s, "RawBinary").total = s.total + 1 /\ Succeeded(s, "RawBinary").avg = s.avg
      /\ \A k \in Kinds : CountOf(Succeeded(s, "RawBinary"), k) = CountOf(s, k) + One(k = "RawBinary")
  BY <1>2, <1>4, SucceededCounts
<1>6. /\ t \in Tally /\ t.failed = s.failed /\ t.avg = s.avg /\ t.total = s.total + One(lfLearning)
      /\ \A k \in Kinds : CountOf(t, k) = CountOf(s, k) + One(lfLearning /\ k = "RawBinary")
  <2>1. CASE lfLearning
    <3>1. t = Succeeded(s, "RawBinary")
      BY <2>1 DEF Learn
    <3> QED BY <1>5, <2>1, <3>1 DEF One
  <2>2. CASE ~lfLearning
    <3>1. t = s
      BY <2>2 DEF Learn
    <3>2. s.total \in Nat
      BY <1>2 DEF Tally
    <3>3. \A k \in Kinds : CountOf(s, k) \in Nat
      <4>1. \A k \in Kinds : CountOf(s, k) = Cardinality(FoundAs(heard, As(k)))
        BY <1>2 DEF Accounts
      <4> QED BY <1>2, <1>3, <4>1, OneHeard
    <3> QED BY <1>2, <2>2, <3>1, <3>2, <3>3 DEF One
  <2> QED BY <1>2, <2>1, <2>2
<1> HIDE DEF t
<1>7. ASSUME NEW k \in Kinds PROVE (As(k) = "registered" <=> k = "RawBinary") /\ As(k) # "Unknown"
  BY DEF Kinds, Named, As
<1>8. Accounts(t, more)
  <2>1. t.total = Cardinality(KnownHeard(more))
    <3>1. Cardinality(KnownHeard(more)) = Cardinality(KnownHeard(heard)) + One(h.learnt /\ h.found # "Unknown")
      BY <1>2, <1>3, OneHeard
    <3>2. s.total = Cardinality(KnownHeard(heard))
      BY <1>2 DEF Accounts
    <3> QED BY <1>3, <1>6, <3>1, <3>2 DEF One
  <2>2. ASSUME NEW k \in Kinds PROVE CountOf(t, k) = Cardinality(FoundAs(more, As(k)))
    <3>1. Cardinality(FoundAs(more, As(k))) = Cardinality(FoundAs(heard, As(k))) + One(h.learnt /\ h.found = As(k))
      BY <1>2, <1>3, OneHeard
    <3>2. CountOf(s, k) = Cardinality(FoundAs(heard, As(k)))
      BY <1>2 DEF Accounts
    <3>3. One(h.learnt /\ h.found = As(k)) = One(lfLearning /\ k = "RawBinary")
      BY <1>3, <1>7 DEF One
    <3> QED BY <1>6, <3>1, <3>2, <3>3
  <2>3. ASSUME FoundAs(more, "Unknown") = {} PROVE t.avg[1] * Cardinality(Detected(more)) = t.avg[2] * Confidences(more)
    <3>1. FoundAs(heard, "Unknown") = {}
      <4>1. FoundAs(heard, "Unknown") \subseteq FoundAs(more, "Unknown")
        BY <1>2, <1>3, OneHeard
      <4> QED BY <2>3, <4>1
    <3>2. s.avg[1] * Cardinality(Detected(heard)) = s.avg[2] * Confidences(heard)
      BY <1>2, <3>1 DEF Accounts
    <3>3. /\ Cardinality(Detected(more)) = Cardinality(Detected(heard)) + One(h.learnt /\ h.found # "registered")
          /\ Cardinality(Detected(heard)) \in Nat
          /\ Confidences(more) = Confidences(heard) + (IF h.learnt /\ h.found # "registered" THEN h.confidence ELSE 0)
          /\ Confidences(heard) \in Nat
      BY <1>2, <1>3, OneHeard
    <3>4. Cardinality(Detected(more)) = Cardinality(Detected(heard)) /\ Confidences(more) = Confidences(heard)
      BY <1>3, <3>3 DEF One
    <3> QED BY <1>6, <3>2, <3>4
  <2>4. t.failed = 0
    BY <1>2, <1>6 DEF Accounts
  <2> QED BY <2>1, <2>2, <2>3, <2>4 DEF Accounts
<1>9. Registers(lfDecoder[d], lfWhy[d], more)
  BY <1>1, <1>2, <1>3, RegistersMore
<1>10. lfDecoder' = [lfDecoder EXCEPT ![d] = lfDecoder[d]] /\ lfWhy' = [lfWhy EXCEPT ![d] = lfWhy[d]]
  BY <1>1 DEF FormatsInv
<1>11. Accounts(t, Append(lfHeard[d], h)) /\ Registers(lfDecoder[d], lfWhy[d], Append(lfHeard[d], h)) /\ t \in Tally
  BY <1>6, <1>8, <1>9 DEF heard
<1> QED BY <1>1, <1>2, <1>3, <1>10, <1>11, DeviceSteps

LEMMA FoundTyped ==
  ASSUME NEW p, NEW port
  PROVE  LET found == Detect(p, port) IN
         /\ found.confidence \in Nat
         /\ \/ found = LfUnknown /\ found.format = "Unknown" /\ found.confidence = 0
            \/ found # LfUnknown /\ found.format \in Named
<1>1. Detect(p, port) \in CanAnswer
  BY DetectIsBest DEF IsBest
<1>2. Detect(p, port).confidence \in Nat
  BY <1>1, AnswerTyped
<1>3. LfUnknown.format = "Unknown" /\ LfUnknown.confidence = 0
  BY DEF LfUnknown
<1>4. \A x \in Guesses : x.format \in Named
  BY DEF Guesses
<1>5. "Unknown" \notin Named
  BY DEF Named
<1> QED BY <1>1, <1>2, <1>3, <1>4, <1>5 DEF CanAnswer

(* Nothing is known of a packet: it enters the average only.                 *)
LEMMA UnknownAccounts ==
  ASSUME NEW s \in Tally, NEW heard \in Seq(Packet), Accounts(s, heard), NEW t \in Tally, NEW h \in Packet,
         h.found = "Unknown", h.confidence = 0, t.failed = s.failed, t.total = s.total, t.formats = s.formats,
         ~h.learnt => t = s
  PROVE  Accounts(t, Append(heard, h))
<1> DEFINE more == Append(heard, h)
<1>0. \A k \in Kinds : As(k) # "Unknown"
  BY DEF Kinds, Named, As
<1>1. t.total = Cardinality(KnownHeard(more))
  <2>1. /\ Cardinality(KnownHeard(more)) = Cardinality(KnownHeard(heard)) + One(h.learnt /\ h.found # "Unknown")
        /\ Cardinality(KnownHeard(heard)) \in Nat
    BY OneHeard
  <2>2. s.total = Cardinality(KnownHeard(heard))
    BY DEF Accounts
  <2> QED BY <2>1, <2>2 DEF One
<1>2. ASSUME NEW k \in Kinds PROVE CountOf(t, k) = Cardinality(FoundAs(more, As(k)))
  <2>1. /\ Cardinality(FoundAs(more, As(k))) = Cardinality(FoundAs(heard, As(k))) + One(h.learnt /\ h.found = As(k))
        /\ Cardinality(FoundAs(heard, As(k))) \in Nat
    BY OneHeard
  <2>2. CountOf(s, k) = Cardinality(FoundAs(heard, As(k))) /\ CountOf(t, k) = CountOf(s, k)
    BY DEF Accounts, CountOf
  <2>3. One(h.learnt /\ h.found = As(k)) = 0
    BY <1>0 DEF One
  <2> QED BY <2>1, <2>2, <2>3
<1>3. ASSUME FoundAs(more, "Unknown") = {} PROVE t.avg[1] * Cardinality(Detected(more)) = t.avg[2] * Confidences(more)
  <2>1. /\ FoundAs(heard, "Unknown") \subseteq FoundAs(more, "Unknown")
        /\ h.learnt /\ h.found = "Unknown" => FoundAs(more, "Unknown") # {}
    BY OneHeard
  <2>2. FoundAs(heard, "Unknown") = {} /\ ~h.learnt /\ t = s
    BY <1>3, <2>1
  <2>3. s.avg[1] * Cardinality(Detected(heard)) = s.avg[2] * Confidences(heard)
    BY <2>2 DEF Accounts
  <2>4. /\ Cardinality(Detected(more)) = Cardinality(Detected(heard)) + One(h.learnt /\ h.found # "registered")
        /\ Cardinality(Detected(heard)) \in Nat
        /\ Confidences(more) = Confidences(heard) + (IF h.learnt /\ h.found # "registered" THEN h.confidence ELSE 0)
        /\ Confidences(heard) \in Nat
    BY OneHeard
  <2>5. Cardinality(Detected(more)) = Cardinality(Detected(heard)) /\ Confidences(more) = Confidences(heard)
    BY <2>2, <2>4 DEF One
  <2> QED BY <2>2, <2>3, <2>5
<1>4. t.failed = 0
  BY DEF Accounts
<1> QED BY <1>1, <1>2, <1>3, <1>4 DEF Accounts

(* A packet of a known format counts in it, and in the mean, which was that  *)
(* of all that was detected if none of it was unknown.                      *)
LEMMA KnownAccounts ==
  ASSUME NEW s \in Tally, NEW heard \in Seq(Packet), Accounts(s, heard), NEW h \in Packet, h.found \in Named,
         \A i \in DOMAIN heard : heard[i].found # "registered", h.learnt,
         NEW t \in Tally, t.failed = s.failed, t.total = s.total + 1,
         t.avg[1] = s.avg[1] * s.total + h.confidence * s.avg[2], t.avg[2] = s.avg[2] * (s.total + 1),
         \A k \in Kinds : CountOf(t, k) = CountOf(s, k) + One(k = h.found)
  PROVE  Accounts(t, Append(heard, h))
<1> DEFINE more == Append(heard, h)
<1>0. h.found # "Unknown" /\ h.found # "registered" /\ \A k \in Kinds : h.found = As(k) <=> k = h.found
  BY DEF Kinds, Named, As
<1>1. t.total = Cardinality(KnownHeard(more))
  <2>1. /\ Cardinality(KnownHeard(more)) = Cardinality(KnownHeard(heard)) + One(h.learnt /\ h.found # "Unknown")
        /\ Cardinality(KnownHeard(heard)) \in Nat
    BY OneHeard
  <2>2. s.total = Cardinality(KnownHeard(heard))
    BY DEF Accounts
  <2> QED BY <1>0, <2>1, <2>2 DEF One
<1>2. ASSUME NEW k \in Kinds PROVE CountOf(t, k) = Cardinality(FoundAs(more, As(k)))
  <2>1. Cardinality(FoundAs(more, As(k))) = Cardinality(FoundAs(heard, As(k))) + One(h.learnt /\ h.found = As(k))
    BY OneHeard
  <2>2. CountOf(s, k) = Cardinality(FoundAs(heard, As(k)))
    BY DEF Accounts
  <2>3. One(h.learnt /\ h.found = As(k)) = One(k = h.found)
    BY <1>0 DEF One
  <2> QED BY <2>1, <2>2, <2>3
<1>3. ASSUME FoundAs(more, "Unknown") = {} PROVE t.avg[1] * Cardinality(Detected(more)) = t.avg[2] * Confidences(more)
  <2>1. FoundAs(heard, "Unknown") \subseteq FoundAs(more, "Unknown")
    BY OneHeard
  <2>2. FoundAs(heard, "Unknown") = {}
    BY <1>3, <2>1
  <2> DEFINE n == Cardinality(Detected(heard))
             m == Confidences(heard)
             a == s.avg[1]
             b == s.avg[2]
             c == h.confidence
  <2>3. a * n = b * m
    BY <2>2 DEF Accounts
  <2>4. /\ Cardinality(Detected(more)) = n + One(h.learnt /\ h.found # "registered") /\ n \in Nat
        /\ Confidences(more) = m + (IF h.learnt /\ h.found # "registered" THEN c ELSE 0) /\ m \in Nat
    BY OneHeard
  <2>5. Cardinality(Detected(more)) = n + 1 /\ Confidences(more) = m + c
    BY <1>0, <2>4 DEF One
  <2>6. s.total = n
    <3>1. KnownHeard(heard) = Learnt(heard)
      BY <2>2 DEF KnownHeard
    <3>2. Detected(heard) = Learnt(heard)
      BY DEF Detected, Learnt
    <3> QED BY <3>1, <3>2 DEF Accounts
  <2>7. a \in Int /\ b \in Int /\ c \in Int
    <3>1. s.avg \in Int \X Int /\ c \in Nat
      BY DEF Tally, Packet
    <3> QED BY <3>1
  <2>8. t.avg[1] = a * n + c * b /\ t.avg[2] = b * (n + 1)
    BY <2>6
  <2> HIDE DEF n, m, a, b, c
  <2>9. (a * n + c * b) * (n + 1) = (b * (n + 1)) * (m + c)
    <3>1. n \in Int /\ m \in Int
      BY <2>4
    <3> QED BY <2>3, <2>7, <3>1, MeanGrows
  <2> QED BY <2>5, <2>8, <2>9
<1>4. t.failed = 0
  BY DEF Accounts
<1> QED BY <1>1, <1>2, <1>3, <1>4 DEF Accounts

(* Nothing is learnt of a packet.                                            *)
LEMMA UnlearntAccounts ==
  ASSUME NEW s \in Tally, NEW heard \in Seq(Packet), Accounts(s, heard), NEW h \in Packet, ~h.learnt
  PROVE  Accounts(s, Append(heard, h))
<1> DEFINE more == Append(heard, h)
<1>1. /\ Cardinality(KnownHeard(more)) = Cardinality(KnownHeard(heard)) + One(h.learnt /\ h.found # "Unknown")
      /\ Cardinality(KnownHeard(heard)) \in Nat
      /\ Cardinality(Detected(more)) = Cardinality(Detected(heard)) + One(h.learnt /\ h.found # "registered")
      /\ Cardinality(Detected(heard)) \in Nat
      /\ Confidences(more) = Confidences(heard) + (IF h.learnt /\ h.found # "registered" THEN h.confidence ELSE 0)
      /\ Confidences(heard) \in Nat
  BY OneHeard
<1>2. Cardinality(KnownHeard(more)) = Cardinality(KnownHeard(heard)) /\ Cardinality(Detected(more)) = Cardinality(Detected(heard))
      /\ Confidences(more) = Confidences(heard)
  BY <1>1 DEF One
<1>3. ASSUME NEW f PROVE Cardinality(FoundAs(more, f)) = Cardinality(FoundAs(heard, f)) /\ FoundAs(heard, f) \subseteq FoundAs(more, f)
  <2>1. /\ Cardinality(FoundAs(more, f)) = Cardinality(FoundAs(heard, f)) + One(h.learnt /\ h.found = f)
        /\ Cardinality(FoundAs(heard, f)) \in Nat /\ FoundAs(heard, f) \subseteq FoundAs(more, f)
    BY OneHeard
  <2> QED BY <2>1 DEF One
<1>4. FoundAs(more, "Unknown") = {} => FoundAs(heard, "Unknown") = {}
  BY <1>3
<1> HIDE DEF more
<1>5. FoundAs(more, "Unknown") = {} => s.avg[1] * Cardinality(Detected(more)) = s.avg[2] * Confidences(more)
  BY <1>2, <1>4 DEF Accounts
<1>6. \A k \in Kinds : CountOf(s, k) = Cardinality(FoundAs(more, As(k)))
  BY <1>3 DEF Accounts
<1>7. s.failed = 0 /\ s.total = Cardinality(KnownHeard(more))
  BY <1>2 DEF Accounts
<1> QED BY <1>5, <1>6, <1>7 DEF Accounts, more

LEMMA DetectingSteps ==
  ASSUME FormatsInv, NEW d \in LfDevices, NEW p, DecodeDetecting(d, p) PROVE FormatsInv'
<1> DEFINE found == Detect(p, LfPort)
           s0    == lfStats[d]
           heard == lfHeard[d]
           s     == Learn(s0, Averaged(s0, found.confidence))
           h     == [found |-> found.format, confidence |-> found.confidence, learnt |-> lfLearning]
           t     == IF found = LfUnknown THEN s ELSE Learn(s, Succeeded(s, found.format))
           more  == Append(heard, h)
<1>1. /\ lfDecoder[d] = NotYet /\ lfHeard' = [lfHeard EXCEPT ![d] = Append(@, h)] /\ lfStats' = [lfStats EXCEPT ![d] = t]
      /\ lfLearning' = lfLearning
      /\ IF ShouldRegister(s, found)
           THEN /\ lfDecoder' = [lfDecoder EXCEPT ![d] = found.format]
                /\ lfWhy' = [lfWhy EXCEPT ![d] = [confidence |-> found.confidence, count |-> CountOf(s, found.format)]]
           ELSE lfDecoder' = lfDecoder /\ lfWhy' = lfWhy
  BY DEF DecodeDetecting
<1>2. /\ found.confidence \in Nat
      /\ \/ found = LfUnknown /\ found.format = "Unknown" /\ found.confidence = 0
         \/ found # LfUnknown /\ found.format \in Named
  BY FoundTyped
<1>3. /\ s0 \in Tally /\ heard \in Seq(Packet) /\ lfLearning \in BOOLEAN /\ Accounts(s0, heard)
      /\ Registers(NotYet, lfWhy[d], heard) /\ \A i \in DOMAIN heard : heard[i].found # "registered"
      /\ lfWhy[d] \in [confidence : Nat, count : Nat]
  BY <1>1 DEF FormatsInv, Registers
<1> HIDE DEF found, s0, heard
<1>4. h \in Packet /\ h.found = found.format /\ h.confidence = found.confidence /\ h.learnt = lfLearning
  <2>1. found.format \in Named \cup {"Unknown", "registered"}
    BY <1>2
  <2> QED BY <1>2, <1>3, <2>1 DEF Packet
<1> HIDE DEF h
<1>5. h.found # "registered" /\ (found # LfUnknown => h.found \in Named)
  BY <1>2, <1>4 DEF Named
<1> DEFINE a == Averaged(s0, found.confidence)
<1>6. /\ a \in Tally /\ a.failed = s0.failed /\ a.total = s0.total /\ a.formats = s0.formats /\ a.last = s0.last
      /\ a.avg[1] = s0.avg[1] * s0.total + found.confidence * s0.avg[2] /\ a.avg[2] = s0.avg[2] * (s0.total + 1)
  BY <1>2, <1>3, AveragedCounts
<1> HIDE DEF a
<1>7. s = (IF lfLearning THEN a ELSE s0)
  BY DEF Learn, a
<1>8. s \in Tally /\ s.failed = s0.failed /\ s.total = s0.total /\ s.formats = s0.formats /\ s.last = s0.last
  BY <1>3, <1>6, <1>7
<1>9. \A f : CountOf(s, f) = CountOf(s0, f)
  BY <1>8 DEF CountOf
<1>10. t = (IF found = LfUnknown \/ ~lfLearning THEN s ELSE Succeeded(s, found.format))
  BY DEF Learn
<1> HIDE DEF s, t
<1>11. found # LfUnknown => found.format \in Kinds
  BY <1>2 DEF Kinds
<1>12. found # LfUnknown =>
          /\ Succeeded(s, found.format) \in Tally /\ Succeeded(s, found.format).failed = s.failed
          /\ Succeeded(s, found.format).total = s.total + 1 /\ Succeeded(s, found.format).avg = s.avg
          /\ \A k \in Kinds : CountOf(Succeeded(s, found.format), k) = CountOf(s, k) + One(k = found.format)
  BY <1>8, <1>11, SucceededCounts
<1>13. t \in Tally
  BY <1>8, <1>10, <1>12
<1>14. Accounts(t, more)
  <2>1. CASE ~lfLearning
    <3>1. t = s0
      BY <1>7, <1>10, <2>1
    <3> QED BY <1>3, <1>4, <2>1, <3>1, UnlearntAccounts
  <2>2. CASE lfLearning /\ found = LfUnknown
    <3>1. t = s /\ h.found = "Unknown" /\ h.confidence = 0 /\ h.learnt
      BY <1>2, <1>4, <1>10, <2>2
    <3>2. t.failed = s0.failed /\ t.total = s0.total /\ t.formats = s0.formats
      BY <1>8, <3>1
    <3> QED BY <1>3, <1>4, <1>13, <3>1, <3>2, UnknownAccounts
  <2>3. CASE lfLearning /\ found # LfUnknown
    <3>1. t = Succeeded(s, found.format) /\ s = a /\ h.learnt /\ h.found \in Named
      BY <1>4, <1>5, <1>7, <1>10, <2>3
    <3>2. /\ t.failed = s0.failed /\ t.total = s0.total + 1
          /\ t.avg[1] = s0.avg[1] * s0.total + h.confidence * s0.avg[2] /\ t.avg[2] = s0.avg[2] * (s0.total + 1)
      BY <1>4, <1>6, <1>8, <1>12, <2>3, <3>1
    <3>3. \A k \in Kinds : CountOf(t, k) = CountOf(s0, k) + One(k = h.found)
      BY <1>4, <1>9, <1>12, <2>3, <3>1
    <3> QED BY <1>3, <1>4, <1>13, <3>1, <3>2, <3>3, KnownAccounts
  <2> QED BY <1>3, <2>1, <2>2, <2>3
<1>15. (\A i \in DOMAIN more : more[i].found # "registered")
       /\ \A f : Cardinality(FoundAs(heard, f)) \in Nat /\ Cardinality(FoundAs(more, f)) >= Cardinality(FoundAs(heard, f))
  <2>1. \A i \in DOMAIN more : more[i].found # "registered"
    BY <1>3, <1>4, <1>5, RegistersMore
  <2>2. ASSUME NEW f PROVE Cardinality(FoundAs(heard, f)) \in Nat /\ Cardinality(FoundAs(more, f)) >= Cardinality(FoundAs(heard, f))
    <3>1. /\ Cardinality(FoundAs(more, f)) = Cardinality(FoundAs(heard, f)) + One(h.learnt /\ h.found = f)
          /\ Cardinality(FoundAs(heard, f)) \in Nat
      BY <1>3, <1>4, OneHeard
    <3>2. One(h.learnt /\ h.found = f) \in {0, 1}
      BY DEF One
    <3> QED BY <3>1, <3>2
  <2> QED BY <2>1, <2>2
<1> HIDE DEF more
<1>16. CASE ShouldRegister(s, found)
  <2> DEFINE why == [confidence |-> found.confidence, count |-> CountOf(s, found.format)]
  <2>1. found.confidence >= 80 /\ (found.confidence = 100 \/ CountOf(s, found.format) >= 3)
    BY <1>16 DEF ShouldRegister
  <2>2. found # LfUnknown /\ found.format \in Named
    BY <1>2, <2>1
  <2>3. CountOf(s, found.format) = Cardinality(FoundAs(heard, found.format))
    <3>1. found.format \in Kinds /\ As(found.format) = found.format
      BY <2>2 DEF Kinds, Named, As
    <3> QED BY <1>3, <1>9, <3>1 DEF Accounts
  <2>4. why \in [confidence : Nat, count : Nat] /\ why.confidence = found.confidence /\ why.count = CountOf(s, found.format)
    BY <1>2, <1>15, <2>3
  <2> HIDE DEF why
  <2>5. why.confidence = 100 \/ (why.count >= 3 /\ Cardinality(FoundAs(more, found.format)) >= 3)
    <3>1. CASE CountOf(s, found.format) >= 3
      <4> DEFINE x == Cardinality(FoundAs(heard, found.format))
                 y == Cardinality(FoundAs(more, found.format))
      <4>1. x \in Nat /\ y >= x /\ x >= 3 /\ y \in Nat
        <5>1. y = x + One(h.learnt /\ h.found = found.format) /\ x \in Nat
          BY <1>3, <1>4, OneHeard DEF more
        <5>2. One(h.learnt /\ h.found = found.format) \in {0, 1}
          BY DEF One
        <5> HIDE DEF x, y
        <5>3. y \in Nat /\ y >= x
          BY <5>1, <5>2
        <5> QED BY <5>1, <5>3, <2>3, <3>1 DEF x
      <4> HIDE DEF x, y
      <4>2. y >= 3
        BY <4>1
      <4> QED BY <2>4, <3>1, <4>2 DEF y
    <3> QED BY <2>1, <2>4, <3>1
  <2>6. found.format # NotYet
    BY <2>2 DEF Named, NotYet
  <2>7. Registers(found.format, why, more)
    BY <1>15, <2>5, <2>6 DEF Registers
  <2>8. lfDecoder' = [lfDecoder EXCEPT ![d] = found.format] /\ lfWhy' = [lfWhy EXCEPT ![d] = why]
    BY <1>1, <1>16 DEF why
  <2>9. found.format \in Named \cup {NotYet}
    BY <2>2
  <2> QED BY <1>1, <1>4, <1>13, <1>14, <2>4, <2>7, <2>8, <2>9, DeviceSteps DEF heard, more
<1>17. CASE ~ShouldRegister(s, found)
  <2>1. lfDecoder' = [lfDecoder EXCEPT ![d] = NotYet] /\ lfWhy' = [lfWhy EXCEPT ![d] = lfWhy[d]]
    <3>1. lfDecoder' = lfDecoder /\ lfWhy' = lfWhy
      BY <1>1, <1>17
    <3>2. lfDecoder \in [LfDevices -> Named \cup {NotYet}] /\ lfWhy \in [LfDevices -> [confidence : Nat, count : Nat]]
      BY DEF FormatsInv
    <3> QED BY <1>1, <3>1, <3>2
  <2>2. Registers(NotYet, lfWhy[d], more)
    BY <1>15 DEF Registers
  <2>3. NotYet \in Named \cup {NotYet}
    OBVIOUS
  <2> QED BY <1>1, <1>3, <1>4, <1>13, <1>14, <2>1, <2>2, <2>3, DeviceSteps DEF heard, more
<1> QED BY <1>16, <1>17

LEMMA FormatsSteps == FormatsInv /\ [LfNext]_lfVars => FormatsInv'
<1> SUFFICES ASSUME FormatsInv, [LfNext]_lfVars PROVE FormatsInv'
  OBVIOUS
<1>1. ASSUME NEW d \in LfDevices, NEW p \in LfPayloads, DecodeRegistered(d, p) \/ DecodeDetecting(d, p) PROVE FormatsInv'
  BY <1>1, RegisteredSteps, DetectingSteps
<1>2. CASE SetLearning
  BY <1>2 DEF SetLearning, FormatsInv
<1>3. CASE UNCHANGED lfVars
  BY <1>3 DEF lfVars, FormatsInv
<1> QED BY <1>1, <1>2, <1>3 DEF LfNext
=============================================================================
