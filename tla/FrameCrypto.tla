----------------------------- MODULE FrameCrypto -----------------------------
(***************************************************************************)
(* Encrypting and decrypting wM-Bus frames: WMBusCrypto (wmbus/crypto.rs)  *)
(* built with the feature "crypto", at a sender and at a receiver that     *)
(* need not agree on key, device and settings.                             *)
(*                                                                         *)
(* Ciphers are symbolic: a block of ciphertext is the mode, key and IV it   *)
(* was made with and the number of its plaintext block, 0 for a block that *)
(* was garbled.  Decryption gives the numbers back, and 0 for whatever is  *)
(* not the plaintext any more.                                             *)
(***************************************************************************)
EXTENDS Integers, Sequences, FiniteSets, SequencesExt

CONSTANTS
  FcKeys,       \* master keys
  FcDevices,    \* devices: [id, version, access], access 0 for None, 256 for extract_access_number
  FcLengths,    \* payload lengths
  FcPlainCis    \* CI fields of plaintext frames

ASSUME FcAssumption == FcLengths \subseteq Nat \ {0} /\ FcPlainCis \subseteq 0..255

VARIABLES
  fcSettings,   \* tag mode, whether a CRC is added or verified, and the AES backend, at "tx" and "rx"
  fcFrame,      \* the plaintext frame: [key, device, mode, ci, length]
  fcSealed,     \* the encrypted frame, or NotSealed
  fcHarm,       \* what befell it on its way
  fcReader,     \* the effective key and the device it was decrypted with
  fcResult      \* what decrypt_frame returned

fcVars == <<fcSettings, fcFrame, fcSealed, fcHarm, fcReader, fcResult>>

CipherModes == {"ctr", "cbc", "gcm", "ecb"}
NotSealed   == [mode |-> "none"]
Unharmed    == [what |-> "nothing", at |-> 0]
Undecided   == [kind |-> "pending"]
FcError     == [kind |-> "error"]
FcData(blocks) == [kind |-> "data", blocks |-> blocks]

FcFrames == [key : FcKeys, device : FcDevices, mode : CipherModes, ci : FcPlainCis, length : FcLengths]

(* EncryptionMode::from_ci_field                                           *)
ModeOfCi(ci) ==
  CASE ci \in {122, 123} -> "ctr" [] ci \in {138, 139} -> "cbc" [] ci = 137 -> "gcm"
    [] ci \in 144..151 -> "ecb"   [] OTHER -> "none"

(* get_ci_for_mode                                                         *)
CiOfMode(mode) == CASE mode = "ctr" -> 122 [] mode = "cbc" -> 138 [] mode = "gcm" -> 137 [] mode = "ecb" -> 144

(* derive_device_key; an effective key from a vendor is used as it is.      *)
DeriveKey(master, device) == <<master, device.id>>

(* extract_access_number: the byte at the CI field's place.                *)
ExtractAccessNumber(ci) == ci

(* build_gcm_iv: the access number falls back on version and type.           *)
GcmIv(device, ci) ==
  <<device.id, CASE device.access = 0 -> 256 * device.version [] device.access = 256 -> ExtractAccessNumber(ci)
                 [] OTHER -> device.access>>

(* build_ctr_iv and build_cbc_iv; ECB has none.                            *)
IvOf(mode, device, ci) ==
  CASE mode \in {"ctr", "cbc"} -> <<device.id, device.version>>
    [] mode = "gcm" -> GcmIv(device, ci)
    [] OTHER -> <<>>

(* build_gcm_aad: header bytes both ends have, and for the access number the *)
(* low nibble of whatever CI field the frame has at that moment.           *)
AadOf(mode, ci) == IF mode = "gcm" THEN ci % 16 ELSE 0

-----------------------------------------------------------------------------
(* The ciphers: blocks of ciphertext, and what they decrypt to.             *)

CipherBlock(mode, key, iv, j) == [mode |-> mode, key |-> key, iv |-> iv, of |-> j]
Garbled == CipherBlock("none", <<>>, <<>>, 0)

(* aes_cbc_encrypt, aes_ecb_encrypt and the counter modes, block by block.   *)
SealBlocks(mode, key, iv, n) == [j \in 1..n |-> CipherBlock(mode, key, iv, j)]
Blocks(n) == (n + 15) \div 16

(* pkcs7_pad: always at least one byte, so a block more for a whole one.     *)
PaddedLength(n) == (n \div 16 + 1) * 16

(* aes_ctr_process, its own inverse: the counter is the block's place.      *)
CtrProcess(key, iv, c) ==
  [j \in DOMAIN c |-> IF c[j] = CipherBlock("ctr", key, iv, j) THEN j ELSE 0]

(* The backends, symbolically: expand_key's eleven round keys, and the steps *)
(* a block goes through, "sub" being SubBytes and ShiftRows.                *)
RoundKey(i) == <<"key", i>>
Sub == <<"sub", 0>>
Mix == <<"mix", 0>>

(* aes_encrypt_hw, the standard cipher.                                    *)
EncryptSteps == <<RoundKey(0)>> \o FlattenSeq([i \in 1..9 |-> <<Sub, Mix, RoundKey(i)>>]) \o <<Sub, RoundKey(10)>>

(* aes_decrypt_hw: the steps it takes back, in its order.                  *)
DecryptSteps ==
  <<RoundKey(10)>> \o FlattenSeq([i \in 1..9 |-> <<Sub, Mix, RoundKey(10 - i)>>]) \o <<Sub, RoundKey(0)>>

(* What is left of a block's steps when some are taken back: one that is not *)
(* the last stays, and with it all that follows.                           *)
TakeBack(done, step) == IF done # <<>> /\ Last(done) = step THEN Front(done) ELSE Append(done, step)
Inverts(back) == FoldLeft(TakeBack, EncryptSteps, back) = <<>>

(* decrypt_block of the selected backend: the software one is the aes crate. *)
DecryptsBlocks(hardware) == hardware => Inverts(DecryptSteps)

(* aes_ctr_process and GCM only ever encrypt blocks.                        *)
OwnBlock(end, n) == IF DecryptsBlocks(fcSettings[end].hardware) THEN n ELSE 0

(* Mutant of CbcDecrypt: prev_block stays the IV.                          *)
CbcDecryptUnchained(key, iv, c) ==
  [j \in DOMAIN c |-> IF c[j] = CipherBlock("cbc", key, iv, 1) THEN OwnBlock("rx", 1) ELSE 0]

(* aes_cbc_decrypt: XORed with the block received before, or with the IV.    *)
CbcDecrypt(key, iv, c) ==
  [j \in DOMAIN c |->
    IF /\ c[j].mode = "cbc" /\ c[j].key = key
       /\ IF j = 1 THEN c[1].of = 1 /\ c[1].iv = iv ELSE c[j - 1] = [c[j] EXCEPT !.of = @ - 1]
    THEN OwnBlock("rx", c[j].of) ELSE 0]

(* aes_ecb_decrypt: every block by itself.                                 *)
EcbDecrypt(key, c) ==
  [j \in DOMAIN c |-> IF c[j].mode = "ecb" /\ c[j].key = key THEN OwnBlock("rx", c[j].of) ELSE 0]

(* pkcs7_unpad: the padding of the last plaintext block is good; what else   *)
(* stands in its place may look like padding or not.                       *)
Unpadded(plain, n) ==
  IF plain # <<>> /\ plain[Len(plain)] = n THEN {FcData(plain)} ELSE {FcError, FcData(plain)}

(* add_crc_to_plaintext: two bytes behind it.                              *)
CrcLength(settings) == IF settings.crc THEN 2 ELSE 0

(* aes_gcm_encrypt: a tag of 16 bytes behind the ciphertext.               *)
GcmTag == 16

(* encrypt_gcm_mode: the tag is kept in full or cut to 12 bytes.             *)
GcmSealed(f, settings) ==
  LET tag == IF settings.fullTag THEN GcmTag ELSE 12
  IN  [crc |-> settings.crc, tag |-> tag, length |-> f.length + CrcLength(settings) + tag]

(* decrypt_gcm_mode: aes_gcm_decrypt fills a tag of 12 bytes up with zeros,   *)
(* which is no tag; a CRC is looked for in front of the plaintext, where    *)
(* none is ever put.                                                       *)
GcmTagLength(s) == IF s.length >= 16 /\ fcSettings["rx"].fullTag THEN 16 ELSE 12

GcmResult(s, key, iv) ==
  IF \/ s.length < 12 \/ s.mode # "gcm" \/ fcHarm # Unharmed
     \/ GcmTagLength(s) # 16 \/ s.tag # 16
     \/ s.blocks # [j \in DOMAIN s.blocks |-> CipherBlock("gcm", key, iv, j)] \/ s.aad # AadOf("gcm", s.ci)
     \/ fcSettings["rx"].crc /\ s.length - 16 >= 2
  THEN FcError
  ELSE FcData([j \in DOMAIN s.blocks |-> j] \o IF s.crc THEN <<0>> ELSE <<>>)

-----------------------------------------------------------------------------
(* Of tag, CRC and backend only what the frame's mode looks at varies.      *)
PlainSettings == [fullTag |-> TRUE, crc |-> FALSE, hardware |-> FALSE]

FcInit ==
  /\ fcFrame \in FcFrames
  /\ fcSettings \in [{"tx", "rx"} -> [fullTag : BOOLEAN, crc : BOOLEAN, hardware : BOOLEAN]]
  /\ \A end \in {"tx", "rx"} :
       /\ fcFrame.mode # "gcm" => fcSettings[end] = [PlainSettings EXCEPT !.hardware = fcSettings[end].hardware]
       /\ end = "tx" \/ fcFrame.mode \notin {"cbc", "ecb"} => ~fcSettings[end].hardware
  /\ fcSealed = NotSealed /\ fcHarm = Unharmed /\ fcResult = Undecided
  /\ fcReader = [key |-> DeriveKey(fcFrame.key, fcFrame.device), device |-> fcFrame.device]

(* encrypt_frame: the L field stays as it was.                             *)
EncryptFrame ==
  LET f    == fcFrame
      key  == DeriveKey(f.key, f.device)
      iv   == IvOf(f.mode, f.device, f.ci)
      size == IF f.mode = "gcm" THEN GcmSealed(f, fcSettings["tx"])
              ELSE [crc |-> FALSE, tag |-> 0, length |-> IF f.mode = "ctr" THEN f.length ELSE PaddedLength(f.length)]
      n    == Blocks(IF f.mode \in {"cbc", "ecb"} THEN size.length ELSE f.length)
  IN  /\ fcSealed = NotSealed
      /\ fcSealed' = [mode |-> f.mode, aad |-> AadOf(f.mode, f.ci), ci |-> CiOfMode(f.mode),
                      crc |-> size.crc, tag |-> size.tag, length |-> size.length,
                      blocks |-> SealBlocks(f.mode, key, iv, n)]
      /\ UNCHANGED <<fcSettings, fcFrame, fcHarm, fcReader, fcResult>>

(* Behind the blocks of mode 9 stands its tag, which may be cut alone.       *)
FirstBlocks(c, n) == SubSeq(c, 1, IF n < Len(c) THEN n ELSE Len(c))

(* On its way a block is garbled, the end is lost, or the CI field changes.  *)
Tamper ==
  /\ fcSealed # NotSealed /\ fcHarm = Unharmed /\ fcResult = Undecided
  /\ \/ \E i \in DOMAIN fcSealed.blocks :
          /\ fcSealed' = [fcSealed EXCEPT !.blocks[i] = Garbled]
          /\ fcHarm' = [what |-> "block", at |-> i]
     \/ \E n \in FcLengths \cup {0} :
          /\ n < fcSealed.length
          /\ fcSealed' = [fcSealed EXCEPT !.length = n, !.blocks = FirstBlocks(@, Blocks(n))]
          /\ fcHarm' = [what |-> "end", at |-> n]
     \/ \E ci \in {114, 122, 137, 138, 144} \ {fcSealed.ci} :
          /\ fcSealed' = [fcSealed EXCEPT !.ci = ci]
          /\ fcHarm' = [what |-> "ci", at |-> 0]
  /\ UNCHANGED <<fcSettings, fcFrame, fcReader, fcResult>>

(* find_ci_offset and the check behind it: something follows the CI field.    *)
HasPayload(s) == s.length > 0

(* decrypt_frame_with_effective_key: the CI field decides the mode, and the  *)
(* block modes refuse what is not made of whole blocks.                    *)
Results(key, device) ==
  LET s    == fcSealed
      mode == ModeOfCi(s.ci)
      iv   == IvOf(mode, device, s.ci)
      n    == Blocks(PaddedLength(fcFrame.length))
  IN  CASE mode = "none" \/ ~HasPayload(s) -> {FcError}
        [] mode = "ctr" /\ HasPayload(s) -> {FcData(CtrProcess(key, iv, s.blocks))}
        [] mode \in {"cbc", "ecb"} /\ s.length % 16 # 0 -> {FcError}
        [] mode = "cbc" /\ HasPayload(s) /\ s.length % 16 = 0 -> Unpadded(CbcDecrypt(key, iv, s.blocks), n)
        [] mode = "ecb" /\ HasPayload(s) /\ s.length % 16 = 0 -> Unpadded(EcbDecrypt(key, s.blocks), n)
        [] mode = "gcm" /\ HasPayload(s) -> {GcmResult(s, key, iv)}

DecryptWith(key, device) ==
  /\ fcSealed # NotSealed /\ fcResult = Undecided
  /\ fcResult' \in Results(key, device)
  /\ UNCHANGED <<fcSettings, fcFrame, fcSealed, fcHarm>>

(* decrypt_frame, from the receiver's master key.                          *)
DecryptFrame(master, device) ==
  /\ DecryptWith(DeriveKey(master, device), device)
  /\ fcReader' = [key |-> DeriveKey(master, device), device |-> device]

(* Mutant of DecryptWithVendorKey: the vendor's key is derived from again. *)
DecryptDerivingAgain(key, device) ==
  DecryptWith(DeriveKey(key, device), device) /\ fcReader' = [key |-> key, device |-> device]

(* decrypt_frame_with_vendor when the registry has a key for the device.    *)
DecryptWithVendorKey(key, device) ==
  DecryptWith(key, device) /\ fcReader' = [key |-> key, device |-> device]

(* A vendor's key that is not 16 bytes long (AesKey::from_bytes) ends the    *)
(* call: the master key is not tried.                                      *)
RefuseVendorKey(device) ==
  /\ fcSealed # NotSealed /\ fcResult = Undecided
  /\ fcResult' = FcError
  /\ fcReader' = [key |-> <<>>, device |-> device]
  /\ UNCHANGED <<fcSettings, fcFrame, fcSealed, fcHarm>>

FcNext ==
  \/ EncryptFrame \/ Tamper
  \/ \E device \in FcDevices : RefuseVendorKey(device)
  \/ \E key \in FcKeys, device \in FcDevices :
       DecryptFrame(key, device) \/ DecryptWithVendorKey(DeriveKey(key, device), device)

-----------------------------------------------------------------------------
(* Settings under which mode 9 gives back what it was given.               *)
GcmAgrees ==
  /\ \A end \in {"tx", "rx"} : fcSettings[end].fullTag
  /\ ~fcSettings["tx"].crc /\ ~fcSettings["rx"].crc
  /\ fcFrame.ci % 16 = 9
  /\ fcFrame.device.access # 256

RightReader ==
  /\ fcReader = [key |-> DeriveKey(fcFrame.key, fcFrame.device), device |-> fcFrame.device]
  /\ fcFrame.mode = "gcm" => GcmAgrees
  /\ DecryptsBlocks(fcSettings["rx"].hardware)

PlainBlocks == Blocks(IF fcFrame.mode \in {"cbc", "ecb"} THEN PaddedLength(fcFrame.length) ELSE fcFrame.length)

(* Mode 9 is authenticated: whatever key, device or settings the receiver     *)
(* has and whatever was changed on the way, decrypt_frame returns the        *)
(* payload that was encrypted or an error, and a changed frame never passes *)
(* under its own mode.  Only a frame whose CI field was changed escapes.     *)
Authentic ==
  fcSealed.mode = "gcm" /\ ModeOfCi(fcSealed.ci) = "gcm" /\ fcResult.kind = "data" =>
    fcHarm = Unharmed /\ SubSeq(fcResult.blocks, 1, PlainBlocks) = [j \in 1..PlainBlocks |-> j]

(* A frame that was not changed is decrypted in every mode by a receiver     *)
(* that has its key and its device, the vendor's key being taken as it is:   *)
(* nothing is lost to padding, tag or CRC, in mode 9 if both ends keep the    *)
(* full tag, no CRC is used, the plaintext CI field ends in nibble 9 and the  *)
(* access number does not come from the frame, in the block modes if the     *)
(* receiver's backend takes back what the cipher does.                     *)
RoundTrip ==
  fcResult # Undecided /\ fcHarm = Unharmed /\ RightReader =>
    fcResult = FcData([j \in 1..PlainBlocks |-> j])

(* In the modes without authentication a garbled block spoils its own        *)
(* plaintext, in CBC also the next block's, and nothing else that is        *)
(* returned; so does one that got lost at the end.                         *)
SpoilsLocally ==
  fcResult.kind = "data" /\ fcHarm.what \in {"block", "end"} /\ RightReader =>
    \A j \in DOMAIN fcResult.blocks :
      \/ fcResult.blocks[j] = j
      \/ fcHarm.what = "block" /\ j \in {fcHarm.at} \cup (IF fcFrame.mode = "cbc" THEN {fcHarm.at + 1} ELSE {})

-----------------------------------------------------------------------------
(* Digests, symbolically: who computed them, in which way, of what.         *)

(* sha1_process_block_software: function and constant of every round.        *)
SoftwareRounds ==
  [i \in 0..79 |-> <<CASE i < 20 -> "choose" [] i \in 40..59 -> "majority" [] OTHER -> "parity", i \div 20 + 1>>]

(* sha1_process_block_hardware: twenty groups of four, to whose message words *)
(* no round constant is ever added.                                        *)
HardwareRounds == [i \in 0..79 |-> <<SoftwareRounds[i][1], 0>>]

(* Mutant of ShaBlocks: the length is written behind 57 bytes too.          *)
ShaBlocksTight(n) == n \div 64 + (IF (n % 64) + 1 > 57 THEN 2 ELSE 1)

(* sha1_software and sha1_hardware: blocks made of n bytes, the 0x80 behind   *)
(* them and the length in the last 8 bytes.                                *)
ShaBlocks(n) == n \div 64 + (IF (n % 64) + 1 > 56 THEN 2 ELSE 1)

(* select_sha_backend.                                                     *)
Digest(hardware, text) == [rounds |-> IF hardware THEN HardwareRounds ELSE SoftwareRounds, text |-> text]

(* hmac_sha1_software and hmac_sha1_hardware.                              *)
HmacSha1(hardware, key, keyLength, message) ==
  LET k == IF keyLength > 64 THEN Digest(hardware, key) ELSE key
  IN  Digest(hardware, <<"opad", k, Digest(hardware, <<"ipad", k, message>>)>>)

(* qundis_authenticate: the challenge and eight zeros, and 16 bytes of the    *)
(* digest.                                                                 *)
QundisResponse(hardware, key, challenge) == <<16, HmacSha1(hardware, key, 16, <<challenge, 0>>)>>

(* The block B0 of calculate_lorawan_mic, the length in one byte.            *)
MicHeader(m) == <<73, m.direction, m.address, m.counter, m.length % 256>>

(* Mutant of LorawanMic: uplink and downlink are not told apart.             *)
LorawanMicUndirected(key, m) == <<key, MicHeader([m EXCEPT !.direction = 0]), m.text, m.length>>

(* calculate_lorawan_mic: of B0 and the whole message.                      *)
LorawanMic(key, m) == <<key, MicHeader(m), m.text, m.length>>

(* verify_lorawan_mic.                                                     *)
MicVerifies(key, m, mic) == LorawanMic(key, m) = mic

MicMessages == [direction : 0..1, address : 1..2, counter : {1, 65537}, text : {"a", "b"}, length : {1, 257}]

(* Every message is padded to the least number of blocks that hold it, a     *)
(* response to a challenge is good for that challenge and key alone, and a   *)
(* MIC vouches for its own message: one that was sent in the other direction, *)
(* from another address, under another counter or cut does not verify.      *)
DigestsBind ==
  /\ \A n \in 0..130 : 64 * ShaBlocks(n) >= n + 9 /\ 64 * (ShaBlocks(n) - 1) < n + 9
  /\ \A k1, k2 \in FcKeys, c1, c2 \in 1..2 :
       QundisResponse(FALSE, k1, c1) = QundisResponse(FALSE, k2, c2) <=> k1 = k2 /\ c1 = c2
  /\ \A k1, k2 \in FcKeys, m1, m2 \in MicMessages :
       MicVerifies(k1, m1, LorawanMic(k2, m2)) <=> k1 = k2 /\ m1 = m2

CryptoSound == Authentic /\ RoundTrip /\ SpoilsLocally /\ DigestsBind
=============================================================================
