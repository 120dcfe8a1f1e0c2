------------------------------- MODULE Padding -------------------------------
(***************************************************************************)
(* PKCS#7 padding and the AES-CBC messages built on it (core/crypto.go):   *)
(* folder names are encrypted this way.  The block cipher is external: the *)
(* right key gives the padded data back, another key any blocks at all.    *)
(***************************************************************************)
EXTENDS Naturals, Sequences

CONSTANT BlockSize    \* DefaultBlockSize

ASSUME BlockSizeAssumption == BlockSize \in 1..255

Byte == 0..255

\* Broken variant: no padding is added to whole blocks.
PadUnlessWhole(data) ==
  LET n == (BlockSize - (Len(data) % BlockSize)) % BlockSize
  IN  data \o [i \in 1..n |-> n]

pkcs7Pad(data) ==
  LET n == BlockSize - (Len(data) % BlockSize)
  IN  data \o [i \in 1..n |-> n]

\* Broken variant: the last byte alone is looked at.
LastByteInRange(data) ==
  /\ data # <<>> /\ Len(data) % BlockSize = 0
  /\ data[Len(data)] \in 1..BlockSize

WellPadded(data) ==
  /\ data # <<>> /\ Len(data) % BlockSize = 0
  /\ data[Len(data)] \in 1..BlockSize
  /\ \A i \in (Len(data) - data[Len(data)] + 1)..Len(data) :
       data[i] = data[Len(data)]

\* Data that is not padded is returned as it is.
pkcs7Unpad(data) ==
  IF WellPadded(data) THEN SubSeq(data, 1, Len(data) - data[Len(data)])
                      ELSE data

\* A message is the key it is under and its padded blocks.
EncryptAesCbc(data, key) == [key |-> key, blocks |-> pkcs7Pad(data)]

\* What may come out, "noise" being what the cipher makes of a wrong key.
DecryptAesCbc(message, key, noise) ==
  pkcs7Unpad(IF key = message.key THEN message.blocks ELSE noise)

=============================================================================
