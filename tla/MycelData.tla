----------------------------- MODULE MycelData -----------------------------
(***************************************************************************)
(* What the MycelFT Explorer reads and writes, as far as its properties    *)
(* tell it apart.  The keystream and the HMAC are ideal: a block is the    *)
(* plaintext it came from with the set of the seeds it is XORed with, and  *)
(* a tag is the seed with the blocks that were hashed.                     *)
(***************************************************************************)
EXTENDS Integers, Sequences

CONSTANTS
    Files,    \* file objects of the volume
    Names,    \* the paths they may have
    N         \* blocks of a file

ASSUME LengthAssumption == N \in Nat

Blocks == 1..N
Foreign == "foreign"
Seeds == [name : Names, serial : BOOLEAN]
BlockValues == [base : Files \cup {Foreign}, keys : SUBSET Seeds]
Contents == [Blocks -> BlockValues]

\* XOR with the keystream of seed s: a second XOR with the same seed cancels
\* the first.
Xor(b, s) ==
    [b EXCEPT !.keys = IF s \in @ THEN @ \ {s} ELSE @ \cup {s}]

XorAll(c, s) == [i \in DOMAIN c |-> Xor(c[i], s)]

Prefix(c, p) == [i \in 1..p |-> c[i]]

\* MycelSeedForPath: the name with the serial number of the volume, or with 0
\* when GetVolumeInformationW fails, which nothing looks at.
SeedForPath(n, serial) == [name |-> n, serial |-> serial]

NoTag    == [kind |-> "none"]     \* no stream and no sidecar
EmptyTag == [kind |-> "empty"]    \* created, but not kHmacSize bytes long

\* The HMAC over the blocks c.  The field "from" is history: the whole content
\* that the encryption found.
Hmac(s, c, from) ==
    [kind |-> "hmac", seed |-> s, over |-> c, from |-> from]

Hmacs == [kind : {"hmac"}, seed : Seeds, over : Seq(BlockValues),
          from : Contents]
Tags == {NoTag, EmptyTag} \cup Hmacs

PlainContent(f) == [i \in Blocks |-> [base |-> f, keys |-> {}]]

\* The sidecar of a file that is gone: it fits no content of this volume.
StaleTag(n) ==
    LET s == SeedForPath(n, FALSE)
        c == XorAll(PlainContent(Foreign), s)
    IN  Hmac(s, c, PlainContent(Foreign))
=============================================================================
