---------------------------- MODULE SealedStore ----------------------------
(***************************************************************************)
(* What the toggle of the MycelFT Explorer promises about file contents,   *)
(* without tags, handles and threads: sealing XORs a whole file in one     *)
(* step; unsealing is done only to a content that was sealed under the     *)
(* same seed and restores what the sealing found.  Only where faults are   *)
(* possible may a file be torn, and then only along its own keystream.     *)
(***************************************************************************)
EXTENDS MycelData

CONSTANTS NoFile, Faults, LeftOver

VARIABLES dir,       \* path |-> the file it names
          content,   \* file |-> its blocks
          issued     \* the seals given so far

vars == <<dir, content, issued>>

Init ==
    /\ dir \in [Names -> Files \cup {NoFile}]
    /\ content = [f \in Files |-> PlainContent(f)]
    /\ issued = {StaleTag(n) : n \in LeftOver}

SeedsOf(f) == {s \in Seeds : dir[s.name] = f}

Seal(f) ==
    \E s \in SeedsOf(f) :
        /\ content' = [content EXCEPT ![f] = XorAll(@, s)]
        /\ issued' = issued \cup {Hmac(s, content'[f], content[f])}
        /\ UNCHANGED dir

Unseal(f) ==
    \E t \in issued :
        /\ t.over = content[f]
        /\ t.seed \in SeedsOf(f)
        /\ content' = [content EXCEPT ![f] = t.from]
        /\ UNCHANGED <<dir, issued>>

\* The first p blocks of c, toggled with s.
Torn(c, s, p) == [i \in Blocks |-> IF i <= p THEN Xor(c[i], s) ELSE c[i]]

\* A fault, or a crash that ends several operations, tears their files.
Tear ==
    /\ Faults # {}
    /\ content' \in [Files -> Contents]
    /\ \A f \in Files :
          \/ content'[f] = content[f]
          \/ \E s \in SeedsOf(f), p \in Blocks : content'[f] = Torn(content[f], s, p)
    /\ UNCHANGED <<dir, issued>>

Rename(m, n) ==
    /\ dir[m] # NoFile
    /\ dir[n] = NoFile
    /\ dir' = [dir EXCEPT ![m] = NoFile, ![n] = dir[m]]
    /\ UNCHANGED <<content, issued>>

Delete(n) ==
    /\ dir' = [dir EXCEPT ![n] = NoFile]
    /\ UNCHANGED <<content, issued>>

\* Another program: a block it wrote itself, or a new file.
ForeignWrite(f, i) ==
    /\ content' = [content EXCEPT ![f][i] = [base |-> Foreign, keys |-> {}]]
    /\ UNCHANGED <<dir, issued>>

ForeignCreate(n, f) ==
    /\ dir[n] = NoFile
    /\ dir' = [dir EXCEPT ![n] = f]
    /\ content' = [content EXCEPT ![f] = PlainContent(Foreign)]
    /\ UNCHANGED issued

Next ==
    \/ \E f \in Files : Seal(f) \/ Unseal(f)
    \/ Tear
    \/ \E m, n \in Names : Rename(m, n)
    \/ \E n \in Names : Delete(n)
    \/ \E f \in Files, i \in Blocks : ForeignWrite(f, i)
    \/ \E n \in Names, f \in Files : ForeignCreate(n, f)

Spec == Init /\ [][Next]_vars
=============================================================================
