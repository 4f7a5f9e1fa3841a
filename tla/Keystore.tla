------------------------------ MODULE Keystore ------------------------------
(***************************************************************************)
(* The issuer's keystore: the key that signs attestations, the retired     *)
(* ones that still verify, and the file they are kept in, through          *)
(* rotations, writes that fail or tear, crashes and restarts.              *)
(*                                                                         *)
(* A key pair is a number; generate draws the next one.  The issuer signs  *)
(* with active() at every issue.                                           *)
(***************************************************************************)
EXTENDS Integers, FiniteSets

CONSTANTS
    Life, MaxAge,      \* of an attestation; of prune_retired
    MaxKey, MaxTime,   \* bounds
    Absent, Torn       \* the file: not there; not parseable

ASSUME KeystoreAssumption ==
    /\ {Life, MaxAge, MaxTime} \subseteq Nat /\ MaxKey \in Nat \ {0}
    /\ Life <= MaxAge

Key == 1 .. MaxKey
Retired == [key : Key, retired_at : Nat]
KeyFile == [active : Key, since : Nat, retired : SUBSET Retired]

ASSUME FileAssumption == Absent \notin KeyFile /\ Torn \notin KeyFile /\ Absent # Torn

VARIABLES
    now,
    up,          \* the process runs
    active, active_since, retired, \* IssuerKeystore
    file,
    drawn,       \* keys generated so far
    signed,      \* attestations: who signed, and when they expire
    kept         \* history: active keys that some write of the file has kept

memory == <<active, active_since, retired>>
vars == <<now, up, memory, file, drawn, signed, kept>>

TypeOK ==
    /\ now \in Nat
    /\ up \in BOOLEAN
    /\ active \in Key /\ active_since \in Nat
    /\ retired \subseteq Retired
    /\ file \in KeyFile \cup {Absent, Torn}
    /\ drawn \in 0 .. MaxKey
    /\ signed \subseteq [key : Key, expires_at : Nat]
    /\ kept \subseteq Key

Init ==
    /\ now = 0
    /\ up = FALSE
    /\ active = 1 /\ active_since = 0 /\ retired = {}
    /\ file = Absent
    /\ drawn = 0
    /\ signed = {} /\ kept = {}

-----------------------------------------------------------------------------
\* persist, of what memory will hold: written; refused, with the file as it was;
\* or cut short by an error.  fs::write empties the file before it fills it.
Written(key, since, old) ==
    /\ file' = [active |-> key, since |-> since, retired |-> old]
    /\ kept' = kept \cup {key}
Unwritten == file' \in {file, Torn} /\ UNCHANGED kept

Remember(key, since, old) ==
    active' = key /\ active_since' = since /\ retired' = old

Crash == up' = FALSE /\ UNCHANGED memory

\* load_or_create without a file: no key is used that was not written.
Create ==
    /\ ~up /\ file = Absent
    /\ drawn < MaxKey /\ drawn' = drawn + 1
    /\ \/ /\ Written(drawn', now, {})
          /\ Remember(drawn', now, {})
          /\ up' = TRUE
       \/ Unwritten /\ Crash
    /\ UNCHANGED <<now, signed>>

\* load_or_create with a file.  One that does not parse is refused.
Load ==
    /\ ~up /\ file \notin {Absent, Torn}
    /\ Remember(file.active, file.since, file.retired)
    /\ up' = TRUE
    /\ UNCHANGED <<now, file, drawn, signed, kept>>

\* A wrong retirement: it starts when the key did.
RetiredSince(key, since) == [key |-> key, retired_at |-> since]

RetiredNow(key, since) == [key |-> key, retired_at |-> now]

\* rotate changes memory first: an error leaves the new key in use, and the file
\* with the old one, or torn.  A crash may fall before the write, or into it.
Rotate ==
    LET old == retired \cup {RetiredNow(active, active_since)}
    IN  /\ up
        /\ drawn < MaxKey /\ drawn' = drawn + 1
        /\ \/ /\ Remember(drawn', now, old)
              /\ Written(drawn', now, old) \/ Unwritten
              /\ UNCHANGED up
           \/ Unwritten /\ Crash
        /\ UNCHANGED <<now, signed>>

\* prune_retired(MaxAge).
PruneRetired ==
    LET young == {k \in retired : k.retired_at >= now - MaxAge}
    IN  /\ up /\ young # retired
        /\ \/ /\ Remember(active, active_since, young)
              /\ Written(active, active_since, young) \/ Unwritten
              /\ UNCHANGED up
           \/ Unwritten /\ Crash
        /\ UNCHANGED <<now, drawn, signed>>

\* AttestationIssuer::issue, with active().
Issue ==
    /\ up
    /\ signed' = signed \cup {[key |-> active, expires_at |-> now + Life]}
    /\ UNCHANGED <<now, up, memory, file, drawn, kept>>

Stop == up /\ Crash /\ UNCHANGED <<now, file, drawn, signed, kept>>

Tick ==
    /\ now < MaxTime /\ now' = now + 1
    /\ UNCHANGED <<up, memory, file, drawn, signed, kept>>

Next == Create \/ Load \/ Rotate \/ PruneRetired \/ Issue \/ Stop \/ Tick

Spec == Init /\ [][Next]_vars

-----------------------------------------------------------------------------
(* Properties.                                                              *)

\* accepts, and published.
Accepts(key) == key = active \/ \E k \in retired : k.key = key

Outstanding == {s \in signed : now <= s.expires_at}

\* Whatever was rotated, pruned, torn or restarted: a gateway that is up still
\* publishes the key under every attestation that has not expired, but for a key
\* that never reached the file.
OutstandingIsPublished ==
    up => \A s \in Outstanding : s.key \in kept => Accepts(s.key)
=============================================================================
