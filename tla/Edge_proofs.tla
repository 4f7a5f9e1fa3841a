---------------------------- MODULE Edge_proofs ----------------------------
(***************************************************************************)
(* What is proved of the parts at the edge of the gateway.                 *)
(*                                                                         *)
(* Edge composes parts that share no state: part says which of them runs,  *)
(* and only its actions are taken.  Starts and Steps say so; then each     *)
(* part has an inductive invariant of its own, on the condition that it is *)
(* the part that runs, and the theorems follow from it.                    *)
(***************************************************************************)
EXTENDS Edge, LedgerLemmas

-----------------------------------------------------------------------------
(* The parts.                                                               *)

\* A behaviour starts as one of the parts does.
LEMMA Starts ==
    ASSUME EdgeInit
    PROVE  /\ part = "keystore" => Init
           /\ part = "access" => A!Init
           /\ part = "rails" => R!Init
           /\ part = "outbound" => O!Init
           /\ part = "scoring" => S!Init
           /\ part = "venues" => V!Init
           /\ part = "passport" => D!Init
           /\ part = "registry" => C!Init
           /\ part = "money" => M!Init
           /\ part # "keystore" => up = FALSE
  BY DEF EdgeInit, EdgeParts, ServiceOff, KeystoreOff

\* What a step of Edge is to each part: its own, or none.
LEMMA Steps ==
    ASSUME [EdgeNext]_edgeVars
    PROVE  /\ part' = part
           /\ part = "keystore" => [Next]_vars
           /\ part = "access" => [A!Next]_(A!vars)
           /\ part = "rails" => [R!Next]_(R!vars)
           /\ part = "outbound" => [O!Next]_(O!vars)
           /\ part = "scoring" => [S!Next]_(S!vars)
           /\ part = "venues" => [V!Next]_(V!vars)
           /\ part = "passport" => [D!Next]_(D!vars)
           /\ part = "registry" => [C!Next]_(C!vars)
           /\ part = "money" => [M!Next]_(M!vars)
           /\ part # "keystore" => up' = up
<1> USE DEF serviceVars, agentVars, keystoreVars, handlerVars
<1>1. CASE UNCHANGED edgeVars
  <2>1. UNCHANGED vars /\ UNCHANGED A!vars /\ UNCHANGED R!vars /\ UNCHANGED O!vars
    BY <1>1 DEF edgeVars, vars, memory, A!vars, R!vars, R!spend, R!guard, O!vars, accessVars, railsVars,
                outboundVars
  <2>2. UNCHANGED V!vars /\ UNCHANGED D!vars /\ UNCHANGED C!vars /\ UNCHANGED M!vars
        /\ UNCHANGED S!vars
    BY <1>1 DEF edgeVars, S!vars, scoringVars, V!vars, D!vars, D!state, C!vars, M!vars,
       venuesVars,
                passportVars, registryVars, moneyVars
  <2> QED
    BY <1>1, <2>1, <2>2 DEF edgeVars
<1>2. CASE KeystoreNext
  BY <1>2 DEF KeystoreNext
<1>3. CASE AccessNext
  BY <1>3 DEF AccessNext
<1>4. CASE RailsNext
  BY <1>4 DEF RailsNext
<1>5. CASE OutboundNext
  BY <1>5 DEF OutboundNext
<1>6. CASE ScoringNext
  BY <1>6 DEF ScoringNext
<1>7. CASE VenuesNext
  BY <1>7 DEF VenuesNext
<1>8. CASE PassportNext
  BY <1>8 DEF PassportNext
<1>9. CASE RegistryNext
  BY <1>9 DEF RegistryNext
<1>10. CASE MoneyNext
  BY <1>10 DEF MoneyNext
<1>11. CASE TreeNext
  BY <1>11 DEF TreeNext
<1> QED
  BY <1>1, <1>2, <1>3, <1>4, <1>5, <1>6, <1>7, <1>8, <1>9, <1>10, <1>11 DEF EdgeNext

-----------------------------------------------------------------------------
(* The keystore.                                                            *)

\* At time t, an attestation has a key to verify it: the active one, or a retired
\* one that is pruned only after the attestation expires; or it has expired.
Covered(s, key, old, t) ==
    \/ s.key = key
    \/ \E k \in old : k.key = s.key /\ s.expires_at <= k.retired_at + MaxAge
    \/ s.expires_at < t

CoversAll(key, old, out, durable, t) ==
    \A s \in out : s.key \in durable => Covered(s, key, old, t)

KeysCover(key, old) == CoversAll(key, old, signed, kept, now)

SignedInv == \A s \in signed : s.key <= drawn /\ s.expires_at <= now + Life

\* The next key that is drawn is nobody's.
KeptInv == (\A k \in kept : k <= drawn) /\ (file = Absent => kept = {})

MemoryInv == up => active <= drawn /\ KeysCover(active, retired)

FileInv ==
    file \notin {Absent, Torn} =>
        /\ file.active <= drawn
        /\ KeysCover(file.active, file.retired)
        /\ up /\ active \in kept => active = file.active

KeystoreInv == TypeOK /\ SignedInv /\ KeptInv /\ MemoryInv /\ FileInv

-----------------------------------------------------------------------------
LEMMA KeystoreInit == Init => KeystoreInv
<1> SUFFICES ASSUME Init PROVE KeystoreInv
  OBVIOUS
<1>1. TypeOK
  <2>1. 1 \in Key /\ drawn \in 0 .. MaxKey
    BY KeystoreAssumption DEF Init, Key
  <2> QED
    BY <2>1, Zenon DEF Init, TypeOK
<1>2. SignedInv /\ KeptInv /\ MemoryInv /\ FileInv
  BY DEF Init, SignedInv, KeptInv, MemoryInv, FileInv
<1> QED
  BY <1>1, <1>2 DEF KeystoreInv

\* The file is read by its fields only when it is a record.
LEMMA FileFields ==
    ASSUME TypeOK, file \notin {Absent, Torn}
    PROVE  /\ file \in KeyFile /\ file.active \in Key /\ file.since \in Nat
           /\ file.retired \subseteq Retired
    BY DEF TypeOK, KeyFile

\* A record that was just written has the fields that were written.
LEMMA NewFile ==
    ASSUME NEW key \in Key, NEW since \in Nat, NEW old \in SUBSET Retired,
           NEW f, f = [active |-> key, since |-> since, retired |-> old]
    PROVE  /\ f \in KeyFile /\ f \notin {Absent, Torn}
           /\ f.active = key /\ f.retired = old
    BY FileAssumption DEF KeyFile

\* A key drawn now has signed nothing.
LEMMA FreshKey ==
    ASSUME KeystoreInv, NEW key, key = drawn + 1
    PROVE  (\A s \in signed : s.key # key) /\ key \notin kept
    BY DEF KeystoreInv, TypeOK, SignedInv, KeptInv, Key

\* What was not pruned covers what it covered: a key that is pruned has outlived
\* its attestations.
LEMMA YoungCover ==
    ASSUME TypeOK, SignedInv, NEW key, KeysCover(key, retired),
           NEW young, young = {k \in retired : k.retired_at >= now - MaxAge}
    PROVE  KeysCover(key, young)
<1> SUFFICES ASSUME NEW s \in signed, s.key \in kept
             PROVE  Covered(s, key, young, now)
  BY DEF KeysCover, CoversAll
<1>1. Covered(s, key, retired, now)
  BY DEF KeysCover, CoversAll
<1>2. now \in Nat /\ MaxAge \in Nat /\ s.expires_at \in Nat
      /\ \A k \in retired : k.retired_at \in Nat
  BY KeystoreAssumption DEF TypeOK, Retired
<1>3. ASSUME NEW k \in retired, k.key = s.key, s.expires_at <= k.retired_at + MaxAge,
             ~ (k.retired_at >= now - MaxAge)
      PROVE  s.expires_at < now
  BY <1>2, <1>3
<1> QED
  BY <1>1, <1>3 DEF Covered

\* A key that retires now outlives what it has signed.
LEMMA RetiringCovers ==
    ASSUME TypeOK, SignedInv, KeysCover(active, retired), NEW key
    PROVE  KeysCover(key, retired \cup {RetiredNow(active, active_since)})
<1> SUFFICES ASSUME NEW s \in signed, s.key \in kept
             PROVE  Covered(s, key, retired \cup {RetiredNow(active, active_since)}, now)
  BY DEF KeysCover, CoversAll
<1>1. Covered(s, active, retired, now)
  BY DEF KeysCover, CoversAll
<1>2. s.key = active =>
          LET k == RetiredNow(active, active_since)
          IN  k.key = s.key /\ s.expires_at <= k.retired_at + MaxAge
  BY KeystoreAssumption DEF RetiredNow, SignedInv, TypeOK
<1> QED
  BY <1>1, <1>2 DEF Covered

-----------------------------------------------------------------------------
(* The steps.                                                               *)

LEMMA CreateFileInv == ASSUME KeystoreInv, Create PROVE KeystoreInv'
<1> USE DEF KeystoreInv
<1>1. /\ drawn' = drawn + 1 /\ drawn' \in Key /\ drawn \in Nat /\ now \in Nat
      /\ now' = now /\ signed' = signed /\ file = Absent /\ kept = {}
  BY KeystoreAssumption DEF Create, TypeOK, Key, KeptInv
<1>2. SignedInv'
  BY <1>1 DEF SignedInv, TypeOK, Key
<1>3. CASE Written(drawn', now, {}) /\ Remember(drawn', now, {}) /\ up' = TRUE
  <2>1. /\ file' \in KeyFile /\ file' \notin {Absent, Torn}
        /\ file'.active = drawn' /\ file'.retired = {}
    BY <1>1, <1>3, NewFile DEF Written
  <2>2. kept' = {drawn'} /\ \A s \in signed : s.key # drawn'
    BY <1>1, <1>3, FreshKey DEF Written
  <2>3. TypeOK'
    BY <1>1, <1>3, <2>1, <2>2 DEF TypeOK, Remember, Key
  <2>4. \A key, old : CoversAll(key, old, signed', kept', now')
    BY <1>1, <2>2 DEF KeysCover, CoversAll
  <2> QED
    BY <1>1, <1>2, <1>3, <2>1, <2>2, <2>3, <2>4
    DEF KeptInv, MemoryInv, FileInv, KeysCover, Remember
<1>4. CASE Unwritten /\ Crash
  <2>1. file' \in {Absent, Torn} /\ kept' = {} /\ up' = FALSE /\ UNCHANGED memory
    BY <1>1, <1>4 DEF Unwritten, Crash
  <2>2. TypeOK'
    <3>1. drawn' \in 0 .. MaxKey
      BY <1>1, KeystoreAssumption DEF Key
    <3> QED
      BY <1>1, <2>1, <3>1 DEF TypeOK, memory
  <2> QED
    BY <1>1, <1>2, <2>1, <2>2 DEF KeptInv, MemoryInv, FileInv, KeysCover
<1> QED
  BY <1>3, <1>4 DEF Create

LEMMA LoadFileInv == ASSUME KeystoreInv, Load PROVE KeystoreInv'
<1> USE DEF KeystoreInv
<1>1. /\ file \notin {Absent, Torn} /\ up' = TRUE
      /\ active' = file.active /\ active_since' = file.since /\ retired' = file.retired
      /\ UNCHANGED <<now, file, drawn, signed, kept>>
  BY DEF Load, Remember
<1>2. TypeOK'
  BY <1>1, FileFields DEF TypeOK
<1>3. SignedInv' /\ KeptInv'
  BY <1>1 DEF SignedInv, KeptInv
<1>4. file.active <= drawn /\ KeysCover(file.active, file.retired)
  BY <1>1 DEF FileInv
<1>5. CoversAll(file.active, file.retired, signed', kept', now')
  BY <1>1, <1>4 DEF KeysCover, CoversAll
<1> QED
  BY <1>1, <1>2, <1>3, <1>4, <1>5 DEF MemoryInv, FileInv, KeysCover

LEMMA RotateInv == ASSUME KeystoreInv, Rotate PROVE KeystoreInv'
<1> DEFINE old == retired \cup {RetiredNow(active, active_since)}
<1> USE DEF KeystoreInv
<1>1. /\ drawn' = drawn + 1 /\ drawn' \in Key /\ drawn \in Nat /\ now \in Nat
      /\ now' = now /\ signed' = signed /\ up = TRUE
  BY KeystoreAssumption DEF Rotate, TypeOK, Key
<1>2. /\ SignedInv'
      /\ \A s \in signed : s.key # drawn'
      /\ drawn' \notin kept
  BY <1>1, FreshKey DEF SignedInv, TypeOK, Key
<1>3. old \in SUBSET Retired
  BY <1>1 DEF TypeOK, Retired, RetiredNow
<1>4. \A key : KeysCover(key, old)
  BY <1>1, RetiringCovers DEF MemoryInv, KeysCover
<1>5. kept \subseteq kept' /\ kept' \subseteq kept \cup {drawn'}
  BY DEF Rotate, Written, Unwritten
<1>6. \A key, o : KeysCover(key, o) => CoversAll(key, o, signed', kept', now')
  BY <1>1, <1>2, <1>5 DEF KeysCover, CoversAll
<1>7. ASSUME Unwritten PROVE FileInv' /\ KeptInv' /\ file' \in KeyFile \cup {Absent, Torn}
  <2>1. kept' = kept /\ file' \in {file, Torn}
    BY <1>7 DEF Unwritten
  <2>2. (active' = active \/ active' = drawn') /\ (up' => active' = drawn')
    BY DEF Rotate, Remember, Crash, memory
  <2>3. KeptInv'
    BY <1>1, <2>1, FileAssumption DEF KeptInv, TypeOK, Key
  <2>4. ASSUME file' \notin {Absent, Torn}
        PROVE  /\ file'.active <= drawn' /\ CoversAll(file'.active, file'.retired, signed', kept', now')
               /\ ~ (up' /\ active' \in kept')
    <3>1. file' = file
      BY <2>1, <2>4
    <3>2. file.active <= drawn /\ KeysCover(file.active, file.retired) /\ file.active \in Key
      BY <3>1, <2>4, FileFields DEF FileInv
    <3>3. file.active <= drawn'
      BY <1>1, <3>2 DEF Key
    <3>4. CoversAll(file.active, file.retired, signed', kept', now')
      BY <1>1, <2>1, <3>1, <3>2 DEF KeysCover, CoversAll
    <3> QED
      BY <1>2, <2>1, <2>2, <3>1, <3>3, <3>4 DEF KeysCover, CoversAll
  <2>5. file' \in KeyFile \cup {Absent, Torn}
    BY <2>1 DEF TypeOK
  <2>6. FileInv'
    BY <2>4 DEF FileInv, KeysCover
  <2> QED
    BY <2>3, <2>5, <2>6
<1>8. CASE Remember(drawn', now, old) /\ Written(drawn', now, old) /\ UNCHANGED up
  <2>1. /\ file' \in KeyFile /\ file' \notin {Absent, Torn}
        /\ file'.active = drawn' /\ file'.retired = old
    BY <1>1, <1>3, <1>8, NewFile DEF Written
  <2>2. TypeOK'
    BY <1>1, <1>3, <1>8, <2>1 DEF TypeOK, Remember, Written, Key
  <2>3. KeptInv'
    <3>1. \A k \in kept : k \in Int /\ k <= drawn
      BY DEF KeptInv, TypeOK, Key
    <3> QED
      BY <1>1, <1>5, <2>1, <3>1 DEF KeptInv, Key
  <2>4. CoversAll(drawn', old, signed', kept', now')
    BY <1>1, <1>4, <1>2, <1>5 DEF KeysCover, CoversAll
  <2> QED
    BY <1>1, <1>2, <1>8, <2>1, <2>2, <2>3, <2>4 DEF MemoryInv, FileInv, KeysCover, Remember
<1>9. CASE Remember(drawn', now, old) /\ Unwritten /\ UNCHANGED up
  <2>1. TypeOK'
    BY <1>1, <1>3, <1>7, <1>9 DEF TypeOK, Remember, Unwritten, Key
  <2>2. CoversAll(drawn', old, signed', kept', now')
    BY <1>1, <1>4, <1>2, <1>5 DEF KeysCover, CoversAll
  <2> QED
    BY <1>1, <1>2, <1>7, <1>9, <2>1, <2>2 DEF MemoryInv, KeysCover, Remember
<1>10. CASE Unwritten /\ Crash
  <2>1. TypeOK'
    <3>1. drawn' \in 0 .. MaxKey /\ kept' \subseteq Key
      BY <1>1, <1>10, KeystoreAssumption DEF TypeOK, Unwritten, Key
    <3> QED
      BY <1>1, <1>7, <1>10, <3>1 DEF TypeOK, Crash, memory
  <2> QED
    BY <1>2, <1>7, <1>10, <2>1 DEF MemoryInv, KeysCover, Crash
<1> QED
  BY <1>8, <1>9, <1>10 DEF Rotate

LEMMA PruneRetiredInv == ASSUME KeystoreInv, PruneRetired PROVE KeystoreInv'
<1> DEFINE young == {k \in retired : k.retired_at >= now - MaxAge}
<1> USE DEF KeystoreInv
<1>1. /\ up = TRUE /\ UNCHANGED <<now, drawn, signed>>
      /\ active \in Key /\ active <= drawn /\ active_since \in Nat
  BY DEF PruneRetired, TypeOK, MemoryInv
<1>2. SignedInv'
  BY <1>1 DEF SignedInv
<1>3. young \in SUBSET Retired
  BY DEF TypeOK
<1>4. KeysCover(active, young)
  BY <1>1, YoungCover DEF MemoryInv, KeysCover
<1>5. kept \subseteq kept' /\ kept' \subseteq kept \cup {active}
  BY DEF PruneRetired, Written, Unwritten
<1>6. CoversAll(active, young, signed', kept', now')
  <2> SUFFICES ASSUME NEW s \in signed, s.key \in kept'
               PROVE  Covered(s, active, young, now)
    BY <1>1 DEF KeysCover, CoversAll, PruneRetired, Remember, Crash, memory
  <2>1. CASE s.key = active
    BY <2>1 DEF Covered
  <2>2. CASE s.key # active
    BY <1>4, <1>5, <2>2 DEF KeysCover, CoversAll
  <2> QED
    BY <2>1, <2>2
<1>7. active' = active /\ active_since' = active_since
  BY DEF PruneRetired, Remember, Crash, memory
<1>8. ASSUME Unwritten PROVE FileInv' /\ KeptInv' /\ file' \in KeyFile \cup {Absent, Torn}
  <2>1. kept' = kept /\ file' \in {file, Torn}
    BY <1>8 DEF Unwritten
  <2>2. KeptInv'
    BY <1>1, <2>1, FileAssumption DEF KeptInv
  <2>3. FileInv'
    BY <1>1, <1>7, <2>1 DEF FileInv, KeysCover, CoversAll
  <2> QED
    BY <2>1, <2>2, <2>3 DEF TypeOK
<1>9. CASE Remember(active, active_since, young) /\ Written(active, active_since, young)
          /\ UNCHANGED up
  <2>1. /\ file' \in KeyFile /\ file' \notin {Absent, Torn}
        /\ file'.active = active /\ file'.retired = young
    BY <1>1, <1>3, <1>9, NewFile DEF Written
  <2>2. TypeOK'
    BY <1>1, <1>3, <1>9, <2>1 DEF TypeOK, Remember, Written
  <2>3. KeptInv'
    BY <1>1, <1>5, <2>1 DEF KeptInv
  <2> QED
    BY <1>1, <1>2, <1>6, <1>7, <1>9, <2>1, <2>2, <2>3 DEF MemoryInv, FileInv, KeysCover,
       Remember
<1>10. CASE Remember(active, active_since, young) /\ Unwritten /\ UNCHANGED up
  <2>1. TypeOK'
    BY <1>1, <1>3, <1>8, <1>10 DEF TypeOK, Remember, Unwritten
  <2> QED
    BY <1>1, <1>2, <1>6, <1>7, <1>8, <1>10, <2>1 DEF MemoryInv, KeysCover, Remember
<1>11. CASE Unwritten /\ Crash
  <2>1. TypeOK'
    BY <1>1, <1>8, <1>11 DEF TypeOK, Unwritten, Crash, memory
  <2> QED
    BY <1>2, <1>8, <1>11, <2>1 DEF MemoryInv, KeysCover, Crash
<1> QED
  BY <1>9, <1>10, <1>11 DEF PruneRetired

LEMMA SigningInv == ASSUME KeystoreInv, Issue PROVE KeystoreInv'
<1> DEFINE new == [key |-> active, expires_at |-> now + Life]
<1> USE DEF KeystoreInv
<1>1. /\ up = TRUE /\ signed' = signed \cup {new}
      /\ UNCHANGED <<now, up, active, active_since, retired, file, drawn, kept>>
  BY DEF Issue, TypeOK, memory
<1>2. TypeOK'
  BY <1>1, KeystoreAssumption DEF TypeOK
<1>3. SignedInv' /\ KeptInv'
  BY <1>1, KeystoreAssumption DEF SignedInv, KeptInv, MemoryInv, TypeOK
<1>4. \A key, old : KeysCover(key, old) /\ (active \in kept => active = key)
          => CoversAll(key, old, signed', kept', now')
  BY <1>1 DEF KeysCover, CoversAll, Covered
<1>5. MemoryInv'
  BY <1>1, <1>4 DEF MemoryInv, KeysCover, CoversAll
<1>6. FileInv'
  BY <1>1, <1>4 DEF FileInv, KeysCover, CoversAll
<1> QED
  BY <1>2, <1>3, <1>5, <1>6

LEMMA KeystoreStopInv == ASSUME KeystoreInv, Stop PROVE KeystoreInv'
<1> USE DEF KeystoreInv
<1>1. up' = FALSE /\ UNCHANGED <<now, active, active_since, retired, file, drawn, signed, kept>>
  BY DEF Stop, Crash, memory
<1> QED
  BY <1>1 DEF TypeOK, SignedInv, KeptInv, MemoryInv, FileInv, KeysCover, CoversAll

LEMMA KeystoreTickInv == ASSUME KeystoreInv, Tick PROVE KeystoreInv'
<1> USE DEF KeystoreInv
<1>1. now' = now + 1
      /\ UNCHANGED <<up, active, active_since, retired, file, drawn, signed, kept>>
  BY DEF Tick, memory
<1>2. TypeOK' /\ KeptInv'
  BY <1>1 DEF TypeOK, KeptInv
<1>3. SignedInv'
  BY <1>1, KeystoreAssumption DEF SignedInv, TypeOK
<1>4. \A key, old : KeysCover(key, old) => CoversAll(key, old, signed', kept', now')
  BY <1>1 DEF KeysCover, CoversAll, Covered, TypeOK
<1> QED
  BY <1>1, <1>2, <1>3, <1>4 DEF MemoryInv, FileInv, KeysCover, CoversAll

-----------------------------------------------------------------------------
LEMMA KeystoreStep == KeystoreInv /\ [Next]_vars => KeystoreInv'
<1> SUFFICES ASSUME KeystoreInv, [Next]_vars PROVE KeystoreInv'
  OBVIOUS
<1>1. CASE UNCHANGED vars
  BY <1>1
  DEF vars, memory, KeystoreInv, TypeOK, SignedInv, KeptInv, MemoryInv, FileInv, KeysCover, CoversAll
<1> QED
  BY <1>1, CreateFileInv, LoadFileInv, RotateInv, PruneRetiredInv, SigningInv,
     KeystoreStopInv, KeystoreTickInv DEF Next

\* Elsewhere the process is not up.
LEMMA KeystoreAlways ==
    EdgeSpec => [](IF part = "keystore" THEN KeystoreInv ELSE up = FALSE)
<1>1. EdgeInit => IF part = "keystore" THEN KeystoreInv ELSE up = FALSE
  BY Starts, KeystoreInit
<1>2. (IF part = "keystore" THEN KeystoreInv ELSE up = FALSE) /\ [EdgeNext]_edgeVars
      => (IF part = "keystore" THEN KeystoreInv ELSE up = FALSE)'
  BY Steps, KeystoreStep
<1> QED
  BY <1>1, <1>2, PTL DEF EdgeSpec

\* The keystore's state has its type, whatever fails: in particular memory is never
\* loaded from a torn file.
THEOREM KeystoreTypeCorrect == EdgeSpec => [](part = "keystore" => TypeOK)
<1>1. (IF part = "keystore" THEN KeystoreInv ELSE up = FALSE) => (part = "keystore" => TypeOK)
  BY DEF KeystoreInv
<1> QED
  BY <1>1, KeystoreAlways, PTL

\* Rotation and pruning never withdraw a key that a valid attestation needs, unless
\* the key was never in the file (keystore.rs:155-200: rotate retires, prune_retired
\* drops what is older than any attestation).
THEOREM AttestationsStayVerifiable == EdgeSpec => []OutstandingIsPublished
<1>1. (IF part = "keystore" THEN KeystoreInv ELSE up = FALSE) => OutstandingIsPublished
  <2> SUFFICES ASSUME KeystoreInv, up, NEW s \in Outstanding, s.key \in kept
               PROVE  Accepts(s.key)
    BY DEF OutstandingIsPublished
  <2>1. s \in signed /\ now <= s.expires_at /\ now \in Nat /\ s.expires_at \in Nat
    BY DEF Outstanding, KeystoreInv, TypeOK
  <2>2. Covered(s, active, retired, now)
    BY <2>1 DEF KeystoreInv, MemoryInv, KeysCover, CoversAll
  <2> QED
    BY <2>1, <2>2 DEF Covered, Accepts
<1> QED
  BY <1>1, KeystoreAlways, PTL

-----------------------------------------------------------------------------
(* Revocation cutoffs.                                                      *)

\* What is in effect for s is at least `at`, or `at` is older than any attestation
\* that is still alive: only then may it have been pruned.
Cuts(s, at) == (registry[s] # NoCutoff /\ registry[s] >= at) \/ at < now - Life

\* The row of a cutoff that was ever stored is at least that.
RowsInv == \A c \in stored : rows[c.subject] # NoCutoff /\ rows[c.subject] >= c.at

\* The registry covers each row that was there when it was loaded, or was written since.
RegistryInv ==
    serving /\ loaded => \A s \in C!Subject : rows[s] # NoCutoff => Cuts(s, rows[s])

\* It covers what a handler has yet to write.
UnwrittenInv ==
    \A h \in 1 .. MaxRevokes : \A s \in unwritten[h].subjects :
        serving /\ Cuts(s, unwritten[h].at)

CutoffsInv == C!TypeOK /\ RowsInv /\ RegistryInv /\ UnwrittenInv

-----------------------------------------------------------------------------
\* revoke_agent and revoke_principal move a cutoff forward, to the instant at least.
LEMMA ForwardFacts ==
    ASSUME NoCutoff \notin Int, NEW cutoff \in C!Instant \cup {NoCutoff}, NEW at \in C!Instant,
           RegistryTime \in Nat
    PROVE  /\ C!Forward(cutoff, at) \in C!Instant
           /\ C!Forward(cutoff, at) # NoCutoff
           /\ C!Forward(cutoff, at) >= at
           /\ cutoff # NoCutoff => C!Forward(cutoff, at) >= cutoff
           /\ C!Forward(cutoff, at) \in {cutoff, at}
  BY DEF C!Forward, C!Instant

LEMMA CutoffsInit == ASSUME C!RevocationsAssumption, C!Init PROVE CutoffsInv
<1>1. C!TypeOK
  BY DEF C!RevocationsAssumption, C!Init, C!TypeOK, C!Cutoffs, C!Empty, C!Idle, C!Instant
<1>2. RowsInv /\ RegistryInv /\ UnwrittenInv
  BY DEF C!Init, RowsInv, RegistryInv, UnwrittenInv, C!Empty, C!Idle
<1> QED
  BY <1>1, <1>2 DEF CutoffsInv

LEMMA CutoffRevokeInv ==
    ASSUME C!RevocationsAssumption, CutoffsInv, NEW who \in Agent \cup {None},
           NEW principal \in Principal \cup {None}, NEW at \in C!Instant,
           C!Revoke(who, principal, at)
    PROVE  CutoffsInv'
<1> DEFINE named == {who, principal} \ {None}
<1> USE DEF CutoffsInv
<1>1. /\ serving /\ revokes' = revokes + 1 /\ revokes < MaxRevokes /\ named # {}
      /\ UNCHANGED <<now, serving, loaded, rows, issued, stored>>
      /\ registry' = [s \in C!Subject |-> IF s \in named THEN C!Forward(registry[s], at)
                                                       ELSE registry[s]]
      /\ unwritten' = [unwritten EXCEPT ![revokes'] = [subjects |-> named, at |-> at]]
  BY DEF C!Revoke
<1>2. named \subseteq C!Subject /\ revokes' \in 1 .. MaxRevokes
  BY <1>1 DEF C!Subject, C!RevocationsAssumption, C!TypeOK
<1>3. C!TypeOK'
  <2>1. ASSUME NEW s \in C!Subject PROVE C!Forward(registry[s], at) \in C!Instant
    BY ForwardFacts DEF C!TypeOK, C!Cutoffs, C!RevocationsAssumption
  <2>2. registry' \in C!Cutoffs
    BY <1>1, <2>1 DEF C!TypeOK, C!Cutoffs
  <2>3. unwritten' \in [1 .. MaxRevokes -> [subjects : SUBSET C!Subject, at : C!Instant]]
    BY <1>1, <1>2 DEF C!TypeOK
  <2> QED
    BY <1>1, <1>2, <2>2, <2>3 DEF C!TypeOK, C!RevocationsAssumption
\* A cutoff that moves forward covers what it covered.
<1>4. ASSUME NEW s \in C!Subject, NEW t \in C!Instant, Cuts(s, t) PROVE Cuts(s, t)'
  <2>1. CASE s \in named
    <3>1. /\ registry'[s] = C!Forward(registry[s], at)
          /\ registry[s] \in C!Instant \cup {NoCutoff} /\ NoCutoff \notin Int /\ RegistryTime \in Nat
      BY <1>1, <2>1 DEF C!TypeOK, C!Cutoffs, C!RevocationsAssumption
    <3>2. /\ C!Forward(registry[s], at) \in C!Instant
          /\ C!Forward(registry[s], at) # NoCutoff
          /\ registry[s] # NoCutoff => C!Forward(registry[s], at) >= registry[s]
      BY <3>1, ForwardFacts
    <3> QED
      BY <1>1, <1>4, <3>1, <3>2 DEF Cuts, C!Instant
  <2>2. CASE s \notin named
    BY <1>1, <1>4, <2>2 DEF Cuts
  <2> QED
    BY <2>1, <2>2
<1>5. RegistryInv'
  BY <1>1, <1>4 DEF RegistryInv, C!TypeOK, C!Cutoffs
<1>6. UnwrittenInv'
  <2>1. ASSUME NEW h \in 1 .. MaxRevokes, NEW s \in unwritten'[h].subjects
        PROVE  serving' /\ Cuts(s, unwritten[h].at)'
    <3>1. CASE h = revokes'
      <4>1. unwritten'[h] = [subjects |-> named, at |-> at]
        BY <1>1, <1>2, <3>1 DEF C!TypeOK
      <4>2. s \in named /\ s \in C!Subject
        BY <1>2, <2>1, <4>1
      <4>3. registry'[s] = C!Forward(registry[s], at)
        BY <1>1, <4>2
      <4>4. C!Forward(registry[s], at) # NoCutoff /\ C!Forward(registry[s], at) >= at
        BY <4>2, ForwardFacts DEF C!TypeOK, C!Cutoffs, C!RevocationsAssumption
      <4> QED
        BY <1>1, <4>1, <4>3, <4>4 DEF Cuts
    <3>2. CASE h # revokes'
      <4>1. unwritten'[h] = unwritten[h]
        BY <1>1, <3>2 DEF C!TypeOK
      <4>2. s \in C!Subject /\ unwritten[h].at \in C!Instant /\ Cuts(s, unwritten[h].at)
        BY <2>1, <4>1 DEF C!TypeOK, UnwrittenInv
      <4> QED
        BY <1>1, <1>4, <4>1, <4>2 DEF Cuts
    <3> QED
      BY <3>1, <3>2
  <2> QED
    BY <2>1 DEF UnwrittenInv
<1> QED
  BY <1>1, <1>3, <1>5, <1>6 DEF RowsInv

LEMMA CutoffPersistInv ==
    ASSUME C!RevocationsAssumption, CutoffsInv, NEW h \in 1 .. MaxRevokes, C!Persist(h)
    PROVE  CutoffsInv'
<1> USE DEF CutoffsInv
<1>1. PICK s \in unwritten[h].subjects :
          /\ unwritten' = [unwritten EXCEPT ![h].subjects = @ \ {s}]
          /\ \/ /\ rows' = [rows EXCEPT ![s] = C!StoredRow(@, unwritten[h].at)]
                /\ stored' = stored \cup {[subject |-> s, at |-> unwritten[h].at]}
             \/ UNCHANGED <<rows, stored>>
          /\ UNCHANGED <<now, serving, loaded, registry, issued, revokes>>
  BY DEF C!Persist
<1> DEFINE at == unwritten[h].at
<1>2. /\ s \in C!Subject /\ at \in C!Instant /\ Cuts(s, at) /\ rows[s] \in C!Instant \cup {NoCutoff}
      /\ NoCutoff \notin Int /\ RegistryTime \in Nat
  BY DEF C!TypeOK, UnwrittenInv, C!Cutoffs, C!RevocationsAssumption
<1>3. /\ C!StoredRow(rows[s], at) \in C!Instant
      /\ C!StoredRow(rows[s], at) # NoCutoff
      /\ C!StoredRow(rows[s], at) >= at
      /\ rows[s] # NoCutoff => C!StoredRow(rows[s], at) >= rows[s]
      /\ C!StoredRow(rows[s], at) \in {rows[s], at}
  BY <1>2, ForwardFacts DEF C!StoredRow
<1>4. UnwrittenInv' /\ unwritten' \in [1 .. MaxRevokes -> [subjects : SUBSET C!Subject, at : C!Instant]]
  <2>1. ASSUME NEW g \in 1 .. MaxRevokes
        PROVE  /\ unwritten'[g].subjects \subseteq unwritten[g].subjects
               /\ unwritten'[g].at = unwritten[g].at
               /\ unwritten'[g] \in [subjects : SUBSET C!Subject, at : C!Instant]
    BY <1>1 DEF C!TypeOK
  <2>2. unwritten' \in [1 .. MaxRevokes -> [subjects : SUBSET C!Subject, at : C!Instant]]
    BY <1>1, <2>1 DEF C!TypeOK
  <2>3. UnwrittenInv'
    BY <1>1, <2>1 DEF UnwrittenInv, Cuts
  <2> QED
    BY <2>2, <2>3
<1>5. CASE UNCHANGED <<rows, stored>>
  <2>1. C!TypeOK'
    BY <1>1, <1>4, <1>5 DEF C!TypeOK
  <2>2. RowsInv' /\ RegistryInv'
    BY <1>1, <1>5 DEF RowsInv, RegistryInv, Cuts
  <2> QED
    BY <1>4, <2>1, <2>2
<1>6. CASE /\ rows' = [rows EXCEPT ![s] = C!StoredRow(@, at)]
           /\ stored' = stored \cup {[subject |-> s, at |-> at]}
  <2>1. ASSUME NEW t \in C!Subject
        PROVE  rows'[t] = IF t = s THEN C!StoredRow(rows[s], at) ELSE rows[t]
    BY <1>6, <1>2 DEF C!TypeOK, C!Cutoffs
  <2>2. rows' \in C!Cutoffs
    BY <1>6, <1>2, <1>3 DEF C!TypeOK, C!Cutoffs
  <2>3. stored' \subseteq [subject : C!Subject, at : C!Instant]
    BY <1>6, <1>2 DEF C!TypeOK
  <2>4. C!TypeOK'
    BY <1>1, <1>4, <2>2, <2>3 DEF C!TypeOK
  <2>5. RowsInv'
    <3>1. ASSUME NEW c \in stored' PROVE rows'[c.subject] # NoCutoff /\ rows'[c.subject] >= c.at
      <4>1. CASE c \in stored /\ c.subject = s
        <5>1. c.at \in Int /\ rows[s] # NoCutoff /\ rows[s] >= c.at /\ rows[s] \in Int
          BY <4>1, <1>2 DEF RowsInv, C!TypeOK, C!Instant
        <5>2. rows'[c.subject] = C!StoredRow(rows[s], at) /\ C!StoredRow(rows[s], at) \in Int
          BY <1>2, <1>3, <2>1, <4>1 DEF C!Instant
        <5> QED
          BY <1>3, <5>1, <5>2
      <4>2. CASE c \in stored /\ c.subject # s
        BY <2>1, <4>2 DEF RowsInv, C!TypeOK
      <4>3. CASE c = [subject |-> s, at |-> at]
        BY <1>2, <1>3, <2>1, <4>3
      <4> QED
        BY <1>6, <3>1, <4>1, <4>2, <4>3
    <3> QED
      BY <3>1 DEF RowsInv
  <2>6. RegistryInv'
    <3>1. ASSUME serving', loaded', NEW t \in C!Subject, rows'[t] # NoCutoff
          PROVE  Cuts(t, rows[t])'
      <4>1. CASE t = s
        <5>1. Cuts(s, at) /\ (rows[s] # NoCutoff => Cuts(s, rows[s]))
          BY <1>1, <1>2, <3>1 DEF RegistryInv
        <5>2. Cuts(s, C!StoredRow(rows[s], at))
          BY <1>3, <5>1
        <5> QED
          BY <1>1, <2>1, <4>1, <5>2 DEF Cuts
      <4>2. CASE t # s
        BY <1>1, <2>1, <3>1, <4>2 DEF RegistryInv, Cuts
      <4> QED
        BY <4>1, <4>2
    <3> QED
      BY <3>1 DEF RegistryInv
  <2> QED
    BY <1>4, <2>4, <2>5, <2>6
<1> QED
  BY <1>1, <1>5, <1>6

LEMMA CutoffPruneInv ==
    ASSUME C!RevocationsAssumption, CutoffsInv, C!Prune
    PROVE  CutoffsInv'
<1> USE DEF CutoffsInv
<1>1. /\ UNCHANGED <<now, serving, loaded, rows, unwritten, issued, stored, revokes>>
      /\ registry' = [s \in C!Subject |->
                         IF registry[s] # NoCutoff /\ registry[s] < now - Life THEN NoCutoff
                                                                               ELSE registry[s]]
  BY DEF C!Prune
<1>2. C!TypeOK'
  BY <1>1 DEF C!TypeOK, C!Cutoffs
<1>3. ASSUME NEW s \in C!Subject, NEW t \in C!Instant, Cuts(s, t) PROVE Cuts(s, t)'
  <2>1. registry[s] \in C!Instant \cup {NoCutoff} /\ now \in Int /\ Life \in Int /\ t \in Int
    BY DEF C!TypeOK, C!Cutoffs, C!Instant, C!RevocationsAssumption
  <2> QED
    BY <1>1, <1>3, <2>1 DEF Cuts, C!Instant
<1>4. RegistryInv' /\ UnwrittenInv'
  <2>1. RegistryInv'
    BY <1>1, <1>3 DEF RegistryInv, C!TypeOK, C!Cutoffs
  <2>2. ASSUME NEW h \in 1 .. MaxRevokes, NEW s \in unwritten'[h].subjects
        PROVE  serving' /\ Cuts(s, unwritten[h].at)'
    <3>1. s \in C!Subject /\ unwritten[h].at \in C!Instant /\ serving /\ Cuts(s, unwritten[h].at)
      BY <1>1, <2>2 DEF UnwrittenInv, C!TypeOK
    <3> QED
      BY <1>1, <1>3, <3>1
  <2> QED
    BY <2>1, <2>2 DEF UnwrittenInv
<1> QED
  BY <1>1, <1>2, <1>4 DEF RowsInv

\* What was loaded is what the rows hold.
LEMMA CutoffStartInv ==
    ASSUME C!RevocationsAssumption, CutoffsInv, C!Start
    PROVE  CutoffsInv'
<1> USE DEF CutoffsInv
<1>1. /\ ~serving /\ loaded' \in BOOLEAN /\ serving' = TRUE
      /\ registry' = IF loaded' THEN rows ELSE C!Empty
      /\ UNCHANGED <<now, rows, unwritten, issued, stored, revokes>>
  BY DEF C!Start
<1>2. C!TypeOK'
  BY <1>1 DEF C!TypeOK, C!Cutoffs, C!Empty
<1>3. RegistryInv'
  BY <1>1 DEF RegistryInv, Cuts, C!TypeOK, C!Cutoffs, C!Instant, C!RevocationsAssumption
<1>4. UnwrittenInv'
  BY <1>1 DEF UnwrittenInv
<1> QED
  BY <1>1, <1>2, <1>3, <1>4 DEF RowsInv

\* What is older than any attestation alive stays so.
LEMMA CutoffTickInv == ASSUME C!RevocationsAssumption, CutoffsInv, C!Tick PROVE CutoffsInv'
<1> USE DEF CutoffsInv
<1>1. /\ now < RegistryTime /\ now' = now + 1
      /\ UNCHANGED <<serving, loaded, registry, rows, unwritten, issued, stored, revokes>>
  BY DEF C!Tick
<1>2. C!TypeOK'
  BY <1>1 DEF C!TypeOK, C!Instant, C!RevocationsAssumption
<1>3. ASSUME NEW s \in C!Subject, NEW t \in C!Instant, Cuts(s, t) PROVE Cuts(s, t)'
  BY <1>1, <1>3 DEF Cuts, C!TypeOK, C!Instant, C!RevocationsAssumption
<1>4. RegistryInv'
  BY <1>1, <1>3 DEF RegistryInv, C!TypeOK, C!Cutoffs
<1>5. ASSUME NEW h \in 1 .. MaxRevokes, NEW s \in unwritten'[h].subjects
      PROVE  serving' /\ Cuts(s, unwritten[h].at)'
  <2>1. s \in C!Subject /\ unwritten[h].at \in C!Instant /\ serving /\ Cuts(s, unwritten[h].at)
    BY <1>1, <1>5 DEF UnwrittenInv, C!TypeOK
  <2> QED
    BY <1>1, <1>3, <2>1
<1> QED
  BY <1>1, <1>2, <1>4, <1>5 DEF RowsInv, UnwrittenInv

\* Steps that leave cutoffs and rows alone, and handlers with no more to write.
LEMMA CutoffOtherInv ==
    ASSUME C!RevocationsAssumption, CutoffsInv,
           \/ \E h \in 1 .. MaxRevokes : C!Drop(h)
           \/ \E who \in Agent, principal \in Principal : C!Issue(who, principal)
           \/ C!Stop \/ UNCHANGED C!vars
    PROVE  CutoffsInv'
<1> USE DEF CutoffsInv
<1>1. ASSUME NEW h \in 1 .. MaxRevokes, C!Drop(h) PROVE CutoffsInv'
  <2>1. /\ unwritten' = [unwritten EXCEPT ![h].subjects = {}]
        /\ UNCHANGED <<now, serving, loaded, registry, rows, issued, stored, revokes>>
    BY <1>1 DEF C!Drop
  <2>2. ASSUME NEW g \in 1 .. MaxRevokes
        PROVE  /\ unwritten'[g].subjects \subseteq unwritten[g].subjects
               /\ unwritten'[g].at = unwritten[g].at
    BY <2>1 DEF C!TypeOK
  <2>3. C!TypeOK'
    BY <2>1 DEF C!TypeOK
  <2>4. RowsInv' /\ RegistryInv' /\ UnwrittenInv'
    BY <2>1, <2>2 DEF RowsInv, RegistryInv, UnwrittenInv, Cuts
  <2> QED
    BY <2>3, <2>4
<1>2. ASSUME NEW who \in Agent, NEW principal \in Principal, C!Issue(who, principal)
      PROVE  CutoffsInv'
  <2>1. /\ issued' = issued \cup {[sub |-> who, prn |-> principal, nbf |-> now]}
        /\ UNCHANGED <<now, serving, loaded, registry, rows, unwritten, stored, revokes>>
    BY <1>2 DEF C!Issue
  <2>2. C!TypeOK'
    BY <2>1 DEF C!TypeOK
  <2> QED
    BY <2>1, <2>2 DEF RowsInv, RegistryInv, UnwrittenInv, Cuts
<1>3. CASE C!Stop
  <2>1. /\ serving' = FALSE /\ loaded' = FALSE /\ registry' = C!Empty /\ unwritten' = C!Idle
        /\ UNCHANGED <<now, rows, issued, stored, revokes>>
    BY <1>3 DEF C!Stop
  <2>2. C!Empty \in C!Cutoffs /\ 0 \in C!Instant
    BY DEF C!Empty, C!Cutoffs, C!Instant, C!RevocationsAssumption
  <2>3. C!Idle \in [1 .. MaxRevokes -> [subjects : SUBSET C!Subject, at : C!Instant]]
    BY <2>2 DEF C!Idle
  <2>4. C!TypeOK'
    BY <2>1, <2>2, <2>3 DEF C!TypeOK
  <2> QED
    BY <2>1, <2>4 DEF RowsInv, RegistryInv, UnwrittenInv, C!Idle
<1>4. CASE UNCHANGED C!vars
  BY <1>4 DEF C!vars, C!TypeOK, RowsInv, RegistryInv, UnwrittenInv, Cuts
<1> QED
  BY <1>1, <1>2, <1>3, <1>4

LEMMA CutoffsStep ==
    ASSUME C!RevocationsAssumption, CutoffsInv, [C!Next]_(C!vars)
    PROVE  CutoffsInv'
<1>1. CASE \E who \in Agent \cup {None}, principal \in Principal \cup {None}, at \in C!Instant :
              C!Revoke(who, principal, at)
  BY <1>1, CutoffRevokeInv
<1>2. CASE \E h \in 1 .. MaxRevokes : C!Persist(h)
  BY <1>2, CutoffPersistInv
<1>3. CASE C!Prune
  BY <1>3, CutoffPruneInv
<1>4. CASE C!Start
  BY <1>4, CutoffStartInv
<1>5. CASE C!Tick
  BY <1>5, CutoffTickInv
<1>6. CASE \/ \E h \in 1 .. MaxRevokes : C!Drop(h)
           \/ \E who \in Agent, principal \in Principal : C!Issue(who, principal)
           \/ C!Stop \/ UNCHANGED C!vars
  BY <1>6, CutoffOtherInv
<1> QED
  BY <1>1, <1>2, <1>3, <1>4, <1>5, <1>6 DEF C!Next

-----------------------------------------------------------------------------
LEMMA CutoffsAlways == EdgeSpec => [](part = "registry" => CutoffsInv)
<1>1. EdgeInit => (part = "registry" => CutoffsInv)
  BY Starts, CutoffsInit, EdgeAssumption
<1>2. (part = "registry" => CutoffsInv) /\ [EdgeNext]_edgeVars => (part = "registry" => CutoffsInv)'
  BY Steps, CutoffsStep, EdgeAssumption
<1> QED
  BY <1>1, <1>2, PTL DEF EdgeSpec

\* The registry, its rows, the handlers and the attestations have their types
\* (revocation.rs:46-52).
THEOREM RevocationsTypeCorrect == EdgeSpec => [](part = "registry" => C!TypeOK)
<1>1. (part = "registry" => CutoffsInv) => (part = "registry" => C!TypeOK)
  BY DEF CutoffsInv
<1> QED
  BY <1>1, CutoffsAlways, PTL

\* Whatever handlers overlap, whichever writes fail, through prunes and restarts: a
\* cutoff that was stored refuses what was issued before it, unless a later one is
\* scheduled (revoke_limits, persist_revocation, hydrate; RevocationRegistry::check).
THEOREM StoredCutoffsHold == EdgeSpec => []StoredCutoffHolds
<1>1. (part = "registry" => CutoffsInv) => StoredCutoffHolds
  <2> SUFFICES ASSUME CutoffsInv, serving, loaded, NEW a \in C!Outstanding, NEW c \in stored,
                      c.subject \in {a.sub, a.prn}, c.at <= now, a.nbf < c.at,
                      ~C!Scheduled(c.subject)
               PROVE  C!CutOff(a.sub, a.nbf) \/ C!CutOff(a.prn, a.nbf)
    BY DEF StoredCutoffHolds, C!StoredCutoffHolds
  <2> DEFINE s == c.subject
  <2>1. /\ a.nbf \in Int /\ now <= a.nbf + Life /\ now \in Int /\ Life \in Int
        /\ s \in C!Subject /\ c.at \in Int
        /\ registry[s] \in C!Instant \cup {NoCutoff} /\ rows[s] \in C!Instant \cup {NoCutoff}
    BY EdgeAssumption
    DEF CutoffsInv, C!TypeOK, C!Outstanding, C!Cutoffs, C!Instant, C!RevocationsAssumption
  <2>2. rows[s] # NoCutoff /\ rows[s] >= c.at /\ rows[s] \in Int
    BY <2>1 DEF CutoffsInv, RowsInv, C!Instant
  <2>3. Cuts(s, rows[s])
    BY <2>1, <2>2 DEF CutoffsInv, RegistryInv
  <2>4. registry[s] # NoCutoff /\ registry[s] >= rows[s] /\ registry[s] \in Int
    BY <2>1, <2>2, <2>3 DEF Cuts, C!Instant
  <2>5. registry[s] <= now /\ a.nbf < registry[s]
    BY <2>1, <2>2, <2>4 DEF C!Scheduled
  <2> QED
    BY <2>4, <2>5 DEF C!CutOff
<1> QED
  BY <1>1, CutoffsAlways, PTL

-----------------------------------------------------------------------------
(* Metering and webhooks.                                                   *)

\* The checks of a key whose metering task waits for the meter.
Waits(k) == {c \in waiting : event[c].key = k}

\* Cardinality, as Outbound and Money take it from FiniteSets.
LEMMA SameCardinality ==
    \A X : O!Cardinality(X) = Cardinality(X) /\ M!Cardinality(X) = Cardinality(X)
<1>1. ASSUME NEW X PROVE O!Cardinality(X) = Cardinality(X)
  BY DEF O!Cardinality, Cardinality
<1>2. ASSUME NEW X PROVE M!Cardinality(X) = Cardinality(X)
  BY DEF M!Cardinality, Cardinality
<1> QED
  BY <1>1, <1>2

\* UsageBalances of Outbound.
Books ==
    \A k \in MeterKey :
        recorded[k] = (billed[k] - lost[k]) + counters[k].trust_checks + unbilled[k]
                      + Cardinality(Waits(k))

\* A check waits at most once: what it waits for was told before.
WaitingInv == \A c \in waiting : event[c].at # "none"

\* An event is taken at most once in each attempt.
DeliveryInv ==
    \A c \in O!Check :
        /\ event[c].at = "none" => received[c] = 0
        /\ event[c].at \in {"none", "post"} => event[c].attempts < O!Delays
        /\ event[c].at = "post" => received[c] <= event[c].attempts
        /\ event[c].at = "delivered" => received[c] <= event[c].attempts + 1

UsageInv == O!TypeOK /\ WaitingInv /\ DeliveryInv /\ Books

LEMMA UsageInit == ASSUME O!OutboundAssumption, O!Init PROVE UsageInv
<1>1. O!TypeOK
  BY DEF O!Init, O!TypeOK, O!Delays
<1>2. WaitingInv /\ DeliveryInv
  BY DEF O!Init, WaitingInv, DeliveryInv, O!Delays
<1>3. \A k \in MeterKey : Cardinality(Waits(k)) = 0
  <2>1. \A k \in MeterKey : Waits(k) = {}
    BY DEF O!Init, Waits
  <2> QED
    BY <2>1, FS_EmptySet
<1>4. Books
  BY <1>3 DEF O!Init, Books
<1> QED
  BY <1>1, <1>2, <1>4 DEF UsageInv

\* A step that touches neither what waits nor the books.
LEMMA UsageKept ==
    ASSUME UsageInv, UNCHANGED <<waiting, counters, recorded, billed, unbilled, lost>>,
           \A c \in O!Check : event'[c].key = event[c].key
    PROVE  Books'
<1>1. \A k : Waits(k)' = Waits(k)
  BY DEF Waits, UsageInv, O!TypeOK
<1> QED
  BY <1>1 DEF UsageInv, Books

LEMMA WaitsFinite ==
    ASSUME O!OutboundAssumption, UsageInv, NEW k
    PROVE  IsFiniteSet(Waits(k)) /\ Cardinality(Waits(k)) \in Nat
<1>1. IsFiniteSet(O!Check)
  BY FS_Interval DEF O!OutboundAssumption, O!Check
<1>2. Waits(k) \subseteq O!Check
  BY DEF Waits, UsageInv, O!TypeOK
<1> QED
  BY <1>1, <1>2, FS_Subset, FS_CardinalityType

LEMMA CheckedKeeps ==
    ASSUME O!OutboundAssumption, UsageInv, NEW c \in O!Check, O!Checked(c)
    PROVE  UsageInv'
<1> USE DEF UsageInv
<1>1. /\ event[c].at = "none" /\ event' = [event EXCEPT ![c].at = "post"]
      /\ UNCHANGED <<stripe, counters, flushing, job, received, billed, unbilled, lost,
                     faults, flushes>>
  BY DEF O!Checked
<1>2. /\ event[c] \in [at : {"none", "post", "delivered", "dead"}, attempts : 0 .. O!Delays,
                       key : MeterKey]
      /\ \A d \in O!Check : /\ event'[d].key = event[d].key
                            /\ event'[d].attempts = event[d].attempts
                            /\ event'[d].at = IF d = c THEN "post" ELSE event[d].at
  BY <1>1 DEF O!TypeOK
<1>3. DeliveryInv'
  BY <1>1, <1>2 DEF DeliveryInv, O!TypeOK, O!Delays
<1>4. event' \in [O!Check -> [at : {"none", "post", "delivered", "dead"},
                              attempts : 0 .. O!Delays, key : MeterKey]]
  BY <1>1, SMTT(30) DEF O!TypeOK
<1>5. CASE UNCHANGED <<waiting, recorded>>
  <2>1. O!TypeOK' /\ WaitingInv'
    BY <1>1, <1>2, <1>4, <1>5 DEF O!TypeOK, WaitingInv
  <2> QED
    BY <1>1, <1>2, <1>3, <1>5, <2>1, UsageKept
<1>6. CASE waiting' = waiting \cup {c} /\ recorded' = O!Plus(recorded, event[c].key, 1)
  <2> DEFINE k == event[c].key
  <2>1. c \notin waiting /\ k \in MeterKey /\ recorded \in [MeterKey -> Nat]
    BY <1>1, <1>2 DEF WaitingInv, O!TypeOK
  <2>2. recorded' \in [MeterKey -> Nat]
        /\ \A j \in MeterKey : recorded'[j] = IF j = k THEN recorded[j] + 1 ELSE recorded[j]
    BY <1>6, <2>1 DEF O!Plus
  <2>3. O!TypeOK' /\ WaitingInv'
    BY <1>1, <1>2, <1>4, <1>6, <2>2 DEF O!TypeOK, WaitingInv
  <2>4. \A j : j = k => Waits(j)' = Waits(j) \cup {c} /\ c \notin Waits(j)
    BY <1>2, <1>6, <2>1 DEF Waits, O!TypeOK
  <2>6. \A j : j # k => Waits(j)' = Waits(j)
    BY <1>2, <1>6, <2>1 DEF Waits, O!TypeOK
  <2>7. Books'
    <3> SUFFICES ASSUME NEW j \in MeterKey
                 PROVE  recorded'[j] = (billed[j] - lost[j]) + counters[j].trust_checks
                                       + unbilled[j] + Cardinality(Waits(j)')
      BY <1>1 DEF Books
    <3>1. /\ recorded[j] = (billed[j] - lost[j]) + counters[j].trust_checks
                           + unbilled[j] + Cardinality(Waits(j))
          /\ Cardinality(Waits(j)) \in Nat /\ recorded[j] \in Nat
          /\ billed[j] \in Nat /\ lost[j] \in Nat /\ unbilled[j] \in Nat
          /\ counters[j].trust_checks \in Nat
      BY WaitsFinite DEF Books, O!TypeOK
    <3>2. CASE j = k
      <4> DEFINE w == Waits(j)'
      <4>1. w = Waits(j) \cup {c} /\ c \notin Waits(j)
        BY <2>4, <3>2
      <4>2. Cardinality(w) = Cardinality(Waits(j)) + 1
        BY <4>1, WaitsFinite, FS_AddElement
      <4>3. recorded'[j] = recorded[j] + 1
        BY <2>2, <3>2
      <4> HIDE DEF k, w
      <4> QED
        BY <3>1, <4>2, <4>3 DEF w
    <3>3. CASE j # k
      <4>1. Waits(j)' = Waits(j) /\ recorded'[j] = recorded[j]
        BY <2>2, <2>6, <3>3
      <4> QED
        BY <3>1, <4>1
    <3> QED
      BY <3>2, <3>3
  <2> QED
    BY <1>3, <2>3, <2>7
<1> QED
  BY <1>5, <1>6 DEF O!Checked

LEMMA RecordKeeps ==
    ASSUME O!OutboundAssumption, UsageInv, NEW c \in O!Check, O!Record(c)
    PROVE  UsageInv'
<1> DEFINE k == event[c].key
<1> USE DEF UsageInv
<1>1. /\ c \in waiting /\ waiting' = waiting \ {c}
      /\ counters' = [counters EXCEPT ![k].trust_checks = @ + 1]
      /\ UNCHANGED <<stripe, flushing, job, event, received, recorded, billed, unbilled, lost,
                     faults, flushes>>
  BY DEF O!Record
<1>2. k \in MeterKey /\ counters[k] \in [trust_checks : Nat, subscribed : BOOLEAN]
  BY <1>1 DEF O!TypeOK
<1>3. /\ counters' \in [MeterKey -> [trust_checks : Nat, subscribed : BOOLEAN]]
      /\ \A j \in MeterKey : counters'[j].trust_checks =
             IF j = k THEN counters[j].trust_checks + 1 ELSE counters[j].trust_checks
  BY <1>1, <1>2 DEF O!TypeOK
<1>4. O!TypeOK' /\ WaitingInv' /\ DeliveryInv'
  BY <1>1, <1>3 DEF O!TypeOK, WaitingInv, DeliveryInv
<1>5. \A j : j = k => Waits(j)' = Waits(j) \ {c} /\ c \in Waits(j)
  BY <1>1 DEF Waits
<1>7. \A j : j # k => Waits(j)' = Waits(j)
  BY <1>1 DEF Waits
<1>8. Books'
  <2> SUFFICES ASSUME NEW j \in MeterKey
               PROVE  recorded[j] = (billed[j] - lost[j]) + counters'[j].trust_checks
                                    + unbilled[j] + Cardinality(Waits(j)')
    BY <1>1 DEF Books
  <2>1. /\ recorded[j] = (billed[j] - lost[j]) + counters[j].trust_checks
                         + unbilled[j] + Cardinality(Waits(j))
        /\ Cardinality(Waits(j)) \in Nat /\ recorded[j] \in Nat
        /\ billed[j] \in Nat /\ lost[j] \in Nat /\ unbilled[j] \in Nat
        /\ counters[j].trust_checks \in Nat
    BY WaitsFinite DEF Books, O!TypeOK
  <2>2. CASE j = k
    <3> DEFINE w == Waits(j)'
    <3>1. w = Waits(j) \ {c} /\ c \in Waits(j)
      BY <1>5, <2>2
    <3>2. Cardinality(w) = Cardinality(Waits(j)) - 1
      BY <3>1, WaitsFinite, FS_RemoveElement
    <3>3. counters'[j].trust_checks = counters[j].trust_checks + 1
      BY <1>2, <1>3, <2>2
    <3> HIDE DEF k, w
    <3> QED
      BY <2>1, <3>2, <3>3 DEF w
  <2>3. CASE j # k
    <3>1. Waits(j)' = Waits(j) /\ counters'[j].trust_checks = counters[j].trust_checks
      BY <1>3, <1>7, <2>3
    <3> QED
      BY <2>1, <3>1
  <2> QED
    BY <2>2, <2>3
<1> QED
  BY <1>4, <1>8

\* A flush moves what a key's counter holds to one side of the books or to none.
LEMMA FlushKeyKeeps ==
    ASSUME O!OutboundAssumption, UsageInv, NEW k \in MeterKey, O!FlushKey(k)
    PROVE  UsageInv'
<1> DEFINE n == counters[k].trust_checks
<1> USE DEF UsageInv
<1>1. /\ UNCHANGED <<stripe, waiting, event, received, recorded, flushes>>
      /\ flushing' \subseteq MeterKey /\ job' \in {"asleep", "flush"}
      /\ counters[k] \in [trust_checks : Nat, subscribed : BOOLEAN] /\ n \in Nat
      /\ billed \in [MeterKey -> Nat] /\ lost \in [MeterKey -> Nat]
      /\ unbilled \in [MeterKey -> Nat] /\ faults \in Nat
  BY DEF O!FlushKey, O!TypeOK
<1> DEFINE reset == [counters EXCEPT ![k].trust_checks = 0]
<1>2. /\ reset \in [MeterKey -> [trust_checks : Nat, subscribed : BOOLEAN]]
      /\ \A j \in MeterKey : reset[j].trust_checks =
             IF j = k THEN 0 ELSE counters[j].trust_checks
  BY DEF O!TypeOK
<1>3. ASSUME NEW f \in [MeterKey -> Nat]
      PROVE  /\ O!Plus(f, k, n) \in [MeterKey -> Nat]
             /\ \A j \in MeterKey : O!Plus(f, k, n)[j] = IF j = k THEN f[j] + n ELSE f[j]
  BY <1>1 DEF O!Plus
\* What happened to the books, and to the counter.
<1>4. \/ UNCHANGED <<counters, billed, unbilled, lost>>
      \/ counters' = reset /\ billed' = O!Plus(billed, k, n) /\ UNCHANGED <<unbilled, lost>>
      \/ /\ billed' = O!Plus(billed, k, n) /\ lost' = O!Plus(lost, k, n)
         /\ UNCHANGED <<counters, unbilled>>
      \/ counters' = reset /\ unbilled' = O!Plus(unbilled, k, n) /\ UNCHANGED <<billed, lost>>
  BY DEF O!FlushKey, O!Report, O!Reset, O!Counted
<1>5. faults' \in Nat
  BY <1>1 DEF O!FlushKey, O!Report, O!Fault
<1>6. /\ counters' \in [MeterKey -> [trust_checks : Nat, subscribed : BOOLEAN]]
      /\ billed' \in [MeterKey -> Nat] /\ lost' \in [MeterKey -> Nat]
      /\ unbilled' \in [MeterKey -> Nat]
  <2>1. counters \in [MeterKey -> [trust_checks : Nat, subscribed : BOOLEAN]]
    BY DEF O!TypeOK
  <2>2. /\ O!Plus(billed, k, n) \in [MeterKey -> Nat] /\ O!Plus(lost, k, n) \in [MeterKey -> Nat]
        /\ O!Plus(unbilled, k, n) \in [MeterKey -> Nat]
    BY <1>1, <1>3
  <2> HIDE DEF reset, n
  <2> QED
    BY <1>1, <1>2, <1>4, <2>1, <2>2
<1>7. O!TypeOK' /\ WaitingInv' /\ DeliveryInv'
  <2>1. O!TypeOK'
    BY <1>1, <1>5, <1>6 DEF O!TypeOK
  <2>2. WaitingInv' /\ DeliveryInv'
    BY <1>1 DEF WaitingInv, DeliveryInv
  <2> QED
    BY <2>1, <2>2
<1>8. Books'
  <2>0. \A j : Waits(j)' = Waits(j)
    BY <1>1 DEF Waits
  <2> SUFFICES ASSUME NEW j \in MeterKey
               PROVE  recorded[j] = (billed'[j] - lost'[j]) + counters'[j].trust_checks
                                    + unbilled'[j] + Cardinality(Waits(j))
    BY <1>1, <2>0 DEF Books
  <2>1. /\ recorded[j] = (billed[j] - lost[j]) + counters[j].trust_checks
                         + unbilled[j] + Cardinality(Waits(j))
        /\ Cardinality(Waits(j)) \in Nat /\ recorded[j] \in Nat
        /\ billed[j] \in Nat /\ lost[j] \in Nat /\ unbilled[j] \in Nat
        /\ counters[j].trust_checks \in Nat
    BY WaitsFinite DEF Books, O!TypeOK
  <2> HIDE DEF n
  <2>2. (j = k => counters[j].trust_checks = n) /\ n \in Nat
    BY <1>1 DEF n
  <2> HIDE DEF reset
  <2>3. CASE UNCHANGED <<counters, billed, unbilled, lost>>
    BY <2>1, <2>3
  <2>4. CASE counters' = reset /\ billed' = O!Plus(billed, k, n) /\ UNCHANGED <<unbilled, lost>>
    BY <1>1, <1>2, <1>3, <2>1, <2>2, <2>4
  <2>5. CASE /\ billed' = O!Plus(billed, k, n) /\ lost' = O!Plus(lost, k, n)
             /\ UNCHANGED <<counters, unbilled>>
    BY <1>1, <1>3, <2>1, <2>2, <2>5
  <2>6. CASE counters' = reset /\ unbilled' = O!Plus(unbilled, k, n) /\ UNCHANGED <<billed, lost>>
    BY <1>1, <1>2, <1>3, <2>1, <2>2, <2>6
  <2> QED
    BY <1>4, <2>3, <2>4, <2>5, <2>6
<1> QED
  BY <1>7, <1>8

LEMMA PostKeeps ==
    ASSUME O!OutboundAssumption, UsageInv, NEW c \in O!Check, O!Post(c)
    PROVE  UsageInv'
<1> USE DEF UsageInv
<1>1. /\ event[c].at = "post"
      /\ UNCHANGED <<stripe, counters, flushing, job, waiting, recorded, billed, unbilled, lost,
                     flushes>>
      /\ event[c] \in [at : {"none", "post", "delivered", "dead"}, attempts : 0 .. O!Delays,
                       key : MeterKey]
      /\ event[c].attempts < O!Delays /\ received[c] \in 0 .. O!Delays
      /\ received[c] <= event[c].attempts /\ faults \in Nat
  BY DEF O!Post, O!TypeOK, DeliveryInv
<1> DEFINE e == event[c]
           more == O!Plus(received, c, 1)
<1>2. /\ more \in [O!Check -> 0 .. O!Delays]
      /\ \A d \in O!Check : more[d] = IF d = c THEN received[d] + 1 ELSE received[d]
  BY <1>1 DEF O!Plus, O!TypeOK, O!Delays
<1>3. PICK f : /\ event' = [event EXCEPT ![c] = f]
               /\ f \in [at : {"none", "post", "delivered", "dead"}, attempts : 0 .. O!Delays,
                         key : MeterKey]
               /\ f.key = e.key /\ f.at \in {"post", "delivered", "dead"}
               /\ f.at = "post" => f.attempts < O!Delays
               /\ \/ f.at = "delivered" /\ f.attempts = e.attempts /\ received' = more
                  \/ f.at = "post" /\ f.attempts = e.attempts + 1 /\ received' \in {received, more}
                  \/ f.at = "dead" /\ received' \in {received, more}
  <2>1. CASE event' = [event EXCEPT ![c].at = "delivered"] /\ received' = more
    <3> DEFINE f == [e EXCEPT !.at = "delivered"]
    <3>1. /\ f \in [at : {"none", "post", "delivered", "dead"}, attempts : 0 .. O!Delays,
                    key : MeterKey]
          /\ f.key = e.key /\ f.at = "delivered" /\ f.attempts = e.attempts
      BY <1>1
    <3>2. event' = [event EXCEPT ![c] = f]
      BY <2>1
    <3> QED
      BY <2>1, <3>1, <3>2
  <2>2. CASE /\ received' \in {received, more}
             /\ event' = [event EXCEPT ![c] = O!AfterFailed(event[c])]
    <3> DEFINE f == O!AfterFailed(e)
    <3>1. /\ f \in [at : {"none", "post", "delivered", "dead"}, attempts : 0 .. O!Delays,
                    key : MeterKey]
          /\ f.key = e.key
          /\ \/ f.at = "dead"
             \/ f.at = "post" /\ f.attempts = e.attempts + 1 /\ f.attempts < O!Delays
      <4>1. CASE e.attempts + 1 = O!Delays
        <5>1. f = [[e EXCEPT !.at = "dead"] EXCEPT !.attempts = O!Delays]
          BY <4>1 DEF O!AfterFailed
        <5>2. O!Delays \in 0 .. O!Delays /\ "dead" \in {"none", "post", "delivered", "dead"}
          BY DEF O!Delays
        <5> HIDE DEF f
        <5>3. f.at = "dead" /\ f.key = e.key
          BY <1>1, <5>1
        <5>4. f \in [at : {"none", "post", "delivered", "dead"}, attempts : 0 .. O!Delays,
                     key : MeterKey]
          BY <1>1, <5>1, <5>2
        <5> QED
          BY <5>3, <5>4
      <4>2. CASE e.attempts + 1 # O!Delays
        <5>1. f = [e EXCEPT !.attempts = @ + 1]
          BY <4>2 DEF O!AfterFailed
        <5>2. f = [e EXCEPT !.attempts = e.attempts + 1]
          BY <5>1
        <5> QED
          BY <1>1, <4>2, <5>2 DEF O!Delays
      <4> QED
        BY <4>1, <4>2
    <3> HIDE DEF f
    <3>2. event' = [event EXCEPT ![c] = f]
      BY <2>2 DEF f
    <3> QED
      BY <2>2, <3>1, <3>2
  <2> QED
    BY <2>1, <2>2 DEF O!Post
<1>4. \A d \in O!Check : event'[d] = IF d = c THEN f ELSE event[d]
  BY <1>3 DEF O!TypeOK
<1>5. faults' \in Nat
  BY <1>1 DEF O!Post, O!Fault
<1>6. received' \in [O!Check -> 0 .. O!Delays]
      /\ event' \in [O!Check -> [at : {"none", "post", "delivered", "dead"},
                                 attempts : 0 .. O!Delays, key : MeterKey]]
  BY <1>2, <1>3 DEF O!TypeOK
<1>7. O!TypeOK' /\ WaitingInv'
  <2>1. O!TypeOK'
    BY <1>1, <1>5, <1>6 DEF O!TypeOK
  <2>2. WaitingInv'
    BY <1>1, <1>3, <1>4 DEF WaitingInv, O!TypeOK
  <2> QED
    BY <2>1, <2>2
<1>8. DeliveryInv'
  <2> SUFFICES ASSUME NEW d \in O!Check
               PROVE  /\ event'[d].at = "none" => received'[d] = 0
                      /\ event'[d].at \in {"none", "post"} => event'[d].attempts < O!Delays
                      /\ event'[d].at = "post" => received'[d] <= event'[d].attempts
                      /\ event'[d].at = "delivered" => received'[d] <= event'[d].attempts + 1
    BY DEF DeliveryInv
  <2>1. CASE d # c
    <3>1. event'[d] = event[d] /\ received'[d] = received[d]
      BY <1>2, <1>3, <1>4, <2>1
    <3> QED
      BY <3>1 DEF DeliveryInv
  <2>2. CASE d = c
    <3>1. /\ event'[d] = f /\ more[d] = received[c] + 1 /\ received[c] \in Nat
          /\ e.attempts \in Nat /\ f.attempts \in Nat
      BY <1>1, <1>2, <1>3, <1>4, <2>2 DEF O!Delays
    <3> QED
      BY <1>1, <1>3, <2>2, <3>1 DEF O!Delays
  <2> QED
    BY <2>1, <2>2
<1>9. Books'
  BY <1>1, <1>3, <1>4, UsageKept
<1> QED
  BY <1>7, <1>8, <1>9

LEMMA OutboundStep ==
    ASSUME O!OutboundAssumption, UsageInv, [O!Next]_(O!vars)
    PROVE  UsageInv'
<1>1. CASE UNCHANGED O!vars
  BY <1>1, UsageKept DEF O!vars, UsageInv, O!TypeOK, WaitingInv, DeliveryInv
<1>2. ASSUME NEW k \in MeterKey, O!RegisterKey(k) PROVE UsageInv'
  <2>1. /\ UNCHANGED <<stripe, flushing, job, waiting, event, received, recorded, billed,
                       unbilled, lost, faults, flushes>>
        /\ counters' = [counters EXCEPT ![k].subscribed = TRUE]
    BY <1>2 DEF O!RegisterKey
  <2>2. /\ counters' \in [MeterKey -> [trust_checks : Nat, subscribed : BOOLEAN]]
        /\ \A j \in MeterKey : counters'[j].trust_checks = counters[j].trust_checks
    BY <2>1 DEF UsageInv, O!TypeOK
  <2>3. O!TypeOK' /\ WaitingInv' /\ DeliveryInv'
    BY <2>1, <2>2 DEF UsageInv, O!TypeOK, WaitingInv, DeliveryInv
  <2>4. \A j : Waits(j)' = Waits(j)
    BY <2>1 DEF Waits
  <2>5. Books'
    BY <2>1, <2>2, <2>4 DEF UsageInv, Books
  <2> QED
    BY <2>3, <2>5 DEF UsageInv
<1>3. CASE O!StartFlush
  <2>1. /\ UNCHANGED <<stripe, counters, waiting, event, received, recorded, billed, unbilled,
                       lost, faults>>
        /\ job' = "flush" /\ flushing' = MeterKey /\ flushes' = flushes + 1
    BY <1>3 DEF O!StartFlush
  <2>2. Books'
    BY <2>1, UsageKept
  <2> QED
    BY <2>1, <2>2 DEF UsageInv, O!TypeOK, WaitingInv, DeliveryInv
<1> QED
  BY <1>1, <1>2, <1>3, CheckedKeeps, RecordKeeps, FlushKeyKeeps, PostKeeps
  DEF O!Next, O!Flush, O!Task

\* No check is forgotten and none billed twice but in a report whose answer was lost,
\* for any keys, checks, flushes and failures (UsageMeter::record, flush).
THEOREM UsageAlwaysBalances == EdgeSpec => []UsageBalances
<1>1. EdgeInit => (part = "outbound" => UsageInv)
  BY Starts, UsageInit, EdgeAssumption
<1>2. (part = "outbound" => UsageInv) /\ [EdgeNext]_edgeVars => (part = "outbound" => UsageInv)'
  BY Steps, OutboundStep, EdgeAssumption
<1>3. (part = "outbound" => UsageInv) => UsageBalances
  BY SameCardinality DEF UsageInv, UsageBalances, O!UsageBalances, Books, Waits
<1> QED
  BY <1>1, <1>2, <1>3, PTL DEF EdgeSpec

-----------------------------------------------------------------------------
(* The payment rails.                                                       *)

Places == {"idle", "gate", "half", "verify", "nonce", "trust", "wrap", "trip", "done"}
Answers == [verdict : R!Verdicts, message : BOOLEAN]

\* Request r at place p with verdict v may have been charged n times, of which d
\* are due, when there were f faults.
Fits(r, p, v, n, d, f) ==
    /\ p \in {"gate", "half", "verify", "nonce", "trip"} => R!Rail(r) \in R!Rpc
    /\ p # "done" => v = "none"
    /\ p = "wrap" => R!Rail(r) = "a2a" /\ NoAgent \notin {rails_req[r].from, rails_req[r].to}
    /\ d <= n
    /\ n > 0 => R!Priced(r)
    /\ R!Priced(r) =>
          /\ v \in {"none", "valid", "invalid", "error", "PASS", "FLAG", "BLOCK"}
          /\ v = "valid" \/ p = "wrap" => n = 1
          /\ v = "PASS" => n \in {1, 2}
          /\ v \in {"FLAG", "BLOCK"} => n \in {0, 1}
          /\ v = "error" => n = 0 \/ (n = 1 /\ f # 0)
          /\ v \in {"none", "invalid"} /\ p # "wrap" => n = 0

ChargeInv ==
    \A r \in RailsRequest : Fits(r, pc[r], answer[r].verdict, charges[r], due[r], faults)

\* What an agent has spent is what tasks have recorded.
BooksInv == \A a \in RailsAgent : committed[a] = R!Recorded(a)

\* A breaker counts no failure that is not one since the last success.
StreakInv == \A b \in R!Rpc : breaker[b].failures <= streak[b]

\* Whoever compares the time found the count at the threshold when it came; and what
\* shut a breaker still holds, and nobody is about to reset its count.
GateInv == \A r \in RailsRequest : pc[r] = "gate" => blamed[r]
ShutInv ==
    \A b \in R!Rpc : shut[b] =>
        /\ breaker[b].failures >= Threshold
        /\ now - breaker[b].last <= ResetAfter
        /\ \A r \in RailsRequest : R!Rail(r) = b => pc[r] # "half"

GuardInv == StreakInv /\ GateInv /\ ShutInv

RailsInv == R!TypeOK /\ ChargeInv /\ BooksInv /\ GuardInv

\* What tasks have recorded, of each request, and an agent's requests.
Bill(r) == IF R!Priced(r) THEN (charges[r] - due[r]) * R!Price(r) ELSE 0
Bills == [r \in RailsRequest |-> Bill(r)]
Paying(a) == {r \in RailsRequest : R!Priced(r) /\ R!Payer(r) = a}

\* The bodies of requests.
LEMMA Bodies ==
    ASSUME R!RailsAssumption, NEW r \in RailsRequest
    PROVE  /\ R!Rail(r) \in R!Rpc \cup {"x402", "a2a"}
           /\ R!Rail(r) \in R!Rpc => ~ R!Priced(r)
           /\ R!Rail(r) = "x402" => R!Priced(r) /\ R!Price(r) # NoAmount
           /\ R!Rail(r) = "a2a" => (R!Priced(r) <=> /\ NoAgent \notin {rails_req[r].from, rails_req[r].to}
                                                    /\ rails_req[r].amount_cents # NoAmount)
           /\ R!Priced(r) => R!Payer(r) \in RailsAgent /\ R!Price(r) \in Nat
<1>1. /\ rails_req[r] \in R!Eip3009Body \cup R!SolanaBody \cup R!X402Body \cup R!A2ABody
      /\ MicroPerCent \in Nat \ {0} /\ NoAmount \notin Nat
  BY DEF R!RailsAssumption
<1>2. \A v \in Nat : v \div MicroPerCent \in Nat
  BY <1>1
<1> DEFINE q == rails_req[r]
<1>3. CASE q \in R!Eip3009Body \cup R!SolanaBody
  BY <1>3 DEF R!Eip3009Body, R!SolanaBody, R!Rail, R!Rpc, R!Priced
<1>4. CASE q \in R!X402Body
  <2>1. q.rail = "x402" /\ q.agent \in RailsAgent /\ q.value \in Nat
    BY <1>4 DEF R!X402Body
  <2>2. R!Price(r) \in Nat /\ R!Payer(r) \in RailsAgent
    BY <1>2, <2>1 DEF R!Rail, R!Payer, R!Price
  <2> QED
    BY <1>1, <2>1, <2>2 DEF R!Rail, R!Priced, R!Rpc
<1>5. CASE q \in R!A2ABody
  <2>1. /\ q.rail = "a2a" /\ q.from \in RailsAgent \cup {NoAgent}
        /\ q.amount_cents \in Nat \cup {NoAmount}
    BY <1>5 DEF R!A2ABody
  <2> QED
    BY <2>1 DEF R!Rail, R!Payer, R!Price, R!Priced, R!Rpc
<1> QED
  BY <1>1, <1>3, <1>4, <1>5

\* The sums of the module are those of the lemmas about sums.
LEMMA RecordedIs ==
    \A a : R!Recorded(a) = SumOver(Bills, RailsRequest)[Paying(a)]
<1>1. \A f, X : R!SumOver(f, X) = SumOver(f, X)
  BY DEF R!SumOver, SumOver
<1> QED
  BY <1>1 DEF R!Recorded, Bills, Bill, Paying

LEMMA RecordedNext ==
    \A a : R!Recorded(a)' = SumOver(Bills', RailsRequest)[Paying(a)]
<1>1. \A f, X : R!SumOver(f, X) = SumOver(f, X)
  BY DEF R!SumOver, SumOver
<1>2. \A r : (R!Priced(r)' <=> R!Priced(r)) /\ R!Price(r)' = R!Price(r) /\ R!Payer(r)' = R!Payer(r)
  BY DEF R!Priced, R!Price, R!Payer, R!Rail
<1> QED
  BY <1>1, <1>2 DEF R!Recorded, Bills, Bill, Paying

LEMMA RequestsFinite == ASSUME R!RailsAssumption PROVE IsFiniteSet(RailsRequest)
BY DEF R!RailsAssumption, R!IsFiniteSet, IsFiniteSet

LEMMA BillsType ==
    ASSUME R!RailsAssumption, R!TypeOK, ChargeInv
    PROVE  Bills \in [RailsRequest -> Nat]
<1> SUFFICES ASSUME NEW r \in RailsRequest PROVE Bill(r) \in Nat
  BY DEF Bills
<1>1. charges[r] \in 0 .. 2 /\ due[r] \in 0 .. 2 /\ due[r] <= charges[r]
  BY DEF R!TypeOK, ChargeInv, Fits
<1>2. R!Priced(r) => R!Price(r) \in Nat
  BY Bodies
<1>3. charges[r] - due[r] \in {0, 1, 2}
  BY <1>1
<1> HIDE DEF Fits
<1> QED
  BY <1>2, <1>3 DEF Bill

LEMMA RailsInit == ASSUME R!RailsAssumption, R!Init PROVE RailsInv
<1>1. R!TypeOK
  <2>1. R!Unanswered \in Answers
    BY DEF R!Unanswered, Answers, R!Verdicts
  <2>2. answer \in [RailsRequest -> Answers]
    BY <2>1 DEF R!Init
  <2>3. -ResetAfter - 1 \in Int
    BY DEF R!RailsAssumption
  <2>4. /\ breaker \in [R!Rpc -> [failures : Nat, last : Int]]
        /\ pc \in [RailsRequest -> Places]
    BY <2>3 DEF R!Init, Places
  <2> QED
    BY <2>2, <2>4 DEF R!Init, R!TypeOK, Places, Answers
<1>2. ChargeInv
  BY DEF R!Init, ChargeInv, Fits, R!Unanswered
<1>3. GuardInv
  BY DEF R!Init, GuardInv, StreakInv, GateInv, ShutInv
<1>4. BooksInv
  <2> SUFFICES ASSUME NEW a \in RailsAgent PROVE R!Recorded(a) = 0
    BY DEF BooksInv, R!Init
  <2>1. Bills \in [RailsRequest -> Nat] /\ \A r \in RailsRequest : Bills[r] = 0
    <3>1. \A r \in RailsRequest : Bill(r) = 0
      <4> TAKE r \in RailsRequest
      <4>1. charges[r] - due[r] = 0 /\ (R!Priced(r) => R!Price(r) \in Nat)
        BY Bodies DEF R!Init
      <4> QED
        BY <4>1 DEF Bill
    <3> QED
      BY <3>1 DEF Bills
  <2>2. /\ IsFiniteSet(RailsRequest) /\ Paying(a) \in SUBSET RailsRequest
        /\ RailsRequest \in SUBSET RailsRequest
    BY RequestsFinite DEF Paying
  <2> HIDE DEF Bills
  <2>3. SumOver(Bills, RailsRequest)[RailsRequest] = 0
    BY <2>1, <2>2, SumOfNothing
  <2>4. SumOver(Bills, RailsRequest)[Paying(a)] <= SumOver(Bills, RailsRequest)[RailsRequest]
    BY <2>1, <2>2, SumOverWithin
  <2>5. SumOver(Bills, RailsRequest)[Paying(a)] \in Nat
    BY <2>1, <2>2, SumOverFacts
  <2> QED
    BY <2>3, <2>4, <2>5, RecordedIs
<1> QED
  BY <1>1, <1>2, <1>3, <1>4 DEF RailsInv

\* A step of one request: the others are where they were, and a failure only
\* loosens what an answer says.
LEMMA MovedRequest ==
    ASSUME RailsInv, NEW r \in RailsRequest, NEW p \in Places, NEW a \in Answers,
           NEW n \in 0 .. 2, NEW d \in 0 .. 2,
           pc' = [pc EXCEPT ![r] = p], answer' = [answer EXCEPT ![r] = a],
           charges' = [charges EXCEPT ![r] = n], due' = [due EXCEPT ![r] = d],
           faults' \in {faults, faults + 1},
           Fits(r, p, a.verdict, n, d, faults')
    PROVE  /\ pc' \in [RailsRequest -> Places] /\ answer' \in [RailsRequest -> Answers]
           /\ charges' \in [RailsRequest -> 0 .. 2] /\ due' \in [RailsRequest -> 0 .. 2]
           /\ faults' \in Nat /\ ChargeInv'
<1>1. /\ pc \in [RailsRequest -> Places] /\ answer \in [RailsRequest -> Answers]
      /\ charges \in [RailsRequest -> 0 .. 2] /\ due \in [RailsRequest -> 0 .. 2]
      /\ faults \in Nat
  BY DEF RailsInv, R!TypeOK, Places, Answers
<1>2. ChargeInv'
  <2> SUFFICES ASSUME NEW s \in RailsRequest
               PROVE  Fits(s, pc'[s], answer'[s].verdict, charges'[s], due'[s], faults')
    BY DEF ChargeInv, Fits, R!Priced, R!Rail, R!Rpc
  <2>1. CASE s = r
    BY <1>1, <2>1
  <2>2. CASE s # r
    <3>1. /\ pc'[s] = pc[s] /\ answer'[s] = answer[s] /\ charges'[s] = charges[s]
          /\ due'[s] = due[s] /\ (faults' = 0 => faults = 0)
      BY <1>1, <2>2
    <3>2. Fits(s, pc[s], answer[s].verdict, charges[s], due[s], faults)
      BY DEF RailsInv, ChargeInv
    <3> QED
      BY <3>1, <3>2 DEF Fits
  <2> QED
    BY <2>1, <2>2
<1> QED
  BY <1>1, <1>2

\* A charge that is made is due, so nothing is recorded by it.
LEMMA BooksKept ==
    ASSUME BooksInv, committed' = committed,
           \A r \in RailsRequest : charges'[r] - due'[r] = charges[r] - due[r]
    PROVE  BooksInv'
<1>1. Bills' = Bills
  <2>1. \A r \in RailsRequest : (R!Priced(r)' <=> R!Priced(r)) /\ R!Price(r)' = R!Price(r)
    BY DEF R!Priced, R!Price, R!Rail
  <2>2. \A r \in RailsRequest : Bill(r)' = Bill(r)
    BY <2>1 DEF Bill
  <2> QED
    BY <2>2 DEF Bills
<1> SUFFICES ASSUME NEW a \in RailsAgent PROVE committed'[a] = R!Recorded(a)'
  BY DEF BooksInv
<1> QED
  BY <1>1, RecordedIs, RecordedNext DEF BooksInv

\* What a step does to the breaker of request r, which then is at place p.
GuardStep(r, p) ==
    \/ UNCHANGED R!guard /\ p \notin {"gate", "half"}
    \/ /\ R!Rail(r) \in R!Rpc
       /\ \/ /\ blamed' = [blamed EXCEPT ![r] = streak[R!Rail(r)] >= Threshold]
             /\ UNCHANGED <<breaker, streak, shut>>
             /\ p = "verify" \/ (p = "gate" /\ breaker[R!Rail(r)].failures >= Threshold)
          \/ UNCHANGED R!guard /\ p = "half" /\ ~ shut[R!Rail(r)]
          \/ /\ breaker' = [breaker EXCEPT ![R!Rail(r)].failures = 0]
             /\ UNCHANGED <<streak, blamed, shut>>
             /\ p = "verify" /\ pc[r] = "half"
          \/ /\ breaker' = [breaker EXCEPT ![R!Rail(r)].failures = 0]
             /\ streak' = [streak EXCEPT ![R!Rail(r)] = 0]
             /\ shut' = [shut EXCEPT ![R!Rail(r)] = FALSE]
             /\ UNCHANGED blamed /\ p = "done"
          \/ /\ breaker' = [breaker EXCEPT ![R!Rail(r)].failures = breaker[R!Rail(r)].failures + 1]
             /\ streak' = [streak EXCEPT ![R!Rail(r)] = streak[R!Rail(r)] + 1]
             /\ UNCHANGED <<blamed, shut>> /\ p \in {"trip", "done"}
          \/ /\ breaker' = [breaker EXCEPT ![R!Rail(r)].last = now]
             /\ UNCHANGED <<streak, blamed>> /\ p = "done"
             /\ shut' = [shut EXCEPT ![R!Rail(r)] =
                   \/ shut[R!Rail(r)]
                   \/ /\ breaker[R!Rail(r)].failures >= Threshold
                      /\ \A s \in RailsRequest : R!Rail(s) = R!Rail(r) => pc[s] # "half"]
          \/ /\ blamed' = [blamed EXCEPT ![r] = FALSE]
             /\ UNCHANGED <<breaker, streak, shut>> /\ p = "idle"

GuardType ==
    /\ breaker \in [R!Rpc -> [failures : Nat, last : Int]]
    /\ streak \in [R!Rpc -> Nat] /\ blamed \in [RailsRequest -> BOOLEAN]
    /\ shut \in [R!Rpc -> BOOLEAN]

LEMMA Guards ==
    ASSUME R!RailsAssumption, RailsInv, NEW r \in RailsRequest, NEW p \in Places,
           pc' = [pc EXCEPT ![r] = p], now' = now, GuardStep(r, p)
    PROVE  GuardType' /\ GuardInv'
<1> DEFINE b == R!Rail(r)
           rail(s) == R!Rail(s)
<1>1. /\ GuardType /\ now \in Nat /\ Threshold \in Nat \ {0} /\ ResetAfter \in Nat
      /\ pc \in [RailsRequest -> Places]
  BY DEF RailsInv, R!TypeOK, GuardType, R!RailsAssumption, Places
<1>2. /\ \A c \in R!Rpc : breaker[c].failures <= streak[c]
      /\ \A s \in RailsRequest : pc[s] = "gate" => blamed[s]
      /\ \A c \in R!Rpc : shut[c] =>
            /\ breaker[c].failures >= Threshold
            /\ now - breaker[c].last <= ResetAfter
            /\ \A s \in RailsRequest : rail(s) = c => pc[s] # "half"
  BY DEF RailsInv, GuardInv, StreakInv, GateInv, ShutInv
<1> DEFINE Counted == \A c \in R!Rpc : breaker'[c].failures <= streak'[c]
           Gated == \A s \in RailsRequest : pc'[s] = "gate" => blamed'[s]
           Shut == \A c \in R!Rpc : shut'[c] =>
                      /\ breaker'[c].failures >= Threshold
                      /\ now - breaker'[c].last <= ResetAfter
                      /\ \A s \in RailsRequest : rail(s) = c => pc'[s] # "half"
           Good == GuardType' /\ Counted /\ Gated /\ Shut
<1>3. \A s \in RailsRequest : pc'[s] = IF s = r THEN p ELSE pc[s]
  BY <1>1
<1>4. Good => GuardType' /\ GuardInv'
  BY DEF GuardInv, StreakInv, GateInv, ShutInv, R!Rail, R!Rpc
<1>5. b = rail(r)
  OBVIOUS
<1> HIDE DEF b, rail
<1>6. ASSUME UNCHANGED R!guard, p \notin {"gate", "half"} PROVE Good
  <2>1. UNCHANGED <<breaker, streak, blamed, shut>> /\ p # "gate" /\ p # "half"
    BY <1>6 DEF R!guard
  <2>2. GuardType'
    BY <1>1, <2>1 DEF GuardType, R!Rpc
  <2> QED
    BY <1>1, <1>2, <1>3, <2>1, <2>2
<1>7. ASSUME b \in R!Rpc, blamed' = [blamed EXCEPT ![r] = streak[b] >= Threshold],
             UNCHANGED <<breaker, streak, shut>>,
             p = "verify" \/ (p = "gate" /\ breaker[b].failures >= Threshold)
      PROVE  Good
  <2>1. streak[b] \in Nat /\ breaker[b].failures \in Nat
    BY <1>1, <1>7 DEF GuardType
  <2>2. (streak[b] >= Threshold) \in BOOLEAN /\ (p = "gate" => streak[b] >= Threshold)
    BY <1>1, <1>2, <1>7, <2>1
  <2>3. blamed' \in [RailsRequest -> BOOLEAN] /\ (p = "gate" => blamed'[r])
        /\ \A s \in RailsRequest : s # r => blamed'[s] = blamed[s]
    BY <1>1, <1>7, <2>2 DEF GuardType
  <2>4. p # "half"
    BY <1>7
  <2>5. GuardType'
    BY <1>1, <1>7, <2>3 DEF GuardType, R!Rpc
  <2> QED
    BY <1>1, <1>2, <1>3, <1>7, <2>3, <2>4, <2>5
<1>8. ASSUME b \in R!Rpc, UNCHANGED R!guard, p = "half", ~ shut[b] PROVE Good
  <2>1. UNCHANGED <<breaker, streak, blamed, shut>>
    BY <1>8 DEF R!guard
  <2>2. GuardType'
    BY <1>1, <2>1 DEF GuardType, R!Rpc
  <2> QED
    BY <1>1, <1>2, <1>3, <1>5, <1>8, <2>1, <2>2
<1>9. ASSUME b \in R!Rpc, breaker' = [breaker EXCEPT ![b].failures = 0],
             UNCHANGED <<streak, blamed, shut>>, p = "verify", pc[r] = "half"
      PROVE  Good
  <2>1. ~ shut[b]
    BY <1>2, <1>5, <1>9
  <2>2. /\ GuardType' /\ breaker'[b].failures = 0 /\ 0 <= streak[b]
        /\ \A c \in R!Rpc : c # b => breaker'[c] = breaker[c]
    BY <1>1, <1>9 DEF GuardType, R!Rpc
  <2> QED
    BY <1>1, <1>2, <1>3, <1>9, <2>1, <2>2
<1>10. ASSUME b \in R!Rpc, breaker' = [breaker EXCEPT ![b].failures = 0],
              streak' = [streak EXCEPT ![b] = 0], shut' = [shut EXCEPT ![b] = FALSE],
              UNCHANGED blamed, p = "done"
       PROVE  Good
  <2>1. GuardType'
    BY <1>1, <1>10 DEF GuardType, R!Rpc
  <2>2. /\ breaker'[b].failures = 0 /\ streak'[b] = 0 /\ ~ shut'[b]
        /\ \A c \in R!Rpc : c # b => /\ breaker'[c] = breaker[c] /\ streak'[c] = streak[c]
                                     /\ shut'[c] = shut[c]
    BY <1>1, <1>10 DEF GuardType
  <2> QED
    BY <1>1, <1>2, <1>3, <1>10, <2>1, <2>2
<1>11. ASSUME b \in R!Rpc, breaker' = [breaker EXCEPT ![b].failures = breaker[b].failures + 1],
              streak' = [streak EXCEPT ![b] = streak[b] + 1],
              UNCHANGED <<blamed, shut>>, p \in {"trip", "done"}
       PROVE  Good
  <2>1. GuardType'
    BY <1>1, <1>11 DEF GuardType, R!Rpc
  <2>2. /\ breaker'[b].failures = breaker[b].failures + 1 /\ streak'[b] = streak[b] + 1
        /\ breaker'[b].last = breaker[b].last
        /\ breaker[b].failures \in Nat /\ streak[b] \in Nat
        /\ \A c \in R!Rpc : c # b => breaker'[c] = breaker[c] /\ streak'[c] = streak[c]
    BY <1>1, <1>11 DEF GuardType
  <2>3. p # "gate" /\ p # "half"
    BY <1>11
  <2> QED
    BY <1>1, <1>2, <1>3, <1>11, <2>1, <2>2, <2>3
<1>12. ASSUME b \in R!Rpc, breaker' = [breaker EXCEPT ![b].last = now], NEW x \in BOOLEAN,
              shut' = [shut EXCEPT ![b] = x],
              x => \/ shut[b]
                   \/ /\ breaker[b].failures >= Threshold
                      /\ \A s \in RailsRequest : rail(s) = b => pc[s] # "half",
              UNCHANGED <<streak, blamed>>, p = "done"
       PROVE  Good
  <2>1. GuardType'
    BY <1>1, <1>12 DEF GuardType, R!Rpc
  <2>2. /\ breaker'[b].failures = breaker[b].failures /\ breaker'[b].last = now
        /\ shut'[b] = x
        /\ \A c \in R!Rpc : c # b => breaker'[c] = breaker[c] /\ shut'[c] = shut[c]
    BY <1>1, <1>12 DEF GuardType
  <2>3. x => /\ breaker[b].failures >= Threshold
             /\ \A s \in RailsRequest : rail(s) = b => pc[s] # "half"
    BY <1>2, <1>12
  <2> QED
    BY <1>1, <1>2, <1>3, <1>12, <2>1, <2>2, <2>3
<1>13. ASSUME b \in R!Rpc, blamed' = [blamed EXCEPT ![r] = FALSE],
              UNCHANGED <<breaker, streak, shut>>, p = "idle"
       PROVE  Good
  <2>1. GuardType' /\ \A s \in RailsRequest : s # r => blamed'[s] = blamed[s]
    BY <1>1, <1>13 DEF GuardType, R!Rpc
  <2> QED
    BY <1>1, <1>2, <1>3, <1>13, <2>1
<1> HIDE DEF Good
<1> QED
  BY <1>4, <1>6, <1>7, <1>8, <1>9, <1>10, <1>11, <1>12, <1>13 DEF GuardStep, b, rail

\* A step of one request that touches no charge.
LEMMA NotCharged ==
    ASSUME R!RailsAssumption, RailsInv, NEW r \in RailsRequest, NEW p \in Places, NEW a \in Answers,
           pc' = [pc EXCEPT ![r] = p], answer' = [answer EXCEPT ![r] = a],
           UNCHANGED <<now, R!spend>>, faults' \in {faults, faults + 1},
           GuardStep(r, p), Fits(r, p, a.verdict, charges[r], due[r], faults')
    PROVE  RailsInv'
<1>1. /\ charges[r] \in 0 .. 2 /\ due[r] \in 0 .. 2
      /\ charges = [charges EXCEPT ![r] = charges[r]] /\ due = [due EXCEPT ![r] = due[r]]
      /\ UNCHANGED <<now, standing, committed, due, charges>>
  BY DEF RailsInv, R!TypeOK, R!spend
<1>2. /\ pc' \in [RailsRequest -> Places] /\ answer' \in [RailsRequest -> Answers]
      /\ charges' \in [RailsRequest -> 0 .. 2] /\ due' \in [RailsRequest -> 0 .. 2]
      /\ faults' \in Nat /\ ChargeInv'
  <2> DEFINE n == charges[r]
             d == due[r]
  <2>1. n \in 0 .. 2 /\ d \in 0 .. 2 /\ Fits(r, p, a.verdict, n, d, faults')
    BY <1>1
  <2>2. charges' = [charges EXCEPT ![r] = n] /\ due' = [due EXCEPT ![r] = d]
    BY <1>1
  <2> HIDE DEF n, d
  <2> QED
    BY <2>1, <2>2, MovedRequest
<1>3. BooksInv'
  BY <1>1, BooksKept DEF RailsInv
<1>4. GuardType' /\ GuardInv'
  BY <1>1, Guards
<1> QED
  BY <1>1, <1>2, <1>3, <1>4 DEF RailsInv, R!TypeOK, GuardType, Places, Answers

\* Words that say nothing of a charge.
Plain == R!Verdicts \ {"valid", "invalid", "PASS", "FLAG", "BLOCK"}

\* An RPC rail's request goes on, or is answered, or fails.
LEMMA RpcMoves ==
    ASSUME R!RailsAssumption, RailsInv, NEW r \in RailsRequest, R!Rail(r) \in R!Rpc,
           pc[r] # "done",
           UNCHANGED <<now, R!spend>>, faults' \in {faults, faults + 1},
           \/ \E p \in {"verify", "gate", "half", "nonce", "trust"} : R!Goto(r, p) /\ GuardStep(r, p)
           \/ (\E v \in Plain : R!Reply(r, v, FALSE)) /\ GuardStep(r, "done")
           \/ \E v \in Plain : R!Conclude(r, v)
           \/ R!Fail(r)
    PROVE  RailsInv'
<1>1. /\ answer[r] \in Answers /\ answer = [answer EXCEPT ![r] = answer[r]]
      /\ Fits(r, pc[r], answer[r].verdict, charges[r], due[r], faults)
      /\ charges[r] \in 0 .. 2 /\ due[r] \in 0 .. 2
  BY DEF RailsInv, R!TypeOK, Answers, ChargeInv
<1>2. ~ R!Priced(r)
  BY Bodies
<1>3. charges[r] = 0 /\ due[r] = 0 /\ answer[r].verdict = "none"
  BY <1>1, <1>2 DEF Fits
<1>4. ASSUME NEW p \in {"verify", "gate", "half", "nonce", "trust", "trip"}, R!Goto(r, p),
             GuardStep(r, p)
      PROVE  RailsInv'
  <2>1. Fits(r, p, answer[r].verdict, charges[r], due[r], faults')
    BY <1>2, <1>3, <1>4 DEF Fits
  <2>2. p \in Places /\ pc' = [pc EXCEPT ![r] = p] /\ answer' = [answer EXCEPT ![r] = answer[r]]
    BY <1>1, <1>4 DEF R!Goto, Places
  <2> QED
    BY <1>1, <1>4, <2>1, <2>2, NotCharged
<1>5. ASSUME NEW v \in Plain, R!Reply(r, v, FALSE), GuardStep(r, "done")
      PROVE  RailsInv'
  <2> DEFINE a == [verdict |-> v, message |-> FALSE]
  <2>1. a \in Answers /\ a.verdict = v /\ "done" \in Places
    BY DEF Answers, Plain, Places
  <2>2. Fits(r, "done", v, charges[r], due[r], faults')
    BY <1>2, <1>3 DEF Fits
  <2>3. pc' = [pc EXCEPT ![r] = "done"] /\ answer' = [answer EXCEPT ![r] = a]
    BY <1>5 DEF R!Reply
  <2> HIDE DEF a
  <2> QED
    BY <1>5, <2>1, <2>2, <2>3, NotCharged
<1>6. ASSUME NEW v \in Plain, R!Conclude(r, v) PROVE RailsInv'
  <2>1. GuardStep(r, "done") /\ R!Reply(r, v, FALSE)
    BY <1>6 DEF R!Conclude, R!RecordSuccess, GuardStep
  <2> QED
    BY <1>5, <2>1
<1>7. CASE R!Fail(r)
  <2>1. /\ breaker' = [breaker EXCEPT ![R!Rail(r)].failures = breaker[R!Rail(r)].failures + 1]
        /\ streak' = [streak EXCEPT ![R!Rail(r)] = streak[R!Rail(r)] + 1]
        /\ UNCHANGED <<blamed, shut>>
        /\ R!Goto(r, "trip") \/ R!Reply(r, "error", FALSE)
    BY <1>7 DEF R!Fail
  <2>2. GuardStep(r, "trip") /\ GuardStep(r, "done")
    BY <2>1 DEF GuardStep
  <2>3. "error" \in Plain
    BY DEF R!Verdicts, Plain
  <2> QED
    BY <1>4, <1>5, <2>1, <2>2, <2>3
<1> QED
  BY <1>4, <1>5, <1>6, <1>7

\* What a trust check that passes an amount adds.
Adds(r, who, cents, x) ==
    /\ x = 1 => cents # NoAmount
    /\ R!Charged(r, who, cents) => (x = 1 <=> R!Verdict(who, cents) = "PASS" /\ cents # NoAmount)
    /\ due' = [due EXCEPT ![r] = due[r] + x]
    /\ charges' = [charges EXCEPT ![r] = charges[r] + x]
    /\ committed' = committed

LEMMA ChargedAdds ==
    ASSUME RailsInv, NEW r \in RailsRequest, NEW who, NEW cents,
           R!Charged(r, who, cents) \/ R!NoCharge
    PROVE  \E x \in {0, 1} : Adds(r, who, cents, x)
<1> USE DEF Adds
<1>1. /\ due = [due EXCEPT ![r] = due[r] + 0] /\ charges = [charges EXCEPT ![r] = charges[r] + 0]
  BY DEF RailsInv, R!TypeOK
<1>2. CASE R!Charged(r, who, cents) /\ R!Verdict(who, cents) = "PASS" /\ cents # NoAmount
  BY <1>2 DEF R!Charged
<1>3. CASE R!Charged(r, who, cents) /\ ~ (R!Verdict(who, cents) = "PASS" /\ cents # NoAmount)
  BY <1>1, <1>3 DEF R!Charged
<1>4. CASE R!NoCharge /\ ~R!Charged(r, who, cents)
  BY <1>1, <1>4 DEF R!NoCharge
<1> QED
  BY <1>2, <1>3, <1>4

\* Whoever reads a balance is told one of five things.
LEMMA Statuses ==
    \A tx, q : R!Status(tx, q) \in {"TransactionFailed", "MintMismatch", "SenderMismatch",
                                   "Verified", "AmountMismatch"}
  BY DEF R!Status

\* A step of a request that asks the trust check, of an agent and an amount.
LEMMA Asked ==
    ASSUME R!RailsAssumption, RailsInv, NEW r \in RailsRequest, NEW p \in Places \ {"gate", "half"},
           NEW a \in Answers, NEW x \in {0, 1},
           pc' = [pc EXCEPT ![r] = p], answer' = [answer EXCEPT ![r] = a],
           due' = [due EXCEPT ![r] = due[r] + x],
           charges' = [charges EXCEPT ![r] = charges[r] + x],
           UNCHANGED <<now, standing, committed, R!guard>>,
           faults' \in {faults, faults + 1},
           charges[r] + x <= 2,
           Fits(r, p, a.verdict, charges[r] + x, due[r] + x, faults')
    PROVE  RailsInv'
<1>1. /\ charges \in [RailsRequest -> 0 .. 2] /\ due \in [RailsRequest -> 0 .. 2]
      /\ due[r] <= charges[r]
  BY DEF RailsInv, R!TypeOK, ChargeInv, Fits
<1>2. charges[r] + x \in 0 .. 2 /\ due[r] + x \in 0 .. 2
  BY <1>1
<1>3. /\ pc' \in [RailsRequest -> Places] /\ answer' \in [RailsRequest -> Answers]
      /\ charges' \in [RailsRequest -> 0 .. 2] /\ due' \in [RailsRequest -> 0 .. 2]
      /\ faults' \in Nat /\ ChargeInv'
  BY <1>2, MovedRequest
<1>4. BooksInv'
  <2>1. \A s \in RailsRequest : charges'[s] - due'[s] = charges[s] - due[s]
    BY <1>1
  <2> QED
    BY <2>1, BooksKept DEF RailsInv
<1>5. GuardType' /\ GuardInv'
  <2>1. GuardStep(r, p)
    BY DEF GuardStep
  <2> QED
    BY <2>1, Guards
<1> QED
  BY <1>3, <1>4, <1>5 DEF RailsInv, R!TypeOK, GuardType, Places, Answers

LEMMA ProofKeeps ==
    ASSUME R!RailsAssumption, RailsInv, NEW r \in RailsRequest, R!CheckProof(r)
    PROVE  RailsInv'
<1>1. /\ pc[r] = "idle" /\ R!Rail(r) = "x402"
      /\ UNCHANGED <<now, R!spend, R!guard, faults>>
      /\ R!Goto(r, "trust") \/ R!Reply(r, "error", FALSE)
  BY DEF R!CheckProof
<1>2. /\ answer[r] \in Answers /\ answer = [answer EXCEPT ![r] = answer[r]]
      /\ charges[r] = 0 /\ due[r] = 0 /\ answer[r].verdict = "none"
  <2>1. answer \in [RailsRequest -> Answers] /\ charges[r] \in 0 .. 2 /\ due[r] \in 0 .. 2
    BY DEF RailsInv, R!TypeOK, Answers
  <2>2. Fits(r, pc[r], answer[r].verdict, charges[r], due[r], faults)
    BY DEF RailsInv, ChargeInv
  <2> QED
    BY <1>1, <2>1, <2>2 DEF Fits
<1>3. /\ GuardStep(r, "trust") /\ GuardStep(r, "done") /\ {"trust", "done"} \in SUBSET Places
      /\ UNCHANGED <<now, R!spend>> /\ faults' \in {faults, faults + 1}
  BY <1>1 DEF GuardStep, Places
<1>4. Fits(r, "trust", "none", charges[r], due[r], faults')
      /\ Fits(r, "done", "error", charges[r], due[r], faults')
  BY <1>1, <1>2 DEF Fits
<1>5. CASE R!Goto(r, "trust")
  <2>1. pc' = [pc EXCEPT ![r] = "trust"] /\ answer' = [answer EXCEPT ![r] = answer[r]]
    BY <1>2, <1>5 DEF R!Goto
  <2> QED
    BY <1>2, <1>3, <1>4, <2>1, NotCharged
<1>6. CASE R!Reply(r, "error", FALSE)
  <2> DEFINE a == [verdict |-> "error", message |-> FALSE]
  <2>1. a \in Answers /\ a.verdict = "error"
    BY DEF Answers, R!Verdicts
  <2>2. pc' = [pc EXCEPT ![r] = "done"] /\ answer' = [answer EXCEPT ![r] = a]
    BY <1>6 DEF R!Reply
  <2> HIDE DEF a
  <2> QED
    BY <1>3, <1>4, <2>1, <2>2, NotCharged
<1> QED
  BY <1>1, <1>5, <1>6

LEMMA PayerKeeps ==
    ASSUME R!RailsAssumption, RailsInv, NEW r \in RailsRequest, R!AskAboutPayer(r)
    PROVE  RailsInv'
<1> DEFINE who == R!Payer(r)
           cents == R!Price(r)
           word == IF R!IsAllowed(R!Verdict(who, cents)) THEN "valid" ELSE "invalid"
<1>1. /\ pc[r] = "trust" /\ R!Rail(r) = "x402"
      /\ UNCHANGED <<now, standing, R!guard>>
      /\ \/ R!Charged(r, who, cents) /\ R!Reply(r, word, FALSE) /\ faults' = faults
         \/ R!Unheard(r, who, cents) /\ R!Reply(r, "error", FALSE)
  BY DEF R!AskAboutPayer
<1>2. R!Priced(r) /\ cents # NoAmount
  BY <1>1, Bodies
<1>3. charges[r] = 0 /\ due[r] = 0 /\ faults \in Nat
  BY <1>1, <1>2 DEF RailsInv, R!TypeOK, ChargeInv, Fits
<1>4. word = IF R!Verdict(who, cents) = "PASS" THEN "valid" ELSE "invalid"
  BY DEF R!IsAllowed
<1> HIDE DEF who, cents, word
<1>5. PICK x \in {0, 1} : Adds(r, who, cents, x)
  <2>1. R!Charged(r, who, cents) \/ R!NoCharge
    BY <1>1 DEF R!Unheard
  <2> QED
    BY <2>1, ChargedAdds
<1>6. ASSUME NEW v \in {"valid", "invalid", "error"}, R!Reply(r, v, FALSE),
             faults' \in {faults, faults + 1},
             v = "valid" => x = 1, v = "invalid" => x = 0, v = "error" => faults' # 0
      PROVE  RailsInv'
  <2> DEFINE a == [verdict |-> v, message |-> FALSE]
  <2>1. a \in Answers /\ a.verdict = v /\ "done" \in Places \ {"gate", "half"}
    BY DEF Answers, Places, R!Verdicts
  <2>2. Fits(r, "done", v, charges[r] + x, due[r] + x, faults')
    BY <1>2, <1>3, <1>6 DEF Fits
  <2>3. pc' = [pc EXCEPT ![r] = "done"] /\ answer' = [answer EXCEPT ![r] = a]
    BY <1>6 DEF R!Reply
  <2>4. charges[r] + x <= 2
    BY <1>3
  <2> HIDE DEF a
  <2> QED
    BY <1>1, <1>5, <1>6, <2>1, <2>2, <2>3, <2>4, Asked DEF Adds
<1>7. CASE R!Charged(r, who, cents) /\ R!Reply(r, word, FALSE) /\ faults' = faults
  <2>1. x = 1 <=> R!Verdict(who, cents) = "PASS"
    BY <1>2, <1>5, <1>7 DEF Adds
  <2>2. CASE x = 1
    <3>1. word = "valid"
      BY <1>4, <2>1, <2>2
    <3>2. R!Reply(r, "valid", FALSE)
      BY <1>7, <3>1
    <3> QED
      BY <1>6, <1>7, <2>2, <3>2
  <2>3. CASE x = 0
    <3>1. word = "invalid"
      BY <1>4, <2>1, <2>3
    <3>2. R!Reply(r, "invalid", FALSE)
      BY <1>7, <3>1
    <3> QED
      BY <1>6, <1>7, <2>3, <3>2
  <2> QED
    BY <2>2, <2>3
<1>8. CASE R!Unheard(r, who, cents) /\ R!Reply(r, "error", FALSE)
  <2>1. faults' = faults + 1
    BY <1>8 DEF R!Unheard, R!Fault
  <2>2. faults' # 0 /\ faults' \in {faults, faults + 1}
    BY <1>3, <2>1
  <2> QED
    BY <1>6, <1>8, <2>2
<1> QED
  BY <1>1, <1>7, <1>8

LEMMA MessageKeeps ==
    ASSUME R!RailsAssumption, RailsInv, NEW r \in RailsRequest,
           R!CheckMessage(r) \/ R!WrapMessage(r)
    PROVE  RailsInv'
<1> DEFINE from == rails_req[r].from
           cents == rails_req[r].amount_cents
<1>1. /\ R!Rail(r) = "a2a" /\ charges[r] \in {0, 1} /\ due[r] <= charges[r]
      /\ due[r] \in Nat /\ faults \in Nat
      /\ UNCHANGED <<now, standing, R!guard>>
      /\ charges[r] > 0 => R!Priced(r)
      /\ R!CheckMessage(r) => pc[r] = "idle" /\ charges[r] = 0
      /\ R!WrapMessage(r) => pc[r] = "wrap" /\ (R!Priced(r) => charges[r] = 1)
                             /\ NoAgent \notin {from, rails_req[r].to}
  <2>1. /\ Fits(r, pc[r], answer[r].verdict, charges[r], due[r], faults)
        /\ charges[r] \in 0 .. 2 /\ due[r] \in 0 .. 2 /\ faults \in Nat
    BY DEF RailsInv, ChargeInv, R!TypeOK
  <2>2. /\ R!CheckMessage(r) => pc[r] = "idle" /\ R!Rail(r) = "a2a"
        /\ R!WrapMessage(r) => pc[r] = "wrap"
    BY DEF R!CheckMessage, R!WrapMessage
  <2>3. UNCHANGED <<now, standing, R!guard>>
    BY DEF R!CheckMessage, R!WrapMessage
  <2> QED
    BY <2>1, <2>2, <2>3 DEF Fits
<1>2. R!Priced(r) <=> NoAgent \notin {from, rails_req[r].to} /\ cents # NoAmount
  BY <1>1, Bodies
\* What is answered, and where the request is then.
<1>3. ASSUME NEW v \in {"BLOCK", "FLAG", "PASS"}, NEW m \in BOOLEAN, R!Reply(r, v, m),
             faults' \in {faults, faults + 1}, NEW x \in {0, 1}, Adds(r, from, cents, x),
             x = 1 => R!Priced(r),
             v = "PASS" => (R!Priced(r) => charges[r] + x > 0),
             v # "PASS" => charges[r] = 0
      PROVE  RailsInv'
  <2> DEFINE a == [verdict |-> v, message |-> m]
  <2>1. a \in Answers /\ a.verdict = v /\ "done" \in Places \ {"gate", "half"}
    BY DEF Answers, Places, R!Verdicts
  <2>2. /\ charges[r] + x <= 2 /\ charges[r] + x \in {0, 1, 2} /\ due[r] + x <= charges[r] + x
        /\ charges[r] + x > 0 => R!Priced(r)
    BY <1>1, <1>3
  <2>3. Fits(r, "done", v, charges[r] + x, due[r] + x, faults')
    BY <1>1, <1>3, <2>2 DEF Fits
  <2>4. pc' = [pc EXCEPT ![r] = "done"] /\ answer' = [answer EXCEPT ![r] = a]
    BY <1>3 DEF R!Reply
  <2>5. /\ due' = [due EXCEPT ![r] = due[r] + x] /\ charges' = [charges EXCEPT ![r] = charges[r] + x]
        /\ UNCHANGED <<now, standing, committed, R!guard>>
        /\ faults' \in {faults, faults + 1}
    BY <1>1, <1>3 DEF Adds
  <2>6. Fits(r, "done", a.verdict, charges[r] + x, due[r] + x, faults')
    BY <2>1, <2>3
  <2> HIDE DEF a, from, cents
  <2> QED
    BY <2>1, <2>2, <2>4, <2>5, <2>6, Asked
<1>4. R!Charged(r, from, cents) \/ R!NoCharge => \E x \in {0, 1} : Adds(r, from, cents, x)
  BY ChargedAdds
<1>5. R!CrossVerdict(r) \in {"PASS", "FLAG", "BLOCK"}
      /\ (R!CrossVerdict(r) = "PASS" => R!Verdict(from, cents) = "PASS")
  BY DEF R!CrossVerdict
<1>6. R!Unheard(r, from, cents) => /\ R!Charged(r, from, cents) \/ R!NoCharge
                                  /\ faults' = faults + 1
  BY DEF R!Unheard, R!Fault
<1>7. CASE R!WrapMessage(r)
  <2>1. /\ R!Charged(r, from, cents) \/ R!NoCharge
        /\ faults' \in {faults, faults + 1}
        /\ \E m \in BOOLEAN : R!Reply(r, "PASS", m)
    BY <1>6, <1>7 DEF R!WrapMessage
  <2>2. PICK x \in {0, 1} : Adds(r, from, cents, x)
    BY <1>4, <2>1, Zenon
  <2>3. x = 1 => R!Priced(r)
    BY <1>1, <1>2, <1>7, <2>2 DEF Adds
  <2>4. R!Priced(r) => charges[r] + x > 0
    BY <1>1, <1>7
  <2> QED
    BY <1>3, <2>1, <2>2, <2>3, <2>4
<1>8. CASE R!CheckMessage(r)
  <2>1. pc[r] = "idle" /\ charges[r] = 0
    BY <1>1, <1>8
  <2>2. CASE NoAgent \in {from, rails_req[r].to}
    <3>1. R!NoCharge /\ R!Reply(r, "BLOCK", FALSE) /\ faults' = faults
      BY <1>8, <2>2 DEF R!CheckMessage
    <3>2. PICK x \in {0, 1} : Adds(r, from, cents, x)
      BY <1>4, <3>1
    <3>3. x = 0
      BY <2>1, <3>1, <3>2 DEF Adds, R!NoCharge, RailsInv, R!TypeOK
    <3>4. /\ x = 1 => R!Priced(r)
          /\ faults' \in {faults, faults + 1} /\ FALSE \in BOOLEAN
      BY <3>1, <3>3
    <3> HIDE DEF from, cents
    <3> QED
      BY <1>3, <2>1, <3>1, <3>2, <3>4
  <2>3. CASE NoAgent \notin {from, rails_req[r].to}
    <3>1. \/ /\ R!Charged(r, from, cents) /\ faults' = faults
             /\ IF R!CrossVerdict(r) = "PASS" THEN R!Goto(r, "wrap")
                                              ELSE R!Reply(r, R!CrossVerdict(r), FALSE)
          \/ R!Unheard(r, from, cents) /\ R!Reply(r, "BLOCK", FALSE)
      BY <1>8, <2>3 DEF R!CheckMessage
    <3>2. PICK x \in {0, 1} : Adds(r, from, cents, x)
      <4>1. R!Charged(r, from, cents) \/ R!NoCharge
        BY <1>6, <3>1
      <4> QED
        BY <1>4, <4>1, Zenon
    <3>3. x = 1 => R!Priced(r)
      BY <1>2, <2>3, <3>2 DEF Adds
    <3>4. CASE /\ R!Charged(r, from, cents) /\ faults' = faults
               /\ R!CrossVerdict(r) = "PASS" /\ R!Goto(r, "wrap")
      <4>1. R!Priced(r) <=> x = 1
        BY <1>2, <1>5, <2>3, <3>2, <3>4 DEF Adds
      <4>2. answer[r] \in Answers /\ answer = [answer EXCEPT ![r] = answer[r]]
            /\ "wrap" \in Places \ {"gate", "half"}
        BY DEF RailsInv, R!TypeOK, Answers, Places
      <4>3. answer[r].verdict = "none"
        BY <2>1 DEF RailsInv, ChargeInv, Fits
      <4>4. charges[r] + x <= 2 /\ due[r] + x <= charges[r] + x /\ charges[r] + x = x
        BY <1>1, <2>1
      <4>5. Fits(r, "wrap", answer[r].verdict, charges[r] + x, due[r] + x, faults')
        BY <1>1, <2>3, <4>1, <4>3, <4>4 DEF Fits
      <4>6. pc' = [pc EXCEPT ![r] = "wrap"] /\ answer' = [answer EXCEPT ![r] = answer[r]]
        BY <3>4, <4>2 DEF R!Goto
      <4> HIDE DEF from, cents
      <4> QED
        BY <1>1, <3>2, <3>4, <4>2, <4>4, <4>5, <4>6, Asked DEF Adds
    <3>5. CASE /\ R!Charged(r, from, cents) /\ faults' = faults
               /\ R!CrossVerdict(r) # "PASS" /\ R!Reply(r, R!CrossVerdict(r), FALSE)
      BY <1>3, <1>5, <2>1, <3>2, <3>3, <3>5
    <3>6. CASE R!Unheard(r, from, cents) /\ R!Reply(r, "BLOCK", FALSE)
      BY <1>3, <1>6, <2>1, <3>2, <3>3, <3>6
    <3> QED
      BY <3>1, <3>4, <3>5, <3>6
  <2> QED
    BY <2>2, <2>3
<1> QED
  BY <1>7, <1>8

LEMMA RailsStep ==
    ASSUME R!RailsAssumption, RailsInv, [R!Next]_(R!vars)
    PROVE  RailsInv'
<1>1. CASE UNCHANGED R!vars
  <2>1. /\ UNCHANGED <<now, standing, committed, due, charges, breaker, streak, blamed, shut>>
        /\ UNCHANGED <<pc, answer, faults>>
    BY <1>1 DEF R!vars, R!spend, R!guard
  <2>2. BooksInv'
    BY <2>1, BooksKept DEF RailsInv
  <2>3. ChargeInv'
    BY <2>1 DEF RailsInv, ChargeInv, Fits, R!Priced, R!Rail, R!Rpc
  <2>4. GuardInv'
    BY <2>1 DEF RailsInv, GuardInv, StreakInv, GateInv, ShutInv, R!Rail, R!Rpc
  <2> QED
    BY <2>1, <2>2, <2>3, <2>4 DEF RailsInv, R!TypeOK
<1>2. ASSUME NEW r \in RailsRequest,
             \/ R!ReadCount(r) \/ R!ReadTime(r) \/ R!ResetCount(r) \/ R!Trip(r) \/ R!CheckTime(r)
             \/ R!CheckNonce(r) \/ R!FetchTransaction(r) \/ R!AskInVain(r)
      PROVE  RailsInv'
  <2>1. /\ R!Rail(r) \in R!Rpc /\ pc[r] # "done"
    <3>1. Fits(r, pc[r], answer[r].verdict, charges[r], due[r], faults)
      BY DEF RailsInv, ChargeInv
    <3>2. \/ pc[r] \in {"idle", "verify", "trust"} /\ R!Rail(r) \in R!Rpc
          \/ pc[r] \in {"gate", "half", "nonce", "trip"}
      BY <1>2 DEF R!ReadCount, R!ReadTime, R!ResetCount, R!Trip, R!CheckTime, R!CheckNonce,
                  R!FetchTransaction, R!AskInVain, R!Rpc
    <3> QED
      BY <3>1, <3>2 DEF Fits
  <2>2. /\ UNCHANGED <<now, R!spend>>
        /\ faults' \in {faults, faults + 1}
    BY <1>2 DEF R!ReadCount, R!ReadTime, R!ResetCount, R!Trip, R!CheckTime, R!CheckNonce,
                R!FetchTransaction, R!AskInVain, R!Fault
  <2>3. /\ {"error", "unavailable", "EXPIRED", "NOT_YET_VALID", "INVALID_SIGNATURE", "NONCE_USED",
            "TRUST_BLOCKED"} \subseteq Plain
        /\ \A tx : R!Status(tx, rails_req[r]) \in Plain \cup {"Verified"}
    BY Statuses DEF R!Verdicts, Plain
  <2>4. CASE R!ReadCount(r)
    <3>1. breaker[R!Rail(r)].failures \in Nat /\ Threshold \in Nat
      BY <2>1 DEF RailsInv, R!TypeOK, R!RailsAssumption
    <3>2. \/ R!Goto(r, "verify") /\ GuardStep(r, "verify")
          \/ R!Goto(r, "gate") /\ GuardStep(r, "gate")
      BY <2>1, <2>4, <3>1 DEF R!ReadCount, GuardStep
    <3> QED
      BY <2>1, <2>2, <3>2, RpcMoves
  <2>5. CASE R!ReadTime(r)
    <3>1. now - breaker[R!Rail(r)].last > ResetAfter => ~ shut[R!Rail(r)]
      <4>1. /\ breaker[R!Rail(r)].last \in Int /\ now \in Nat /\ ResetAfter \in Nat
        BY <2>1 DEF RailsInv, R!TypeOK, R!RailsAssumption
      <4> QED
        BY <2>1, <4>1 DEF RailsInv, GuardInv, ShutInv
    <3>2. \/ R!Goto(r, "half") /\ GuardStep(r, "half")
          \/ R!Reply(r, "unavailable", FALSE) /\ GuardStep(r, "done")
      BY <2>1, <2>5, <3>1 DEF R!ReadTime, GuardStep
    <3> QED
      BY <2>1, <2>2, <2>3, <3>2, RpcMoves
  <2>6. CASE R!ResetCount(r)
    <3>1. R!Goto(r, "verify") /\ GuardStep(r, "verify")
      BY <2>1, <2>6 DEF R!ResetCount, GuardStep
    <3> QED
      BY <2>1, <2>2, <3>1, RpcMoves
  <2>7. CASE R!Trip(r)
    <3>1. R!Reply(r, "error", FALSE) /\ GuardStep(r, "done")
      BY <2>1, <2>7 DEF R!Trip, GuardStep
    <3> QED
      BY <2>1, <2>2, <2>3, <3>1, RpcMoves
  <2>8. CASE R!CheckTime(r)
    <3>1. \/ \E v \in Plain : R!Conclude(r, v)
          \/ R!Goto(r, "nonce") /\ GuardStep(r, "nonce")
          \/ R!Fail(r)
      BY <2>3, <2>8 DEF R!CheckTime, GuardStep
    <3> QED
      BY <2>1, <2>2, <3>1, RpcMoves
  <2>9. CASE R!CheckNonce(r)
    <3>1. \/ R!Conclude(r, "NONCE_USED")
          \/ R!Goto(r, "trust") /\ GuardStep(r, "trust")
          \/ R!Fail(r)
      BY <2>9 DEF R!CheckNonce, GuardStep
    <3> QED
      BY <2>1, <2>2, <2>3, <3>1, RpcMoves
  <2>10. CASE R!FetchTransaction(r)
    <3>1. \/ \E v \in Plain : R!Conclude(r, v)
          \/ R!Goto(r, "trust") /\ GuardStep(r, "trust")
          \/ R!Fail(r)
      BY <2>3, <2>10 DEF R!FetchTransaction, GuardStep
    <3> QED
      BY <2>1, <2>2, <3>1, RpcMoves
  <2>11. CASE R!AskInVain(r)
    <3>1. R!Conclude(r, "TRUST_BLOCKED") \/ R!Fail(r)
      BY <2>11 DEF R!AskInVain
    <3> QED
      BY <2>1, <2>2, <2>3, <3>1, RpcMoves
  <2> QED
    BY <1>2, <2>4, <2>5, <2>6, <2>7, <2>8, <2>9, <2>10, <2>11
<1>3. ASSUME NEW r \in RailsRequest, R!RecordSpend(r) PROVE RailsInv'
  <2> DEFINE who == R!Payer(r)
             cents == R!Price(r)
  <2>1. /\ due[r] > 0 /\ due' = [due EXCEPT ![r] = due[r] - 1]
        /\ committed' = [committed EXCEPT ![who] = committed[who] + cents]
        /\ UNCHANGED <<now, standing, charges, pc, answer, faults>>
        /\ UNCHANGED <<breaker, streak, blamed, shut>>
    BY <1>3 DEF R!RecordSpend, R!guard
  <2>2. /\ due \in [RailsRequest -> 0 .. 2] /\ charges \in [RailsRequest -> 0 .. 2]
        /\ committed \in [RailsAgent -> Nat]
    BY DEF RailsInv, R!TypeOK
  <2>3. /\ due' \in [RailsRequest -> 0 .. 2]
        /\ \A s \in RailsRequest : due'[s] = IF s = r THEN due[r] - 1 ELSE due[s]
    BY <2>1, <2>2
  <2>4. /\ R!Priced(r) /\ who \in RailsAgent /\ cents \in Nat
    <3>1. R!Priced(r)
      BY <2>1, <2>2 DEF RailsInv, ChargeInv, Fits
    <3> QED
      BY <3>1, Bodies
  <2>5. /\ committed' \in [RailsAgent -> Nat]
        /\ \A a \in RailsAgent : committed'[a] = committed[a] + IF a = who THEN cents ELSE 0
    <3> HIDE DEF who, cents
    <3> QED
      BY <2>1, <2>2, <2>4
  <2>6. ChargeInv'
    <3> SUFFICES ASSUME NEW s \in RailsRequest
                 PROVE  Fits(s, pc[s], answer[s].verdict, charges[s], due'[s], faults)
      BY <2>1 DEF ChargeInv, Fits, R!Priced, R!Rail, R!Rpc
    <3>1. Fits(s, pc[s], answer[s].verdict, charges[s], due[s], faults)
      BY DEF RailsInv, ChargeInv
    <3>2. /\ due'[s] <= due[s] /\ due[s] \in 0 .. 2 /\ due'[s] \in 0 .. 2
          /\ charges[s] \in 0 .. 2
      BY <2>2, <2>3
    <3> QED
      BY <3>1, <3>2 DEF Fits
  <2>7. R!TypeOK'
    BY <2>1, <2>3, <2>5 DEF RailsInv, R!TypeOK, R!Rpc
  <2>8. GuardInv'
    BY <2>1 DEF RailsInv, GuardInv, StreakInv, GateInv, ShutInv, R!Rail, R!Rpc
  <2>9. BooksInv'
    <3>1. /\ Bills \in [RailsRequest -> Nat] /\ Bills' \in [RailsRequest -> Nat]
      <4>1. Bills \in [RailsRequest -> Nat]
        BY BillsType DEF RailsInv
      <4>2. \A s \in RailsRequest : Bill(s)' \in Nat
        <5> TAKE s \in RailsRequest
        <5>1. (R!Priced(s)' <=> R!Priced(s)) /\ R!Price(s)' = R!Price(s)
          BY DEF R!Priced, R!Price, R!Rail
        <5>2. charges'[s] \in 0 .. 2 /\ due'[s] \in 0 .. 2 /\ due'[s] <= charges'[s]
          BY <2>1, <2>2, <2>3, <2>6 DEF ChargeInv, Fits
        <5>3. charges'[s] - due'[s] \in {0, 1, 2} /\ (R!Priced(s) => R!Price(s) \in Nat)
          BY <5>2, Bodies
        <5> QED
          BY <5>1, <5>3 DEF Bill
      <4> QED
        BY <4>1, <4>2 DEF Bills
    <3>2. /\ Bills'[r] = Bills[r] + cents
          /\ \A s \in RailsRequest \ {r} : Bills'[s] = Bills[s]
      <4>1. \A s \in RailsRequest : (R!Priced(s)' <=> R!Priced(s)) /\ R!Price(s)' = R!Price(s)
        BY DEF R!Priced, R!Price, R!Rail
      <4>2. \A s \in RailsRequest \ {r} : Bill(s)' = Bill(s)
        BY <2>1, <2>3, <4>1 DEF Bill
      <4>3. Bill(r)' = Bill(r) + cents
        <5>1. charges[r] \in Nat /\ due[r] \in Nat /\ charges'[r] = charges[r] /\ due'[r] = due[r] - 1
          BY <2>1, <2>2, <2>3
        <5>2. Bill(r) = (charges[r] - due[r]) * cents
              /\ Bill(r)' = (charges[r] - (due[r] - 1)) * cents
          BY <2>4, <4>1, <5>1 DEF Bill
        <5> HIDE DEF cents
        <5>3. \A k \in Int, c \in Nat : (k + 1) * c = k * c + c
          OBVIOUS
        <5>4. charges[r] - (due[r] - 1) = (charges[r] - due[r]) + 1 /\ charges[r] - due[r] \in Int
          BY <5>1
        <5> QED
          BY <2>4, <5>2, <5>3, <5>4
      <4> QED
        BY <4>2, <4>3 DEF Bills
    <3> SUFFICES ASSUME NEW a \in RailsAgent PROVE committed'[a] = R!Recorded(a)'
      BY DEF BooksInv
    <3>3. Paying(a) \in SUBSET RailsRequest /\ (r \in Paying(a) <=> a = who)
      BY <2>4 DEF Paying
    <3>4. committed[a] = SumOver(Bills, RailsRequest)[Paying(a)]
      BY RecordedIs DEF RailsInv, BooksInv
    <3>5. SumOver(Bills', RailsRequest)[Paying(a)]
             = SumOver(Bills, RailsRequest)[Paying(a)] + IF r \in Paying(a) THEN cents ELSE 0
      <4> DEFINE f == Bills
                 g == Bills'
                 T == Paying(a)
      <4>1. /\ f \in [RailsRequest -> Nat] /\ g \in [RailsRequest -> Nat] /\ IsFiniteSet(RailsRequest)
            /\ g[r] = f[r] + cents /\ \A y \in RailsRequest \ {r} : g[y] = f[y]
            /\ T \in SUBSET RailsRequest /\ cents \in Nat
        BY <2>4, <3>1, <3>2, <3>3, RequestsFinite
      <4> HIDE DEF f, g, T, cents
      <4> QED
        BY <4>1, SumOverGrown DEF f, g, T
    <3> QED
      BY <2>5, <3>3, <3>4, <3>5, RecordedNext
  <2> QED
    BY <2>6, <2>7, <2>8, <2>9 DEF RailsInv
<1>4. ASSUME NEW r \in RailsRequest, R!Again(r) PROVE RailsInv'
  <2>1. R!Rail(r) \in R!Rpc /\ GuardStep(r, "idle") /\ faults' = faults
        /\ UNCHANGED <<now, R!spend>>
    BY <1>4 DEF R!Again, GuardStep
  <2>2. R!Unanswered \in Answers /\ R!Unanswered.verdict = "none" /\ "idle" \in Places
    BY DEF R!Unanswered, Answers, R!Verdicts, Places
  <2>3. pc' = [pc EXCEPT ![r] = "idle"] /\ answer' = [answer EXCEPT ![r] = R!Unanswered]
    BY <1>4 DEF R!Again
  <2>4. Fits(r, "idle", "none", charges[r], due[r], faults')
    <3>1. Fits(r, pc[r], answer[r].verdict, charges[r], due[r], faults) /\ ~ R!Priced(r)
      BY <2>1, Bodies DEF RailsInv, ChargeInv
    <3> QED
      BY <3>1 DEF Fits
  <2> QED
    BY <2>1, <2>2, <2>3, <2>4, NotCharged
<1>5. ASSUME NEW a \in RailsAgent, R!StandingMoves(a) PROVE RailsInv'
  <2>1. /\ \E s \in {"FLAG", "BLOCK"} : standing' = [standing EXCEPT ![a] = s]
        /\ UNCHANGED <<now, committed, due, charges, breaker, streak, blamed, shut>>
        /\ UNCHANGED <<pc, answer, faults>>
    BY <1>5 DEF R!StandingMoves, R!guard
  <2>2. R!TypeOK'
    BY <2>1 DEF RailsInv, R!TypeOK
  <2>3. BooksInv'
    BY <2>1, BooksKept DEF RailsInv
  <2>4. ChargeInv'
    BY <2>1 DEF RailsInv, ChargeInv, Fits, R!Priced, R!Rail, R!Rpc
  <2>5. GuardInv'
    BY <2>1 DEF RailsInv, GuardInv, StreakInv, GateInv, ShutInv, R!Rail, R!Rpc
  <2> QED
    BY <2>2, <2>3, <2>4, <2>5 DEF RailsInv
<1>6. CASE R!Tick
  <2>1. /\ now' = now + 1
        /\ shut' = [b \in R!Rpc |-> shut[b] /\ now' - breaker[b].last <= ResetAfter]
        /\ UNCHANGED <<standing, committed, due, charges, breaker, streak, blamed>>
        /\ UNCHANGED <<pc, answer, faults>>
    BY <1>6 DEF R!Tick, R!spend
  <2>2. R!TypeOK'
    BY <2>1 DEF RailsInv, R!TypeOK
  <2>3. BooksInv'
    BY <2>1, BooksKept DEF RailsInv
  <2>4. ChargeInv'
    BY <2>1 DEF RailsInv, ChargeInv, Fits, R!Priced, R!Rail, R!Rpc
  <2>5. GuardInv'
    <3>1. StreakInv' /\ GateInv'
      BY <2>1 DEF RailsInv, GuardInv, StreakInv, GateInv, R!Rpc
    <3>2. ShutInv'
      BY <2>1 DEF RailsInv, GuardInv, ShutInv, R!Rail, R!Rpc
    <3> QED
      BY <3>1, <3>2 DEF GuardInv
  <2> QED
    BY <2>2, <2>3, <2>4, <2>5 DEF RailsInv
<1> QED
  BY <1>1, <1>2, <1>3, <1>4, <1>5, <1>6, ProofKeeps, PayerKeeps, MessageKeeps DEF R!Next

\* What an agent has spent is the price of what passed, for any agents, requests and
\* failures (check_x402, check_a2a: the trust check's task records what passed).
THEOREM SpendIsAlwaysWhatPassed == EdgeSpec => []SpendIsWhatPassed
<1>1. EdgeInit => (part = "rails" => RailsInv)
  BY Starts, RailsInit, EdgeAssumption
<1>2. (part = "rails" => RailsInv) /\ [EdgeNext]_edgeVars => (part = "rails" => RailsInv)'
  BY Steps, RailsStep, EdgeAssumption
<1>3. (part = "rails" => RailsInv) => SpendIsWhatPassed
  <2> SUFFICES ASSUME RailsInv, NEW r \in RailsRequest
               PROVE  charges[r] \in R!MayBeCharged(r)
    BY DEF SpendIsWhatPassed, R!SpendIsWhatPassed, RailsInv, BooksInv
  <2> DEFINE v == answer[r].verdict
  <2>1. /\ Fits(r, pc[r], v, charges[r], due[r], faults) /\ charges[r] \in 0 .. 2
        /\ faults \in Nat
    BY DEF RailsInv, ChargeInv, R!TypeOK
  <2>2. CASE ~ R!Priced(r)
    <3>1. charges[r] = 0
      BY <2>1, <2>2 DEF Fits
    <3> QED
      BY <2>2, <3>1 DEF R!MayBeCharged
  <2>3. CASE R!Priced(r) /\ pc[r] = "wrap"
    <3>1. charges[r] = 1 /\ v = "none"
      BY <2>1, <2>3 DEF Fits
    <3> QED
      BY <2>3, <3>1 DEF R!MayBeCharged
  <2>4. CASE R!Priced(r) /\ pc[r] # "wrap"
    <3>1. v \in {"none", "valid", "invalid", "error", "PASS", "FLAG", "BLOCK"}
      BY <2>1, <2>4 DEF Fits
    <3>2. /\ v = "valid" => charges[r] = 1
          /\ v = "PASS" => charges[r] \in {1, 2}
          /\ v \in {"FLAG", "BLOCK"} => charges[r] \in {0, 1}
          /\ v = "error" => charges[r] = 0 \/ (charges[r] = 1 /\ faults # 0)
          /\ v \in {"none", "invalid"} => charges[r] = 0
      BY <2>1, <2>4 DEF Fits
    <3> QED
      BY <2>4, <3>1, <3>2 DEF R!MayBeCharged
  <2> QED
    BY <2>2, <2>3, <2>4
<1> QED
  BY <1>1, <1>2, <1>3, PTL DEF EdgeSpec

\* What a step of request q is to the gate of its rail.
Passes(q) ==
    \E p \in Places, a \in Answers :
        /\ pc' = [pc EXCEPT ![q] = p] /\ answer' = [answer EXCEPT ![q] = a]
        /\ R!Rail(q) \in R!Rpc =>
              /\ a = answer[q] \/ a.verdict # "unavailable" \/ pc[q] = "gate"
              /\ shut[R!Rail(q)] /\ pc[q] \in {"idle", "gate"} => p \notin {"half", "verify"}

\* A request goes on from where no breaker stands, or its answer is another.
LEMMA PassesBeyond ==
    ASSUME RailsInv, NEW q \in RailsRequest,
           \/ /\ R!Rail(q) \notin R!Rpc \/ pc[q] \notin {"idle", "gate"}
              /\ \/ \E p \in Places : R!Goto(q, p)
                 \/ \E v \in R!Verdicts, m \in BOOLEAN :
                      R!Reply(q, v, m) /\ (R!Rail(q) \notin R!Rpc \/ v # "unavailable")
           \/ UNCHANGED <<pc, answer>>
    PROVE  Passes(q)
<1>1. /\ answer[q] \in Answers /\ answer = [answer EXCEPT ![q] = answer[q]]
      /\ pc[q] \in Places /\ pc = [pc EXCEPT ![q] = pc[q]]
  BY DEF RailsInv, R!TypeOK, Answers, Places
<1>2. ASSUME NEW p \in Places, R!Goto(q, p), R!Rail(q) \notin R!Rpc \/ pc[q] \notin {"idle", "gate"}
      PROVE  Passes(q)
  BY <1>1, <1>2 DEF Passes, R!Goto
<1>3. ASSUME NEW v \in R!Verdicts, NEW m \in BOOLEAN, R!Reply(q, v, m),
             R!Rail(q) \notin R!Rpc \/ v # "unavailable"
      PROVE  Passes(q)
  <2> DEFINE a == [verdict |-> v, message |-> m]
  <2>1. a \in Answers /\ a.verdict = v /\ "done" \in Places
    BY DEF Answers, Places
  <2>2. pc' = [pc EXCEPT ![q] = "done"] /\ answer' = [answer EXCEPT ![q] = a]
    BY <1>3 DEF R!Reply
  <2> HIDE DEF a
  <2> QED
    BY <1>3, <2>1, <2>2 DEF Passes
<1>4. CASE UNCHANGED <<pc, answer>>
  <2>1. pc[q] \in {"idle", "gate"} => pc[q] \notin {"half", "verify"}
    OBVIOUS
  <2> QED
    BY <1>1, <1>4, <2>1 DEF Passes
<1> QED
  BY <1>2, <1>3, <1>4

\* Whatever a request does at a rail's gate.
LEMMA RequestPasses ==
    ASSUME R!RailsAssumption, RailsInv, NEW q \in RailsRequest,
           \/ R!ReadCount(q) \/ R!ReadTime(q) \/ R!ResetCount(q) \/ R!Trip(q)
           \/ R!CheckTime(q) \/ R!CheckNonce(q) \/ R!FetchTransaction(q) \/ R!AskInVain(q)
           \/ R!CheckProof(q) \/ R!AskAboutPayer(q)
           \/ R!CheckMessage(q) \/ R!WrapMessage(q)
           \/ R!RecordSpend(q) \/ R!Again(q)
    PROVE  Passes(q)
<1>1. /\ answer[q] \in Answers /\ answer = [answer EXCEPT ![q] = answer[q]]
      /\ {"verify", "gate", "half", "trip", "nonce", "trust", "wrap", "idle"} \subseteq Places
      /\ Fits(q, pc[q], answer[q].verdict, charges[q], due[q], faults)
  BY DEF RailsInv, R!TypeOK, Answers, Places, ChargeInv
<1>2. /\ {"error", "EXPIRED", "NOT_YET_VALID", "INVALID_SIGNATURE", "NONCE_USED", "TRUST_BLOCKED",
          "valid", "invalid", "PASS", "FLAG", "BLOCK"} \subseteq R!Verdicts \ {"unavailable"}
      /\ \A tx : R!Status(tx, rails_req[q]) \in (R!Verdicts \ {"unavailable"}) \cup {"Verified"}
      /\ R!CrossVerdict(q) \in {"PASS", "FLAG", "BLOCK"}
  BY Statuses DEF R!Verdicts, R!CrossVerdict
<1>3. CASE R!ReadCount(q)
  <2>1. R!Rail(q) \in R!Rpc
    BY <1>3 DEF R!ReadCount
  <2>2. shut[R!Rail(q)] => ~ (breaker[R!Rail(q)].failures < Threshold)
    <3>1. breaker[R!Rail(q)].failures \in Nat /\ Threshold \in Nat
      BY <2>1 DEF RailsInv, R!TypeOK, R!RailsAssumption
    <3> QED
      BY <2>1, <3>1 DEF RailsInv, GuardInv, ShutInv
  <2>3. CASE breaker[R!Rail(q)].failures < Threshold
    <3>1. R!Goto(q, "verify") /\ ~ shut[R!Rail(q)]
      BY <1>3, <2>2, <2>3 DEF R!ReadCount
    <3> QED
      BY <1>1, <3>1 DEF Passes, R!Goto
  <2>4. CASE ~ (breaker[R!Rail(q)].failures < Threshold)
    <3>1. R!Goto(q, "gate")
      BY <1>3, <2>4 DEF R!ReadCount
    <3> QED
      BY <1>1, <3>1 DEF Passes, R!Goto
  <2> QED
    BY <2>3, <2>4
<1>4. CASE R!ReadTime(q)
  <2>1. pc[q] = "gate" /\ R!Rail(q) \in R!Rpc
    BY <1>1, <1>4 DEF R!ReadTime, Fits
  <2>2. shut[R!Rail(q)] => ~ (now - breaker[R!Rail(q)].last > ResetAfter)
    <3>1. breaker[R!Rail(q)].last \in Int /\ now \in Nat /\ ResetAfter \in Nat
      BY <2>1 DEF RailsInv, R!TypeOK, R!RailsAssumption
    <3> QED
      BY <2>1, <3>1 DEF RailsInv, GuardInv, ShutInv
  <2>3. CASE now - breaker[R!Rail(q)].last > ResetAfter
    <3>1. R!Goto(q, "half") /\ ~ shut[R!Rail(q)]
      BY <1>4, <2>2, <2>3 DEF R!ReadTime
    <3> QED
      BY <1>1, <3>1 DEF Passes, R!Goto
  <2>4. CASE ~ (now - breaker[R!Rail(q)].last > ResetAfter)
    <3> DEFINE a == [verdict |-> "unavailable", message |-> FALSE]
    <3>1. a \in Answers /\ "done" \in Places
      BY DEF Answers, Places, R!Verdicts
    <3>2. pc' = [pc EXCEPT ![q] = "done"] /\ answer' = [answer EXCEPT ![q] = a]
      BY <1>4, <2>4 DEF R!ReadTime, R!Reply
    <3> HIDE DEF a
    <3> QED
      BY <2>1, <3>1, <3>2 DEF Passes
  <2> QED
    BY <2>3, <2>4
<1>5. CASE R!ResetCount(q)
  BY <1>1, <1>5, PassesBeyond DEF R!ResetCount
<1>6. ASSUME R!Fail(q), pc[q] \notin {"idle", "gate"} PROVE Passes(q)
  BY <1>1, <1>2, <1>6, PassesBeyond DEF R!Fail
<1>7. ASSUME NEW v \in R!Verdicts \ {"unavailable"}, R!Conclude(q, v), pc[q] \notin {"idle", "gate"}
      PROVE  Passes(q)
  BY <1>7, PassesBeyond DEF R!Conclude
<1>8. CASE R!Trip(q)
  BY <1>2, <1>8, PassesBeyond DEF R!Trip
<1>9. CASE R!CheckTime(q)
  <2>1. /\ pc[q] = "verify"
        /\ \/ R!Conclude(q, "EXPIRED") \/ R!Conclude(q, "NOT_YET_VALID")
           \/ R!Conclude(q, "INVALID_SIGNATURE") \/ R!Goto(q, "nonce") \/ R!Fail(q)
    BY <1>9 DEF R!CheckTime
  <2> QED
    BY <1>1, <1>2, <1>6, <1>7, <2>1, PassesBeyond
<1>10. CASE R!CheckNonce(q)
  <2>1. /\ pc[q] = "nonce"
        /\ R!Conclude(q, "NONCE_USED") \/ R!Goto(q, "trust") \/ R!Fail(q)
    BY <1>10 DEF R!CheckNonce
  <2> QED
    BY <1>1, <1>2, <1>6, <1>7, <2>1, PassesBeyond
<1>11. CASE R!FetchTransaction(q)
  <2>1. /\ pc[q] = "verify"
        /\ \/ \E v \in R!Verdicts \ {"unavailable"} : R!Conclude(q, v)
           \/ R!Goto(q, "trust") \/ R!Fail(q)
    BY <1>2, <1>11 DEF R!FetchTransaction
  <2> QED
    BY <1>1, <1>6, <1>7, <2>1, PassesBeyond
<1>12. CASE R!AskInVain(q)
  <2>1. pc[q] = "trust" /\ (R!Conclude(q, "TRUST_BLOCKED") \/ R!Fail(q))
    BY <1>12 DEF R!AskInVain
  <2> QED
    BY <1>2, <1>6, <1>7, <2>1
<1>13. ASSUME R!Rail(q) \notin R!Rpc,
              \/ \E p \in Places : R!Goto(q, p)
              \/ \E v \in R!Verdicts, m \in BOOLEAN : R!Reply(q, v, m)
       PROVE  Passes(q)
  BY <1>13, PassesBeyond
<1>14. CASE R!CheckProof(q)
  <2>1. R!Rail(q) \notin R!Rpc /\ (R!Goto(q, "trust") \/ R!Reply(q, "error", FALSE))
    BY <1>14 DEF R!CheckProof, R!Rpc
  <2> QED
    BY <1>1, <1>2, <1>13, <2>1
<1>15. CASE R!AskAboutPayer(q)
  <2>1. /\ R!Rail(q) \notin R!Rpc
        /\ R!Reply(q, "valid", FALSE) \/ R!Reply(q, "invalid", FALSE) \/ R!Reply(q, "error", FALSE)
    BY <1>15 DEF R!AskAboutPayer, R!Rpc
  <2> QED
    BY <1>2, <1>13, <2>1
<1>16. CASE R!CheckMessage(q)
  <2>1. /\ R!Rail(q) \notin R!Rpc
        /\ R!Goto(q, "wrap") \/ \E v \in {"PASS", "FLAG", "BLOCK"} : R!Reply(q, v, FALSE)
    BY <1>2, <1>16 DEF R!CheckMessage, R!Rpc
  <2> QED
    BY <1>1, <1>2, <1>13, <2>1
<1>17. CASE R!WrapMessage(q)
  <2>1. pc[q] = "wrap" /\ \E m \in BOOLEAN : R!Reply(q, "PASS", m)
    BY <1>17 DEF R!WrapMessage
  <2> QED
    BY <1>2, <2>1, PassesBeyond
<1>18. CASE R!RecordSpend(q)
  BY <1>18, PassesBeyond DEF R!RecordSpend
<1>19. CASE R!Again(q)
  <2>1. R!Unanswered \in Answers /\ R!Unanswered.verdict = "none"
    BY DEF R!Unanswered, Answers, R!Verdicts
  <2>2. pc' = [pc EXCEPT ![q] = "idle"] /\ answer' = [answer EXCEPT ![q] = R!Unanswered]
    BY <1>19 DEF R!Again
  <2> QED
    BY <1>1, <2>1, <2>2 DEF Passes
<1> QED
  BY <1>3, <1>4, <1>5, <1>8, <1>9, <1>10, <1>11, <1>12, <1>14, <1>15, <1>16, <1>17, <1>18, <1>19

\* A breaker turns calls away for failures only, and one that opened lets none
\* through while its time lasts, however its two atomics are read and written
\* (CircuitBreaker::is_open, record_failure).
THEOREM BreakersAlwaysGuard == EdgeSpec => BreakersGuard
<1>1. EdgeInit => (part = "rails" => RailsInv)
  BY Starts, RailsInit, EdgeAssumption
<1>2. (part = "rails" => RailsInv) /\ [EdgeNext]_edgeVars => (part = "rails" => RailsInv)'
  BY Steps, RailsStep, EdgeAssumption
<1>3. (part = "rails" => RailsInv) /\ [EdgeNext]_edgeVars => [part = "rails" => R!GuardsTheRail]_edgeVars
  <2> SUFFICES ASSUME RailsInv, [R!Next]_(R!vars), NEW r \in RailsRequest, R!Rail(r) \in R!Rpc
               PROVE  /\ answer'[r] # answer[r] /\ answer'[r].verdict = "unavailable" => blamed[r]
                      /\ shut[R!Rail(r)] /\ pc[r] \in {"idle", "gate"}
                         => pc'[r] \notin {"half", "verify"}
    BY Steps DEF R!GuardsTheRail
  <2>1. (\E q \in RailsRequest : Passes(q)) \/ UNCHANGED <<pc, answer>>
    BY RequestPasses, EdgeAssumption DEF R!Next, R!StandingMoves, R!Tick, R!vars
  <2>2. pc \in [RailsRequest -> Places] /\ answer \in [RailsRequest -> Answers]
        /\ \A q \in RailsRequest : pc[q] = "gate" => blamed[q]
    BY DEF RailsInv, R!TypeOK, Places, Answers, GuardInv, GateInv
  <2>3. ASSUME NEW q \in RailsRequest, NEW p \in Places, NEW a \in Answers,
               pc' = [pc EXCEPT ![q] = p], answer' = [answer EXCEPT ![q] = a],
               R!Rail(q) \in R!Rpc =>
                  /\ a = answer[q] \/ a.verdict # "unavailable" \/ pc[q] = "gate"
                  /\ shut[R!Rail(q)] /\ pc[q] \in {"idle", "gate"} => p \notin {"half", "verify"}
        PROVE  /\ answer'[r] # answer[r] /\ answer'[r].verdict = "unavailable" => blamed[r]
               /\ shut[R!Rail(r)] /\ pc[r] \in {"idle", "gate"} => pc'[r] \notin {"half", "verify"}
    <3>1. CASE q = r
      BY <2>2, <2>3, <3>1
    <3>2. CASE q # r
      BY <2>2, <2>3, <3>2
    <3> QED
      BY <3>1, <3>2
  <2>4. CASE UNCHANGED <<pc, answer>>
    BY <2>4
  <2> QED
    BY <2>1, <2>3, <2>4 DEF Passes
<1> QED
  BY <1>1, <1>2, <1>3, PTL DEF EdgeSpec, BreakersGuard

-----------------------------------------------------------------------------
(* The rate limit.                                                          *)

\* What the token buckets are, and that neither of their clocks is ahead.
BucketsOK ==
    /\ now \in Nat
    /\ buckets \in [A!Token -> [tokens : 0 .. Capacity, last : Nat \cup {-1}]]
    /\ admitted \in [A!Token -> Nat] /\ born \in [A!Token -> Nat]

\* What a bucket of n tokens, last refilled at time l and made at time b, may have let
\* through: no more than its capacity and its refill up to then are worth, in tokens
\* times Minute, as a refill's fraction is lost.
Paid(m, n, l, b) ==
    (m + n) * Minute <= Capacity * Minute + Capacity * (l - b) * TickMs

BucketInv ==
    \A t \in A!Token :
        \/ buckets[t] = A!NoBucket /\ admitted[t] = 0
        \/ /\ buckets[t].last \in Nat
           /\ born[t] <= buckets[t].last /\ buckets[t].last <= now
           /\ Paid(admitted[t], buckets[t].tokens, buckets[t].last, born[t])

RateInv == BucketsOK /\ BucketInv

LEMMA RateInit == ASSUME A!AccessAssumption, A!Init PROVE RateInv
  BY DEF A!AccessAssumption, A!Init, RateInv, BucketsOK, BucketInv, A!NoBucket

\* The arithmetic of a refill: what is cut is lost.
LEMMA DivBelow ==
    ASSUME NEW x \in Nat, NEW m \in Nat \ {0}
    PROVE  x \div m \in Nat /\ (x \div m) * m <= x /\ x < (x \div m) * m + m
  OBVIOUS

LEMMA ModBelow ==
    ASSUME NEW x \in Nat, NEW m \in Nat \ {0}
    PROVE  x % m \in Nat /\ x % m <= x
  OBVIOUS

LEMMA Monotone ==
    ASSUME NEW x \in Nat, NEW y \in Nat, NEW z \in Nat, x <= y
    PROVE  x * z \in Nat /\ y * z \in Nat /\ x * z <= y * z
  OBVIOUS

LEMMA SmallerOfTwo ==
    ASSUME NEW x \in Nat, NEW y \in Nat
    PROVE  A!Min({x, y}) = IF x <= y THEN x ELSE y
  BY DEF A!Min

\* A refill adds no more than its time is worth, and never takes a token.
LEMMA RefillIsWorth ==
    ASSUME A!AccessAssumption, now \in Nat,
           NEW b \in [tokens : 0 .. Capacity, last : Nat], b.last <= now
    PROVE  /\ A!Refilled(b) \in [tokens : 0 .. Capacity, last : Nat]
           /\ b.last <= A!Refilled(b).last /\ A!Refilled(b).last <= now
           /\ A!Refilled(b).tokens * Minute
              <= b.tokens * Minute + Capacity * (A!Refilled(b).last - b.last) * TickMs
<1> USE DEF A!AccessAssumption
<1> DEFINE elapsed == (now - b.last) * TickMs
           cut == elapsed % Word
           worth == (cut * Capacity) % Word
           refill == IF elapsed < RefillMs THEN 0 ELSE worth \div Minute
<1>1. now - b.last \in Nat /\ {Capacity, Minute, TickMs, RefillMs, Word} \subseteq Nat \ {0}
  OBVIOUS
<1>2. elapsed \in Nat
  BY <1>1
<1>3. cut \in Nat /\ cut <= elapsed
  <2> HIDE DEF elapsed
  <2> QED
    BY <1>1, <1>2, ModBelow
<1>4. cut * Capacity \in Nat /\ elapsed * Capacity \in Nat /\ cut * Capacity <= elapsed * Capacity
  <2> HIDE DEF elapsed, cut
  <2> QED
    BY <1>1, <1>2, <1>3, Monotone
<1>5. worth \in Nat /\ worth <= elapsed * Capacity
  <2> DEFINE product == cut * Capacity
  <2>1. product % Word \in Nat /\ product % Word <= product
    <3> HIDE DEF elapsed, cut, product
    <3> QED
      BY <1>1, <1>4, ModBelow DEF product
  <2> HIDE DEF elapsed, cut
  <2> QED
    BY <1>4, <2>1
<1>6. worth \div Minute \in Nat /\ (worth \div Minute) * Minute <= worth
  <2> HIDE DEF worth
  <2> QED
    BY <1>1, <1>5, DivBelow
<1>7. refill \in Nat /\ refill * Minute <= elapsed * Capacity
  <2> HIDE DEF worth
  <2>1. CASE elapsed < RefillMs
    <3>1. refill = 0
      BY <2>1
    <3> HIDE DEF refill
    <3> QED
      BY <1>1, <1>4, <3>1
  <2>2. CASE ~(elapsed < RefillMs)
    <3>1. refill = worth \div Minute
      BY <2>2
    <3> HIDE DEF refill, elapsed
    <3> QED
      BY <1>1, <1>4, <1>5, <1>6, <3>1
  <2> QED
    BY <2>1, <2>2
<1>8. elapsed * Capacity = Capacity * (now - b.last) * TickMs
  BY <1>1
<1>9. A!Refilled(b) = IF refill = 0 THEN b
                      ELSE [tokens |-> A!Min({b.tokens + refill, Capacity}), last |-> now]
  BY DEF A!Refilled
<1> HIDE DEF refill, elapsed
<1>10. CASE refill = 0
  BY <1>1, <1>9, <1>10
<1>11. CASE refill # 0
  <2> DEFINE n == A!Min({b.tokens + refill, Capacity})
  <2>1. b.tokens + refill \in Nat /\ b.tokens \in Nat /\ Capacity \in Nat
    BY <1>1, <1>7
  <2>2. n \in 0 .. Capacity /\ n <= b.tokens + refill
    BY <1>1, <2>1, SmallerOfTwo
  <2>3. A!Refilled(b) = [tokens |-> n, last |-> now]
    BY <1>9, <1>11
  <2> HIDE DEF n
  <2>4. n * Minute <= (b.tokens + refill) * Minute
    BY <1>1, <2>1, <2>2, Monotone
  <2>5. (b.tokens + refill) * Minute = b.tokens * Minute + refill * Minute
    BY <1>1, <1>7, <2>1
  <2>6. n * Minute <= b.tokens * Minute + Capacity * (now - b.last) * TickMs
    BY <1>1, <1>4, <1>7, <1>8, <2>1, <2>2, <2>4, <2>5
  <2> QED
    BY <2>2, <2>3, <2>6
<1> QED
  BY <1>10, <1>11

\* A request is let through for a token, which leaves what the bucket paid for.
LEMMA LimitKeeps ==
    ASSUME A!AccessAssumption, RateInv, NEW r \in AccessRequest, A!Limit(r)
    PROVE  RateInv'
<1> DEFINE t == access_req[r].token
           full == [tokens |-> Capacity, last |-> now]
           b == IF buckets[t] = A!NoBucket THEN full ELSE A!Refilled(buckets[t])
           made == IF buckets[t] = A!NoBucket THEN now ELSE born[t]
<1>1. t \in A!Token
  BY DEF A!AccessAssumption, A!CallBody, A!CreateBody, A!RevokeBody
<1>2. /\ Capacity \in Nat \ {0} /\ Minute \in Nat \ {0} /\ TickMs \in Nat \ {0} /\ now \in Nat
      /\ buckets[t] \in [tokens : 0 .. Capacity, last : Nat \cup {-1}]
      /\ admitted[t] \in Nat /\ born[t] \in Nat
  BY <1>1 DEF A!AccessAssumption, RateInv, BucketsOK
<1>3. /\ b \in [tokens : 0 .. Capacity, last : Nat] /\ made \in Nat
      /\ made <= b.last /\ b.last <= now
      /\ Paid(admitted[t], b.tokens, b.last, made)
  <2>1. CASE buckets[t] = A!NoBucket
    <3>1. admitted[t] = 0
      BY <1>1, <2>1 DEF RateInv, BucketInv, A!NoBucket
    <3>2. b = full /\ made = now
      BY <2>1
    <3>3. Paid(0, Capacity, now, now)
      BY <1>2 DEF Paid
    <3> QED
      BY <1>2, <3>1, <3>2, <3>3
  <2>2. CASE buckets[t] # A!NoBucket
    <3> DEFINE o == buckets[t]
    <3>1. /\ o \in [tokens : 0 .. Capacity, last : Nat]
          /\ born[t] <= o.last /\ o.last <= now
          /\ Paid(admitted[t], o.tokens, o.last, born[t])
      BY <1>1, <1>2, <2>2 DEF RateInv, BucketInv
    <3>2. /\ A!Refilled(o) \in [tokens : 0 .. Capacity, last : Nat]
          /\ o.last <= A!Refilled(o).last /\ A!Refilled(o).last <= now
          /\ A!Refilled(o).tokens * Minute
             <= o.tokens * Minute + Capacity * (A!Refilled(o).last - o.last) * TickMs
      BY <1>2, <3>1, RefillIsWorth
    <3>3. b = A!Refilled(o) /\ made = born[t]
      BY <2>2
    <3> HIDE DEF b, o, made
    <3>4. Paid(admitted[t], b.tokens, b.last, born[t])
      <4>1. /\ b.tokens \in Nat /\ b.last \in Nat /\ o.tokens \in Nat /\ o.last \in Nat
            /\ (admitted[t] + o.tokens) * Minute
               <= Capacity * Minute + Capacity * (o.last - born[t]) * TickMs
            /\ b.tokens * Minute <= o.tokens * Minute + Capacity * (b.last - o.last) * TickMs
        BY <3>1, <3>2, <3>3 DEF Paid
      <4>2. (admitted[t] + o.tokens) * Minute = admitted[t] * Minute + o.tokens * Minute
            /\ (admitted[t] + b.tokens) * Minute = admitted[t] * Minute + b.tokens * Minute
        BY <1>2, <4>1
      <4>3. Capacity * (o.last - born[t]) * TickMs + Capacity * (b.last - o.last) * TickMs
            = Capacity * (b.last - born[t]) * TickMs
        BY <1>2, <4>1
      <4> QED
        BY <1>2, <4>1, <4>2, <4>3 DEF Paid
    <3> QED
      BY <1>2, <3>1, <3>2, <3>3, <3>4
  <2> QED
    BY <2>1, <2>2
<1>4. /\ born' \in [A!Token -> Nat] /\ born'[t] = made
      /\ \A s \in A!Token : s # t => born'[s] = born[s]
  BY <1>1, <1>2 DEF A!Limit, RateInv, BucketsOK
<1>5. now' = now
  BY SMTT(30) DEF A!Limit
<1> HIDE DEF b, made, full
\* What is left in the bucket, and what was let through.
<1>6. \E n \in 0 .. Capacity, m \in Nat :
          /\ buckets' = [buckets EXCEPT ![t] = [tokens |-> n, last |-> b.last]]
          /\ admitted' = [admitted EXCEPT ![t] = m]
          /\ m + n = admitted[t] + b.tokens
  <2>1. CASE /\ b.tokens > 0 /\ buckets' = [buckets EXCEPT ![t] = [b EXCEPT !.tokens = @ - 1]]
             /\ admitted' = [admitted EXCEPT ![t] = @ + 1]
    <3>1. [b EXCEPT !.tokens = @ - 1] = [tokens |-> b.tokens - 1, last |-> b.last]
      BY <1>3
    <3>2. admitted' = [admitted EXCEPT ![t] = admitted[t] + 1]
      BY <2>1
    <3>3. b.tokens - 1 \in 0 .. Capacity /\ admitted[t] + 1 \in Nat
          /\ (admitted[t] + 1) + (b.tokens - 1) = admitted[t] + b.tokens
      BY <1>2, <1>3, <2>1
    <3> QED
      BY <2>1, <3>1, <3>2, <3>3
  <2>2. CASE b.tokens = 0 /\ buckets' = [buckets EXCEPT ![t] = b] /\ admitted' = admitted
    <3>1. b = [tokens |-> b.tokens, last |-> b.last]
      BY <1>3
    <3>2. admitted' = [admitted EXCEPT ![t] = admitted[t]]
      BY <2>2 DEF RateInv, BucketsOK
    <3> QED
      BY <1>2, <1>3, <2>2, <3>1, <3>2
  <2> QED
    BY <2>1, <2>2 DEF A!Limit, b, full
<1>7. PICK n \in 0 .. Capacity, m \in Nat :
          /\ buckets' = [buckets EXCEPT ![t] = [tokens |-> n, last |-> b.last]]
          /\ admitted' = [admitted EXCEPT ![t] = m]
          /\ m + n = admitted[t] + b.tokens
  BY <1>6
<1>8. BucketsOK'
  BY <1>1, <1>2, <1>3, <1>4, <1>5, <1>7 DEF RateInv, BucketsOK
<1>9. BucketInv'
  <2> SUFFICES ASSUME NEW s \in A!Token
               PROVE  \/ buckets'[s] = A!NoBucket /\ admitted'[s] = 0
                      \/ /\ buckets'[s].last \in Nat
                         /\ born'[s] <= buckets'[s].last /\ buckets'[s].last <= now
                         /\ Paid(admitted'[s], buckets'[s].tokens, buckets'[s].last, born'[s])
    BY <1>5 DEF BucketInv, Paid, A!NoBucket, A!Token, A!Key
  <2>1. CASE s = t
    <3>1. /\ buckets'[s] = [tokens |-> n, last |-> b.last] /\ admitted'[s] = m
          /\ born'[s] = made
      BY <1>1, <1>4, <1>7, <2>1 DEF RateInv, BucketsOK
    <3>2. Paid(m, n, b.last, made)
      BY <1>3, <1>7 DEF Paid
    <3> QED
      BY <1>3, <3>1, <3>2
  <2>2. CASE s # t
    <3>1. buckets'[s] = buckets[s] /\ admitted'[s] = admitted[s] /\ born'[s] = born[s]
      BY <1>1, <1>4, <1>7, <2>2 DEF RateInv, BucketsOK
    <3> QED
      BY <3>1 DEF RateInv, BucketInv
  <2> QED
    BY <2>1, <2>2
<1> QED
  BY <1>8, <1>9 DEF RateInv

LEMMA RateStep ==
    ASSUME A!AccessAssumption, RateInv, [A!Next]_(A!vars)
    PROVE  RateInv'
<1>1. CASE UNCHANGED <<now, buckets, admitted, born>>
  BY <1>1 DEF RateInv, BucketsOK, BucketInv, Paid, A!NoBucket, A!Token, A!Key
<1>2. CASE A!Tick
  <2>1. now' = now + 1 /\ UNCHANGED <<buckets, admitted, born>>
    BY <1>2 DEF A!Tick
  <2>2. BucketsOK'
    BY <2>1 DEF RateInv, BucketsOK
  <2>3. BucketInv'
    <3>1. \A t \in A!Token : buckets[t].last \in Nat /\ buckets[t].last <= now
                             => buckets[t].last <= now'
      BY <2>1 DEF RateInv, BucketsOK
    <3> QED
      BY <2>1, <3>1 DEF RateInv, BucketInv, Paid, A!NoBucket, A!Token, A!Key
  <2> QED
    BY <2>2, <2>3 DEF RateInv
<1>3. ASSUME NEW r \in AccessRequest,
             \/ A!Authenticate(r) \/ A!Serve(r) \/ A!CreateKey(r) \/ A!ListKeys(r)
             \/ A!RevokeKey(r) \/ A!Again(r)
      PROVE  UNCHANGED <<now, buckets, admitted, born>>
  BY <1>3 DEF A!Authenticate, A!Serve, A!CreateKey, A!ListKeys, A!RevokeKey, A!Again
<1> QED
  BY <1>1, <1>2, <1>3, LimitKeeps DEF A!Next, A!vars

\* In tokens, what the bound on tokens times Minute says.
LEMMA WholeTokens ==
    ASSUME NEW n \in Nat, NEW c \in Nat, NEW x \in Nat, NEW m \in Nat \ {0},
           n * m <= c * m + x
    PROVE  n <= c + x \div m
<1> DEFINE q == x \div m
<1>1. q \in Nat /\ x < q * m + m
  BY DivBelow
<1> HIDE DEF q
<1> SUFFICES ASSUME n >= c + q + 1 PROVE FALSE
  BY <1>1 DEF q
<1>2. (c + q + 1) * m <= n * m
  BY <1>1, Monotone
<1>3. (c + q + 1) * m = c * m + q * m + m
  BY <1>1
<1> QED
  BY <1>1, <1>2, <1>3

\* No spacing of requests lets more through than the capacity and its refill, for any
\* capacity and clock, and however often the product wraps (Bucket::try_consume).
THEOREM RateIsAlwaysBounded == EdgeSpec => []RateIsBounded
<1>1. EdgeInit => (part = "access" => RateInv)
  BY Starts, RateInit, EdgeAssumption
<1>2. (part = "access" => RateInv) /\ [EdgeNext]_edgeVars => (part = "access" => RateInv)'
  BY Steps, RateStep, EdgeAssumption
<1>3. (part = "access" => RateInv) => RateIsBounded
  <2> SUFFICES ASSUME RateInv, NEW t \in A!Token, buckets[t] # A!NoBucket
               PROVE  admitted[t] <= Capacity
                                     + (Capacity * (now - born[t]) * TickMs) \div Minute
    BY DEF RateIsBounded, A!RateIsBounded
  <2> DEFINE l == buckets[t].last
             n == buckets[t].tokens
  <2>1. /\ l \in Nat /\ n \in Nat /\ born[t] <= l /\ l <= now /\ Paid(admitted[t], n, l, born[t])
        /\ now \in Nat /\ born[t] \in Nat /\ admitted[t] \in Nat
        /\ Capacity \in Nat \ {0} /\ Minute \in Nat \ {0} /\ TickMs \in Nat \ {0}
    BY EdgeAssumption DEF RateInv, BucketsOK, BucketInv, A!AccessAssumption
  <2> DEFINE x == Capacity * (now - born[t]) * TickMs
  <2> HIDE DEF l, n
  <2>2. Capacity * (l - born[t]) * TickMs <= x /\ x \in Nat
    <3>1. l - born[t] \in Nat /\ now - born[t] \in Nat /\ l - born[t] <= now - born[t]
      BY <2>1
    <3> DEFINE y == l - born[t]
               z == now - born[t]
    <3> HIDE DEF y, z
    <3>2. y * Capacity <= z * Capacity /\ y * Capacity \in Nat /\ z * Capacity \in Nat
      BY <2>1, <3>1, Monotone DEF y, z
    <3>3. (y * Capacity) * TickMs <= (z * Capacity) * TickMs /\ (z * Capacity) * TickMs \in Nat
      BY <2>1, <3>2, Monotone
    <3>4. y * Capacity = Capacity * y /\ z * Capacity = Capacity * z
      BY <2>1, <3>1 DEF y, z
    <3> QED
      BY <3>3, <3>4 DEF y, z
  <2> HIDE DEF x
  <2>3. admitted[t] * Minute <= (admitted[t] + n) * Minute
    BY <2>1, Monotone
  <2>4. admitted[t] * Minute <= Capacity * Minute + x
    <3>1. (admitted[t] + n) * Minute <= Capacity * Minute + Capacity * (l - born[t]) * TickMs
      BY <2>1 DEF Paid
    <3> DEFINE u == admitted[t] * Minute
               v == (admitted[t] + n) * Minute
               w == Capacity * Minute
               s == Capacity * (l - born[t]) * TickMs
    <3>2. u \in Int /\ v \in Int /\ w \in Int /\ s \in Int
      BY <2>1
    <3> HIDE DEF u, v, w, s
    <3>3. u <= v /\ v <= w + s /\ s <= x
      BY <2>2, <2>3, <3>1 DEF u, v, w, s
    <3>4. u <= w + x
      BY <2>2, <3>2, <3>3
    <3> QED
      BY <3>4 DEF u, w
  <2>5. admitted[t] <= Capacity + x \div Minute
    BY <2>1, <2>2, <2>4, WholeTokens
  <2> QED
    BY <2>5 DEF x
<1> QED
  BY <1>1, <1>2, <1>3, PTL DEF EdgeSpec

-----------------------------------------------------------------------------
(* The venues.                                                              *)

\* A request is what its parts are.
IsMessage(m) ==
    /\ m = [uri |-> m.uri, body |-> m.body, attestation |-> m.attestation, digest |-> m.digest,
            input |-> m.input, also |-> m.also, signature |-> m.signature]
    /\ m.input = [components |-> m.input.components, params |-> m.input.params]

\* What the agent signed is what its list names, and the digest of a body is named.
SentInv ==
    \A s \in said :
        /\ IsMessage(s)
        /\ s.signature.of = V!SignatureBase(s, s.input.components, s.input.params)
        /\ s.body # None => "content-digest" \in s.input.components /\ s.digest = s.body

\* Whatever is changed on the way, no signature is made there.
WireInv == \A m \in wire : IsMessage(m) /\ \E s \in said : m.signature = s.signature

VenuesInv == SentInv /\ WireInv /\ V!AcceptedAsSigned

LEMMA VenuesInit == ASSUME V!Init PROVE VenuesInv
  BY DEF V!Init, VenuesInv, SentInv, WireInv, V!AcceptedAsSigned

LEMMA SignedAsListed ==
    ASSUME NEW uri, NEW body, NEW attestation, NEW components \in SUBSET V!Component,
           NEW params, NEW also
    PROVE  LET msg == [uri |-> uri, body |-> body, attestation |-> attestation,
                       digest |-> None, input |-> None, also |-> also, signature |-> None]
               s == V!Sign(msg, components, params)
           IN  /\ IsMessage(s) /\ s.attestation = attestation
               /\ s.signature.of = V!SignatureBase(s, s.input.components, s.input.params)
               /\ s.body # None => "content-digest" \in s.input.components /\ s.digest = s.body
<1> DEFINE msg == [uri |-> uri, body |-> body, attestation |-> attestation,
                   digest |-> None, input |-> None, also |-> also, signature |-> None]
           digest == IF body = None THEN None ELSE body
           all == components \cup (IF body = None THEN {} ELSE {"content-digest"})
           with == [uri |-> uri, body |-> body, attestation |-> attestation,
                    digest |-> digest, input |-> None, also |-> also, signature |-> None]
           input == [components |-> all, params |-> params]
           signature == [by |-> params.keyid, of |-> V!SignatureBase(with, all, params)]
           s == [uri |-> uri, body |-> body, attestation |-> attestation,
                 digest |-> digest, input |-> input, also |-> also, signature |-> signature]
<1>1. V!Sign(msg, components, params) = s
  <2>1. [msg EXCEPT !.digest = IF msg.body = None THEN @ ELSE msg.body] = with
    OBVIOUS
  <2>2. (IF msg.body = None THEN {} ELSE {"content-digest"})
        = (IF body = None THEN {} ELSE {"content-digest"})
    OBVIOUS
  <2>3. [with EXCEPT !.input = input] =
            [uri |-> uri, body |-> body, attestation |-> attestation, digest |-> digest,
             input |-> input, also |-> also, signature |-> None]
    <3> HIDE DEF digest, input
    <3> QED
      OBVIOUS
  <2>4. \A r, g : r = [uri |-> uri, body |-> body, attestation |-> attestation,
                      digest |-> digest, input |-> input, also |-> also, signature |-> None]
                 => [r EXCEPT !.signature = g] =
                    [uri |-> uri, body |-> body, attestation |-> attestation,
                     digest |-> digest, input |-> input, also |-> also, signature |-> g]
    <3> HIDE DEF digest, input
    <3> QED
      OBVIOUS
  <2>5. [with EXCEPT !.input = input, !.signature = signature] = s
    <3>1. [with EXCEPT !.input = input, !.signature = signature]
          = [[with EXCEPT !.input = input] EXCEPT !.signature = signature]
      <4> HIDE DEF with, input, signature
      <4> QED
        OBVIOUS
    <3> HIDE DEF digest, input, signature, with
    <3> QED
      BY <2>3, <2>4, <3>1
  <2> QED
    BY <2>1, <2>2, <2>5 DEF V!Sign
<1>2. V!SignatureBase(s, all, params) = V!SignatureBase(with, all, params)
  <2>1. \A c \in all : V!Value(s, c) = V!Value(with, c)
    BY DEF V!Value, V!Component
  <2> QED
    BY <2>1 DEF V!SignatureBase
<1>3. IsMessage(s) /\ s.attestation = attestation
  BY DEF IsMessage
<1>4. s.signature.of = V!SignatureBase(s, s.input.components, s.input.params)
  BY <1>2
<1>5. s.body # None => "content-digest" \in s.input.components /\ s.digest = s.body
  OBVIOUS
<1> QED
  BY <1>1, <1>3, <1>4, <1>5

\* The signature of what is accepted is that of a request with the same list and
\* the same values.
LEMMA VerifiedIsSigned ==
    ASSUME NEW m, NEW s, NEW required, IsMessage(m), IsMessage(s), m.signature = s.signature,
           s.signature.of = V!SignatureBase(s, s.input.components, s.input.params),
           s.body # None => "content-digest" \in s.input.components /\ s.digest = s.body,
           V!Verified(m, required), V!Mentioned(m)
    PROVE  /\ m.input = s.input
           /\ \/ m.attestation = s.attestation
              \/ "limit-attestation" \notin required \cup s.input.components /\ m.also
           /\ \A c \in s.input.components : V!Value(m, c) = V!Value(s, c)
           /\ s.body # None => m.body = s.body
<1> DEFINE values == [c \in m.input.components |-> V!Value(m, c)]
           named == [c \in s.input.components |-> V!Value(s, c)]
<1>1. <<values, m.input.params>> = <<named, s.input.params>>
  BY DEF V!Verified, V!SignatureBase
<1>2. values = named /\ m.input.params = s.input.params
  <2> HIDE DEF values, named
  <2> QED
    BY <1>1
<1>3. m.input.components = s.input.components
  <2>1. DOMAIN values = m.input.components /\ DOMAIN named = s.input.components
    OBVIOUS
  <2> QED
    BY <1>2, <2>1
<1>4. m.input = s.input
  BY <1>2, <1>3 DEF IsMessage
<1>5. \A c \in s.input.components : V!Value(m, c) = V!Value(s, c)
  <2> SUFFICES ASSUME NEW c \in s.input.components
               PROVE  V!Value(m, c) = V!Value(s, c)
    OBVIOUS
  <2>1. values[c] = V!Value(m, c) /\ named[c] = V!Value(s, c)
    BY <1>3
  <2> QED
    BY <1>2, <2>1
<1>6. /\ V!Value(m, "limit-attestation") = m.attestation
      /\ V!Value(s, "limit-attestation") = s.attestation
      /\ V!Value(m, "content-digest") = m.digest /\ V!Value(s, "content-digest") = s.digest
  BY DEF V!Value
<1>7. ASSUME s.body # None PROVE m.body = s.body
  <2>1. m.digest = s.body
    BY <1>5, <1>6, <1>7
  <2> QED
    BY <1>7, <2>1 DEF V!Verified, V!DigestFits
<1>8. CASE "limit-attestation" \in s.input.components
  BY <1>4, <1>5, <1>6, <1>7, <1>8
<1>9. CASE "limit-attestation" \notin s.input.components
  <2>1. required \subseteq s.input.components /\ m.also
    BY <1>3, <1>9 DEF V!Verified, V!Mentioned
  <2> QED
    BY <1>4, <1>5, <1>7, <1>9, <2>1
<1> QED
  BY <1>8, <1>9

LEMMA VenuesStep ==
    ASSUME VenuesInv, [V!Next]_(V!vars)
    PROVE  VenuesInv'
<1> USE DEF VenuesInv
<1>1. CASE UNCHANGED <<wire, said, taken>>
  BY <1>1 DEF SentInv, WireInv, V!AcceptedAsSigned, V!SignatureBase, V!Value, IsMessage
<1>2. ASSUME NEW uri \in Uri, NEW body \in Body \cup {None}, NEW a \in Attested \cup {None},
             NEW components \in SUBSET V!Component, NEW keyid \in TapKeyId,
             NEW ahead \in {0, V!Skew + 1}, V!Send(uri, body, a, components, keyid, ahead)
      PROVE  VenuesInv'
  <2> DEFINE msg == [uri |-> uri, body |-> body, attestation |-> a,
                     digest |-> None, input |-> None, also |-> FALSE, signature |-> None]
             params == [created |-> now + ahead, expires |-> now + ahead + V!Expiry,
                        keyid |-> keyid]
             n == V!Sign(msg, components, params)
             no == FALSE
             unsigned == [uri |-> uri, body |-> body, attestation |-> a,
                          digest |-> None, input |-> None, also |-> no, signature |-> None]
  <2>1. said' = said \cup {n} /\ wire' = wire \cup {n} /\ taken' = taken
    BY <1>2 DEF V!Send
  <2>2. /\ IsMessage(n)
        /\ n.signature.of = V!SignatureBase(n, n.input.components, n.input.params)
        /\ n.body # None => "content-digest" \in n.input.components /\ n.digest = n.body
    <3> DEFINE done == V!Sign(unsigned, components, params)
    <3>1. n = done
      OBVIOUS
    <3> HIDE DEF no, params, n
    <3>2. /\ IsMessage(done)
          /\ done.signature.of = V!SignatureBase(done, done.input.components, done.input.params)
          /\ done.body # None => /\ "content-digest" \in done.input.components
                                 /\ done.digest = done.body
      BY SignedAsListed
    <3> HIDE DEF done
    <3> QED
      BY <3>1, <3>2
  <2> HIDE DEF n
  <2>3. SentInv'
    BY <2>1, <2>2 DEF SentInv
  <2>4. WireInv'
    BY <2>1, <2>2 DEF WireInv, IsMessage
  <2>5. V!AcceptedAsSigned'
    BY <2>1 DEF V!AcceptedAsSigned, V!Value
  <2> QED
    BY <2>3, <2>4, <2>5
<1>3. ASSUME NEW m \in wire, V!Change(m) PROVE VenuesInv'
  <2>1. IsMessage(m)
    BY DEF WireInv
  <2>2. UNCHANGED <<said, taken>>
    BY <1>3 DEF V!Change
  <2>3. PICK altered \in V!Changed(m) : wire' = wire \cup {altered}
    BY <1>3 DEF V!Change
  <2>4. IsMessage(altered) /\ altered.signature = m.signature
    <3>1. ASSUME NEW u, altered = [m EXCEPT !.uri = u]
          PROVE  IsMessage(altered) /\ altered.signature = m.signature
      BY <2>1, <3>1 DEF IsMessage
    <3>2. ASSUME NEW b, altered = [m EXCEPT !.body = b]
          PROVE  IsMessage(altered) /\ altered.signature = m.signature
      BY <2>1, <3>2 DEF IsMessage
    <3>3. ASSUME NEW b, altered = [m EXCEPT !.body = b, !.digest = b]
          PROVE  IsMessage(altered) /\ altered.signature = m.signature
      BY <2>1, <3>3 DEF IsMessage
    <3>4. ASSUME NEW a, altered = [m EXCEPT !.attestation = a]
          PROVE  IsMessage(altered) /\ altered.signature = m.signature
      BY <2>1, <3>4 DEF IsMessage
    <3>5. ASSUME NEW c, altered = [m EXCEPT !.input.components = @ \ {c}]
          PROVE  IsMessage(altered) /\ altered.signature = m.signature
      BY <2>1, <3>5 DEF IsMessage
    <3>6. ASSUME NEW a, altered = [m EXCEPT !.attestation = a, !.also = TRUE]
          PROVE  IsMessage(altered) /\ altered.signature = m.signature
      <4> DEFINE yes == TRUE
      <4>1. altered = [m EXCEPT !.attestation = a, !.also = yes]
        BY <3>6
      <4> HIDE DEF yes
      <4> QED
        BY <2>1, <4>1 DEF IsMessage
    <3>7. \/ \E u : altered = [m EXCEPT !.uri = u]
          \/ \E b : altered = [m EXCEPT !.body = b]
          \/ \E b : altered = [m EXCEPT !.body = b, !.digest = b]
          \/ \E a : altered = [m EXCEPT !.attestation = a]
          \/ \E a : altered = [m EXCEPT !.attestation = a, !.also = TRUE]
          \/ \E c : altered = [m EXCEPT !.input.components = @ \ {c}]
      BY DEF V!Changed
    <3> QED
      BY <3>1, <3>2, <3>3, <3>4, <3>5, <3>6, <3>7
  <2>5. WireInv'
    BY <2>2, <2>3, <2>4 DEF WireInv
  <2> QED
    BY <2>2, <2>5 DEF SentInv, V!AcceptedAsSigned, V!SignatureBase, V!Value, IsMessage
<1>4. ASSUME NEW m \in wire, NEW amount \in Cents, NEW required \in Requirements,
             V!Accept(m, amount, required)
      PROVE  VenuesInv'
  <2>1. /\ UNCHANGED <<wire, said>> /\ V!Verified(m, required) /\ V!Mentioned(m)
        /\ taken' = taken \cup {[msg |-> m, amount |-> amount, required |-> required,
                                 after |-> used["merchant"][m.attestation]]}
    BY <1>4 DEF V!Accept
  <2>2. PICK s \in said : m.signature = s.signature
    BY DEF WireInv
  <2>3. /\ m.input = s.input
        /\ \A c \in s.input.components : V!Value(m, c) = V!Value(s, c)
        /\ s.body # None => m.body = s.body
        /\ \/ m.attestation = s.attestation
           \/ "limit-attestation" \notin required \cup s.input.components /\ m.also
    BY <2>1, <2>2, VerifiedIsSigned DEF WireInv, SentInv
  <2>4. V!AcceptedAsSigned'
    <3> SUFFICES ASSUME NEW t \in taken'
                 PROVE  \E u \in said :
                            /\ t.msg.input = u.input
                            /\ \A c \in u.input.components : V!Value(t.msg, c) = V!Value(u, c)
                            /\ u.body # None => t.msg.body = u.body
                            /\ \/ t.msg.attestation = u.attestation
                               \/ /\ "limit-attestation" \notin t.required \cup u.input.components
                                  /\ t.msg.also
      BY <2>1 DEF V!AcceptedAsSigned, V!Value
    <3>1. CASE t \in taken
      BY <3>1 DEF V!AcceptedAsSigned
    <3>2. CASE t.msg = m /\ t.required = required
      BY <2>3, <3>2
    <3> QED
      BY <2>1, <3>1, <3>2
  <2>5. SentInv' /\ WireInv'
    BY <2>1 DEF SentInv, WireInv, V!SignatureBase, V!Value, IsMessage
  <2> QED
    BY <2>4, <2>5
<1>5. ASSUME NEW a \in Attested, V!Revoke(a) \/ \E micro \in Micros : V!Pay(a, micro)
      PROVE  UNCHANGED <<wire, said, taken>>
  BY <1>5 DEF V!Revoke, V!Pay
<1>6. V!Tick => UNCHANGED <<wire, said, taken>>
  BY DEF V!Tick
<1>7. UNCHANGED V!vars => UNCHANGED <<wire, said, taken>>
  BY DEF V!vars
<1> QED
  BY <1>1, <1>2, <1>3, <1>4, <1>5, <1>6, <1>7 DEF V!Next

\* What a merchant accepts is what the agent signed, for any requests and any number of
\* changes on their way (TapVerifier::verify, verify_content_digest).
THEOREM AcceptedIsAlwaysSigned == EdgeSpec => []AcceptedAsSigned
<1>1. EdgeInit => (part = "venues" => VenuesInv)
  BY Starts, VenuesInit
<1>2. (part = "venues" => VenuesInv) /\ [EdgeNext]_edgeVars => (part = "venues" => VenuesInv)'
  BY Steps, VenuesStep
<1>3. (part = "venues" => VenuesInv) => AcceptedAsSigned
  BY DEF VenuesInv, AcceptedAsSigned
<1> QED
  BY <1>1, <1>2, <1>3, PTL DEF EdgeSpec

-----------------------------------------------------------------------------
(* Passports.                                                               *)

\* Parent and Above of Passport, of any delegations.
ParentIn(dl, k) ==
    IF k = NoKey THEN NoKey ELSE IF dl[k] = NoDelegation THEN NoKey ELSE dl[k].from

AboveIn(dl, k) ==
    LET hop[n \in 0 .. MaxChainDepth] == IF n = 0 THEN k ELSE ParentIn(dl, hop[n - 1])
    IN  hop

\* The recursion of Above has a solution, so Above satisfies its own equation.
LEMMA AboveInDef ==
    ASSUME MaxChainDepth \in Nat, NEW dl, NEW k
    PROVE  \A n \in 0 .. MaxChainDepth :
               AboveIn(dl, k)[n] = IF n = 0 THEN k ELSE ParentIn(dl, AboveIn(dl, k)[n - 1])
<1> DEFINE N == MaxChainDepth
           Unfold(f) == [n \in 0 .. N |-> IF n = 0 THEN k ELSE ParentIn(dl, f[n - 1])]
           sol == CHOOSE f : f = Unfold(f)
           Good(f, n) == \A i \in 0 .. n : f[i] = IF i = 0 THEN k ELSE ParentIn(dl, f[i - 1])
           Bad == {n \in 0 .. N : ~ \E f : Good(f, n)}
<1>1. AboveIn(dl, k) = sol
  BY DEF AboveIn
<1>2. 0 \notin Bad
  <2>1. Good([i \in 0 .. N |-> k], 0)
    OBVIOUS
  <2> QED
    BY <2>1
<1>3. ASSUME NEW n \in Nat, n + 1 <= N, NEW f, Good(f, n)
      PROVE  \E h : Good(h, n + 1)
  <2> DEFINE h == [i \in 0 .. N |-> IF i <= n THEN f[i] ELSE ParentIn(dl, f[n])]
  <2>1. ASSUME NEW i \in 0 .. n + 1
        PROVE  h[i] = IF i = 0 THEN k ELSE ParentIn(dl, h[i - 1])
    <3>1. CASE i <= n
      <4>1. h[i] = f[i] /\ (i # 0 => h[i - 1] = f[i - 1])
        BY <1>3, <3>1
      <4> QED
        BY <1>3, <3>1, <4>1
    <3>2. CASE i = n + 1
      <4>1. h[i] = ParentIn(dl, f[n]) /\ h[i - 1] = f[n]
        BY <1>3, <3>2
      <4> QED
        BY <1>3, <3>2, <4>1
    <3> QED
      BY <1>3, <3>1, <3>2
  <2> QED
    BY <2>1
<1>4. Bad = {}
  <2> SUFFICES ASSUME Bad # {} PROVE FALSE
    OBVIOUS
  <2>1. PICK n \in Bad : \A m \in Bad : n <= m
    <3>1. Bad \in SUBSET Nat
      OBVIOUS
    <3> HIDE DEF Bad
    <3> QED
      BY <3>1, LeastNumber
  <2>2. n \in 0 .. N /\ n # 0
    BY <1>2
  <2>3. n - 1 \in Nat /\ n - 1 \in 0 .. N /\ (n - 1) + 1 = n
    BY <2>2
  <2>4. n - 1 \notin Bad
    <3>1. ~ (n <= n - 1)
      BY <2>2
    <3> HIDE DEF Bad
    <3> QED
      BY <2>1, <3>1
  <2>5. PICK f : Good(f, n - 1)
    BY <2>3, <2>4
  <2>6. \E h : Good(h, (n - 1) + 1)
    <3> HIDE DEF Good
    <3> QED
      BY <1>3, <2>2, <2>3, <2>5
  <2> QED
    BY <2>1, <2>3, <2>6
<1>5. PICK f : Good(f, N)
  <2>1. N \in 0 .. N
    OBVIOUS
  <2> HIDE DEF Good
  <2> QED
    BY <1>4, <2>1
<1>6. [i \in 0 .. N |-> f[i]] = Unfold([i \in 0 .. N |-> f[i]])
  BY <1>5
<1>7. sol = Unfold(sol)
  BY <1>6
<1> HIDE DEF sol
<1> QED
  BY <1>1, <1>7

LEMMA SameAbove ==
    /\ \A k : D!Above(k) = AboveIn(delegations, k) /\ D!Parent(k) = ParentIn(delegations, k)
    /\ \A k : D!Above(k)' = AboveIn(delegations', k)
  BY DEF D!Above, D!Parent, AboveIn, ParentIn

LEMMA AboveDef ==
    ASSUME MaxChainDepth \in Nat, NEW k
    PROVE  \A n \in 0 .. MaxChainDepth :
               D!Above(k)[n] = IF n = 0 THEN k ELSE D!Parent(D!Above(k)[n - 1])
  BY AboveInDef, SameAbove

\* What is above a key is above the one it has its delegation from, a hop less.
LEMMA AboveParent ==
    ASSUME MaxChainDepth \in Nat, NEW k
    PROVE  \A n \in 0 .. MaxChainDepth :
               n + 1 <= MaxChainDepth => D!Above(k)[n + 1] = D!Above(D!Parent(k))[n]
<1> DEFINE p == D!Parent(k)
           Bad == {n \in 0 .. MaxChainDepth : /\ n + 1 <= MaxChainDepth
                                              /\ D!Above(k)[n + 1] # D!Above(p)[n]}
<1> SUFFICES ASSUME Bad # {} PROVE FALSE
  OBVIOUS
<1>1. PICK n \in Bad : \A m \in Bad : n <= m
  <2>1. Bad \in SUBSET Nat
    OBVIOUS
  <2> HIDE DEF Bad
  <2> QED
    BY <2>1, LeastNumber
<1>2. /\ n \in Nat /\ n + 1 \in 0 .. MaxChainDepth /\ n + 1 # 0 /\ (n + 1) - 1 = n
      /\ D!Above(k)[n + 1] # D!Above(p)[n]
  OBVIOUS
<1>3. D!Above(k)[n + 1] = D!Parent(D!Above(k)[n])
  BY <1>2, AboveDef
<1>4. CASE n = 0
  <2>1. D!Above(k)[0] = k /\ D!Above(p)[0] = p
    BY AboveDef
  <2> QED
    BY <1>2, <1>3, <1>4, <2>1
<1>5. CASE n # 0
  <2>1. n - 1 \in 0 .. MaxChainDepth /\ (n - 1) + 1 = n /\ n \in 0 .. MaxChainDepth
        /\ ~ (n <= n - 1) /\ n <= MaxChainDepth
    BY <1>2, <1>5
  <2>2. D!Above(k)[n] = D!Above(p)[n - 1]
    <3>1. n - 1 \notin Bad
      <4> HIDE DEF Bad
      <4> QED
        BY <1>1, <2>1
    <3> QED
      BY <2>1, <3>1
  <2>3. D!Above(p)[n] = D!Parent(D!Above(p)[n - 1])
    BY <1>5, <2>1, AboveDef
  <2> QED
    BY <1>2, <1>3, <2>2, <2>3
<1> QED
  BY <1>4, <1>5

\* A chain has one length: only its last key is a principal's.
LEMMA OneLength ==
    ASSUME NEW k, NEW n \in Nat, NEW m \in Nat, D!ResolvesIn(k, n), D!ResolvesIn(k, m)
    PROVE  n = m
<1>1. CASE n < m
  <2>1. n \in 0 .. m - 1
    BY <1>1
  <2> QED
    BY <2>1 DEF D!ResolvesIn
<1>2. CASE m < n
  <2>1. m \in 0 .. n - 1
    BY <1>2
  <2> QED
    BY <2>1 DEF D!ResolvesIn
<1> QED
  BY <1>1, <1>2

LEMMA HopsOf ==
    ASSUME D!PassportAssumption, NEW k, D!Resolves(k)
    PROVE  /\ D!Hops(k) \in 0 .. MaxChainDepth - 1 /\ D!ResolvesIn(k, D!Hops(k))
           /\ \A n \in 0 .. MaxChainDepth - 1 : D!ResolvesIn(k, n) => D!Hops(k) = n
<1>1. D!Hops(k) \in 0 .. MaxChainDepth - 1 /\ D!ResolvesIn(k, D!Hops(k))
  BY DEF D!Hops, D!Resolves
<1> QED
  BY <1>1, OneLength DEF D!PassportAssumption

\* Delegations, by their type, lead from keys to keys.
LEMMA AboveType ==
    ASSUME MaxChainDepth \in Nat, NEW k \in KeyId,
           delegations \in [KeyId -> D!Delegation \cup {NoDelegation}]
    PROVE  \A n \in 0 .. MaxChainDepth : D!Above(k)[n] \in KeyId \cup {NoKey}
<1> DEFINE Bad == {n \in 0 .. MaxChainDepth : D!Above(k)[n] \notin KeyId \cup {NoKey}}
<1> SUFFICES ASSUME Bad # {} PROVE FALSE
  OBVIOUS
<1>1. PICK n \in Bad : \A m \in Bad : n <= m
  <2>1. Bad \in SUBSET Nat
    OBVIOUS
  <2> HIDE DEF Bad
  <2> QED
    BY <2>1, LeastNumber
<1>2. n \in 0 .. MaxChainDepth /\ D!Above(k)[n] \notin KeyId \cup {NoKey}
  OBVIOUS
<1>3. n # 0 /\ D!Above(k)[n] = D!Parent(D!Above(k)[n - 1])
  BY <1>2, AboveDef
<1>4. n - 1 \in 0 .. MaxChainDepth /\ ~ (n <= n - 1)
  BY <1>2, <1>3
<1>5. D!Above(k)[n - 1] \in KeyId \cup {NoKey}
  <2>1. n - 1 \notin Bad
    <3> HIDE DEF Bad
    <3> QED
      BY <1>1, <1>4
  <2> QED
    BY <1>4, <2>1
<1>6. \A c \in KeyId \cup {NoKey} : D!Parent(c) \in KeyId \cup {NoKey}
  BY DEF D!Parent, D!Delegation
<1> QED
  BY <1>2, <1>3, <1>5, <1>6

\* What is kept of a key that was cut off: the keys on its way to the revoked one are
\* where they were, and the last of them has its delegation from the revoked key pair.
Remembered(s) ==
    \E i \in 0 .. MaxChainDepth - 1 :
        /\ D!Above(s.key)[i] = s.at
        /\ \A m \in 0 .. i - 1 : D!Above(s.key)[m] \in s.path /\ D!Above(s.key)[m] # s.at
        /\ i = 0 => keys[s.at].public_key = s.by
        /\ i # 0 => LET c == D!Above(s.key)[i - 1]
                    IN  delegations[c] # NoDelegation /\ delegations[c].signed_by = s.by

Severed == [key : KeyId, at : KeyId, by : PublicKey, path : SUBSET KeyId]

SeveredInv == \A s \in severed : s.key \in s.path /\ Remembered(s)

PassportInv == D!TypeOK /\ SeveredInv

LEMMA PassportInit == ASSUME D!Init PROVE PassportInv
  BY DEF D!Init, PassportInv, SeveredInv, D!TypeOK

LEMMA StillRemembered ==
    ASSUME MaxChainDepth \in Nat, NoKey \notin KeyId, NEW s \in Severed,
           s.key \in s.path, Remembered(s),
           \A c \in s.path : /\ delegations'[c] = delegations[c]
                            /\ keys'[c].public_key = keys[c].public_key
    PROVE  Remembered(s)'
<1> DEFINE U == D!Above(s.key)
           W == D!Above(s.key)'
<1>1. PICK i \in 0 .. MaxChainDepth - 1 :
          /\ U[i] = s.at
          /\ \A m \in 0 .. i - 1 : U[m] \in s.path /\ U[m] # s.at
          /\ i = 0 => keys[s.at].public_key = s.by
          /\ i # 0 => delegations[U[i - 1]] # NoDelegation /\ delegations[U[i - 1]].signed_by = s.by
  BY DEF Remembered
<1>2. /\ \A n \in 0 .. MaxChainDepth :
             U[n] = IF n = 0 THEN s.key ELSE ParentIn(delegations, U[n - 1])
      /\ \A n \in 0 .. MaxChainDepth :
             W[n] = IF n = 0 THEN s.key ELSE ParentIn(delegations', W[n - 1])
  BY AboveInDef, SameAbove
<1>3. s.path \subseteq KeyId
  BY DEF Severed
<1> HIDE DEF U, W
<1>4. \A m \in 0 .. i : W[m] = U[m]
  <2> DEFINE Bad == {m \in 0 .. i : W[m] # U[m]}
  <2> SUFFICES ASSUME Bad # {} PROVE FALSE
    OBVIOUS
  <2>1. PICK n \in Bad : \A m \in Bad : n <= m
    <3>1. Bad \in SUBSET Nat
      OBVIOUS
    <3> HIDE DEF Bad
    <3> QED
      BY <3>1, LeastNumber
  <2>2. n \in 0 .. MaxChainDepth /\ n \in 0 .. i /\ W[n] # U[n]
    OBVIOUS
  <2>3. n # 0 /\ n - 1 \in 0 .. i - 1 /\ n - 1 \in 0 .. i /\ ~ (n <= n - 1)
    BY <1>2, <2>2
  <2>4. W[n - 1] = U[n - 1]
    <3>1. n - 1 \notin Bad
      <4> HIDE DEF Bad
      <4> QED
        BY <2>1, <2>3
    <3> QED
      BY <2>3, <3>1
  <2>5. U[n - 1] \in s.path
    BY <1>1, <2>3
  <2>6. ParentIn(delegations', U[n - 1]) = ParentIn(delegations, U[n - 1])
    BY <2>5 DEF ParentIn
  <2> QED
    BY <1>2, <2>2, <2>3, <2>4, <2>6
<1>5. /\ W[i] = s.at
      /\ \A m \in 0 .. i - 1 : W[m] \in s.path /\ W[m] # s.at
  BY <1>1, <1>4
<1>6. i = 0 => keys'[s.at].public_key = s.by
  BY <1>1, <1>2
<1>7. i # 0 => delegations'[W[i - 1]] # NoDelegation /\ delegations'[W[i - 1]].signed_by = s.by
  <2> SUFFICES ASSUME i # 0
               PROVE  delegations'[W[i - 1]] # NoDelegation
                      /\ delegations'[W[i - 1]].signed_by = s.by
    OBVIOUS
  <2>1. i - 1 \in 0 .. i - 1 /\ i - 1 \in 0 .. i
    OBVIOUS
  <2> QED
    BY <1>1, <1>4, <2>1
<1> QED
  BY <1>5, <1>6, <1>7 DEF Remembered, W

\* What is cut off now is remembered.
LEMMA CutIsRemembered ==
    ASSUME D!PassportAssumption, D!TypeOK, NEW k \in KeyId, keys[k] # NoKey, NEW s \in D!Cut(k)
    PROVE  s \in Severed /\ s.key \in s.path /\ Remembered(s)
<1>1. PICK j \in KeyId : /\ D!Resolves(j) /\ k \in D!Holders(j)
                         /\ s = [key |-> j, at |-> k, by |-> keys[k].public_key,
                                 path |-> D!Below(k, j)]
  BY DEF D!Cut
<1> DEFINE n == D!Hops(j)
           U == D!Above(j)
           I == {i \in 0 .. n : U[i] = k}
<1>2. /\ MaxChainDepth \in Nat \ {0} /\ NoKey \notin KeyId
      /\ delegations \in [KeyId -> D!Delegation \cup {NoDelegation}]
      /\ keys[k].public_key \in PublicKey
  BY DEF D!PassportAssumption, D!TypeOK, D!PassportKey
<1>3. n \in 0 .. MaxChainDepth - 1 /\ D!ResolvesIn(j, n)
  BY <1>1, HopsOf
<1>4. \A i \in 0 .. MaxChainDepth : U[i] = IF i = 0 THEN j ELSE D!Parent(U[i - 1])
  BY <1>2, AboveDef
<1>5. \A i \in 0 .. n : U[i] \in KeyId /\ i \in 0 .. MaxChainDepth
  <2>1. \A i \in 0 .. n : U[i] # NoKey
    BY <1>3 DEF D!ResolvesIn, D!IsKey
  <2> QED
    BY <1>2, <1>3, <2>1, AboveType
<1>6. I # {}
  BY <1>1 DEF D!Holders
<1>7. PICK i \in I : \A m \in I : i <= m
  <2>1. I \in SUBSET Nat
    BY <1>3
  <2> HIDE DEF I
  <2> QED
    BY <1>6, <2>1, LeastNumber
<1>8. i \in 0 .. n /\ U[i] = k /\ \A m \in 0 .. i - 1 : m \in 0 .. n /\ U[m] # k
  <2>1. i \in 0 .. n /\ U[i] = k
    OBVIOUS
  <2>2. \A m \in 0 .. i - 1 : m \in 0 .. n /\ ~ (i <= m)
    BY <1>3, <2>1
  <2>3. \A m \in 0 .. i - 1 : m \notin I
    <3> HIDE DEF I
    <3> QED
      BY <1>7, <2>2
  <2> QED
    BY <2>1, <2>2, <2>3
<1> HIDE DEF I
<1>9. s.path = {j} \cup {U[m] : m \in {x \in 0 .. n : \A y \in 0 .. x : U[y] # k}}
  BY <1>1 DEF D!Below
<1>10. s \in Severed
  <2>1. D!Below(k, j) \subseteq KeyId
    BY <1>1, <1>5, <1>9
  <2> QED
    BY <1>1, <1>2, <2>1 DEF Severed
<1>11. \A m \in 0 .. i - 1 : U[m] \in s.path /\ U[m] # k
  <2> SUFFICES ASSUME NEW m \in 0 .. i - 1 PROVE U[m] \in s.path
    BY <1>8
  <2>1. m \in 0 .. n /\ \A y \in 0 .. m : U[y] # k
    <3>1. \A y \in 0 .. m : y \in 0 .. i - 1
      BY <1>3, <1>8
    <3> QED
      BY <1>8, <3>1
  <2> QED
    BY <1>9, <2>1
<1>12. i # 0 => delegations[U[i - 1]] # NoDelegation /\ delegations[U[i - 1]].signed_by = s.by
  <2> SUFFICES ASSUME i # 0
               PROVE  delegations[U[i - 1]] # NoDelegation
                      /\ delegations[U[i - 1]].signed_by = s.by
    OBVIOUS
  <2> DEFINE c == U[i - 1]
  <2>1. i - 1 \in 0 .. n - 1 /\ i - 1 \in 0 .. n /\ i \in 0 .. MaxChainDepth
    BY <1>2, <1>3, <1>8
  <2>2. D!HopHolds(c) /\ c \in KeyId
    BY <1>3, <1>5, <2>1 DEF D!ResolvesIn
  <2>3. D!Parent(c) = k
    BY <1>4, <1>8, <2>1
  <2> HIDE DEF c
  <2>4. delegations[c].from = k /\ delegations[c] # NoDelegation
    BY <1>2, <2>2, <2>3 DEF D!Parent, D!HopHolds
  <2>5. delegations[c].signed_by = keys[k].public_key
    BY <2>2, <2>4 DEF D!HopHolds, D!VerifiesUnder
  <2> QED
    BY <1>1, <2>4, <2>5 DEF c
<1>13. i \in 0 .. MaxChainDepth - 1
  BY <1>2, <1>3, <1>8
<1>14. s.key = j /\ s.at = k /\ s.by = keys[k].public_key /\ j \in s.path
  BY <1>1, <1>9
<1> QED
  BY <1>8, <1>10, <1>11, <1>12, <1>13, <1>14 DEF Remembered

\* A step that cuts off, forgets what is delegated to anew, and changes no key and no
\* delegation on the way of what it keeps.
LEMMA SeveredKept ==
    ASSUME D!PassportAssumption, PassportInv, D!TypeOK',
           \A s \in severed' :
               s \in severed \/ (s \in Severed /\ s.key \in s.path /\ Remembered(s)),
           \A s \in severed' : \A c \in s.path : c \in KeyId =>
               /\ delegations'[c] = delegations[c]
               /\ keys'[c].public_key = keys[c].public_key
    PROVE  PassportInv'
<1>1. \A s \in severed' : s \in Severed /\ s.key \in s.path /\ Remembered(s)
  BY DEF PassportInv, SeveredInv, D!TypeOK, Severed
<1>2. \A s \in severed' : Remembered(s)'
  <2> SUFFICES ASSUME NEW s \in severed' PROVE Remembered(s)'
    OBVIOUS
  <2>1. s.path \subseteq KeyId /\ MaxChainDepth \in Nat /\ NoKey \notin KeyId
    BY <1>1 DEF Severed, D!PassportAssumption
  <2> QED
    BY <1>1, <2>1, StillRemembered
<1> QED
  BY <1>1, <1>2 DEF PassportInv, SeveredInv

\* The same, of a step that changes nothing but what is at one id (or at none).
LEMMA SeveredShrinks ==
    ASSUME D!PassportAssumption, PassportInv, D!TypeOK', severed' \subseteq severed, NEW k,
           \A s \in severed' : k \notin s.path,
           \A c \in KeyId : c # k => /\ delegations'[c] = delegations[c]
                                      /\ keys'[c].public_key = keys[c].public_key
    PROVE  PassportInv'
<1>1. \A s \in severed' : \A c \in s.path : c \in KeyId =>
          delegations'[c] = delegations[c] /\ keys'[c].public_key = keys[c].public_key
  OBVIOUS
<1>2. \A s \in severed' :
          s \in severed \/ (s \in Severed /\ s.key \in s.path /\ Remembered(s))
  OBVIOUS
<1> QED
  BY <1>1, <1>2, SeveredKept

LEMMA FreshType ==
    ASSUME D!PassportAssumption, now \in Nat, NEW role \in Role \cup {"principal"},
           NEW pub \in PublicKey, NEW until \in Nat \cup {Forever}
    PROVE  D!Fresh(role, pub, until) \in D!PassportKey
  BY DEF D!Fresh, D!PassportKey

\* A key pair's delegation descends from what its grantor's did, and has one scope more.
LEMMA TrailType ==
    ASSUME D!PassportAssumption, D!TypeOK, [D!Next]_(D!vars)
    PROVE  trail' \in [KeyId -> SUBSET D!Scope]
<1>1. trail \in [KeyId -> SUBSET D!Scope]
  BY DEF D!TypeOK
<1>2. CASE UNCHANGED trail
  BY <1>1, <1>2
<1>3. ASSUME NEW parent \in KeyId, NEW k \in KeyId, NEW scope \in Scopes,
             trail' = [trail EXCEPT ![k] = trail[parent] \cup {scope}]
      PROVE  trail' \in [KeyId -> SUBSET D!Scope]
  <2>1. trail[parent] \cup {scope} \in SUBSET D!Scope
    BY <1>1 DEF D!PassportAssumption
  <2> QED
    BY <1>1, <1>3, <2>1
<1>4. ASSUME NEW old \in KeyId, NEW new \in KeyId, trail' = [trail EXCEPT ![new] = trail[old]]
      PROVE  trail' \in [KeyId -> SUBSET D!Scope]
  BY <1>1, <1>4
<1>5. CASE \E k \in KeyId, pub \in PublicKey : D!SetPrincipalKey(k, pub)
  BY <1>2, <1>5 DEF D!SetPrincipalKey
<1>6. CASE \E k \in KeyId, pub \in PublicKey, old \in KeyId : D!RotatePrincipal(old, k, pub)
  BY <1>2, <1>6 DEF D!RotatePrincipal
<1>7. CASE \E k \in KeyId, pub \in PublicKey, old \in KeyId, signer \in PublicKey :
               D!RotateKey(old, k, pub, signer)
  BY <1>4, <1>7 DEF D!RotateKey
<1>8. CASE \E k \in KeyId, pub \in PublicKey, parent \in KeyId, signer \in PublicKey,
              role \in Role, scope \in Scopes, ttl \in Lifetimes :
               D!Delegate(parent, signer, k, pub, role, scope, ttl)
  BY <1>3, <1>8 DEF D!Delegate
<1>9. CASE \E k \in KeyId : D!RevokeKey(k)
  BY <1>2, <1>9 DEF D!RevokeKey
<1>10. CASE D!Tick \/ UNCHANGED D!vars
  BY <1>2, <1>10 DEF D!Tick, D!vars
<1> QED
  BY <1>5, <1>6, <1>7, <1>8, <1>9, <1>10 DEF D!Next

LEMMA PassportStep ==
    ASSUME D!PassportAssumption, PassportInv, [D!Next]_(D!vars)
    PROVE  PassportInv'
<1>trail. trail' \in [KeyId -> SUBSET D!Scope]
  BY TrailType DEF PassportInv
<1> DEFINE Keys == [KeyId -> D!PassportKey \cup {NoKey}]
           Given == [KeyId -> D!Delegation \cup {NoDelegation}]
<1>1. /\ now \in Nat /\ keys \in Keys /\ delegations \in Given
      /\ principal_key_id \in KeyId \cup {NoKey} /\ granted \in Nat /\ retirements \in Nat
      /\ severed \subseteq Severed
  BY DEF PassportInv, D!TypeOK, Severed
<1>2. \A key \in D!PassportKey :
          /\ [key EXCEPT !.revoked = TRUE] \in D!PassportKey
          /\ [key EXCEPT !.revoked = TRUE].public_key = key.public_key
  BY DEF D!PassportKey
<1>3. ASSUME NEW k \in KeyId, keys[k] # NoKey
      PROVE  \A s \in D!Cut(k) : s \in Severed /\ s.key \in s.path /\ Remembered(s)
  BY <1>3, CutIsRemembered DEF PassportInv
<1>4. ASSUME UNCHANGED <<keys, delegations, principal_key_id, granted, retirements, severed>>,
             now' \in Nat
      PROVE  PassportInv'
  <2>1. D!TypeOK'
    BY <1>trail, <1>4 DEF PassportInv, D!TypeOK
  <2>2. \A s \in severed' : NoKey \notin s.path
    <3>1. NoKey \notin KeyId
      BY DEF D!PassportAssumption
    <3> QED
      BY <1>1, <1>4, <3>1 DEF Severed
  <2>3. \A c \in KeyId : c # NoKey => /\ delegations'[c] = delegations[c]
                                      /\ keys'[c].public_key = keys[c].public_key
    BY <1>4
  <2> QED
    BY <1>4, <2>1, <2>2, <2>3, SeveredShrinks
<1>5. ASSUME NEW k \in KeyId, NEW pub \in PublicKey, D!SetPrincipalKey(k, pub)
      PROVE  PassportInv'
  <2> DEFINE key == D!Fresh("principal", pub, Forever)
  <2>1. /\ keys' = [keys EXCEPT ![k] = key] /\ principal_key_id' = k
        /\ severed' = D!Without(k, severed) /\ UNCHANGED <<now, delegations, granted, retirements>>
    BY <1>5 DEF D!SetPrincipalKey
  <2>2. key \in D!PassportKey
    BY <1>1, FreshType
  <2> HIDE DEF key
  <2>3. severed' \subseteq severed /\ \A s \in severed' : k \notin s.path
    BY <2>1 DEF D!Without
  <2>4. keys' \in Keys /\ \A c \in KeyId : c # k => keys'[c] = keys[c]
    BY <1>1, <2>1, <2>2
  <2>5. D!TypeOK'
    BY <1>trail, <1>1, <2>1, <2>3, <2>4 DEF D!TypeOK, Severed
  <2> QED
    <3>1. \A c \in KeyId : c # k => /\ delegations'[c] = delegations[c]
                                     /\ keys'[c].public_key = keys[c].public_key
      BY <2>1, <2>4
    <3> QED
      BY <2>3, <2>5, <3>1, SeveredShrinks
<1>6. ASSUME NEW parent \in KeyId, NEW signer \in PublicKey, NEW k \in KeyId,
             NEW pub \in PublicKey, NEW role \in Role, NEW scope \in Scopes, NEW ttl \in Lifetimes,
             D!Delegate(parent, signer, k, pub, role, scope, ttl)
      PROVE  PassportInv'
  <2> DEFINE key == D!Fresh(role, pub, now + ttl)
             d == [from |-> parent, scope |-> scope, issued_at |-> now,
                   expires_at |-> now + ttl, signed_by |-> signer]
  <2>1. /\ keys' = [keys EXCEPT ![k] = key] /\ delegations' = [delegations EXCEPT ![k] = d]
        /\ severed' = D!Without(k, severed) /\ granted' = granted + 1
        /\ UNCHANGED <<now, principal_key_id, retirements>>
    BY <1>6 DEF D!Delegate, D!Granting
  <2>2. now + ttl \in Nat /\ scope \in D!Scope
    BY <1>1 DEF D!PassportAssumption
  <2>3. key \in D!PassportKey
    BY <1>1, <2>2, FreshType
  <2>4. d \in D!Delegation
    BY <1>1, <2>2 DEF D!Delegation
  <2> HIDE DEF key, d
  <2>5. severed' \subseteq severed /\ \A s \in severed' : k \notin s.path
    BY <2>1 DEF D!Without
  <2>6. /\ keys' \in Keys /\ \A c \in KeyId : c # k => keys'[c] = keys[c]
        /\ delegations' \in Given /\ \A c \in KeyId : c # k => delegations'[c] = delegations[c]
    BY <1>1, <2>1, <2>3, <2>4
  <2>7. D!TypeOK'
    BY <1>trail, <1>1, <2>1, <2>5, <2>6 DEF D!TypeOK, Severed
  <2> QED
    <3>1. \A c \in KeyId : c # k => /\ delegations'[c] = delegations[c]
                                     /\ keys'[c].public_key = keys[c].public_key
      BY <2>6
    <3> QED
      BY <2>5, <2>7, <3>1, SeveredShrinks
<1>7. ASSUME NEW k \in KeyId, D!RevokeKey(k) PROVE PassportInv'
  <2>1. /\ keys[k] # NoKey /\ keys' = [keys EXCEPT ![k] = [keys[k] EXCEPT !.revoked = TRUE]]
        /\ severed' = severed \cup D!Cut(k) /\ retirements' = retirements + 1
        /\ UNCHANGED <<now, delegations, principal_key_id, granted>>
    BY <1>7 DEF D!RevokeKey, D!Retiring
  <2>2. keys' \in Keys /\ \A c \in KeyId : keys'[c].public_key = keys[c].public_key
    BY <1>1, <1>2, <2>1
  <2>3. D!TypeOK'
    BY <1>trail, <1>1, <1>3, <2>1, <2>2 DEF D!TypeOK, Severed
  <2>4. \A s \in severed' :
            s \in severed \/ (s \in Severed /\ s.key \in s.path /\ Remembered(s))
    BY <1>3, <2>1
  <2>5. \A s \in severed' : \A c \in s.path : c \in KeyId =>
            delegations'[c] = delegations[c] /\ keys'[c].public_key = keys[c].public_key
    BY <2>1, <2>2
  <2> QED
    BY <2>3, <2>4, <2>5, SeveredKept
\* Both rotations give one id a fresh key, and revoke the old one last.
<1>8. ASSUME NEW old \in KeyId, NEW new \in KeyId, NEW key \in D!PassportKey, keys[old] # NoKey,
             keys' = [[keys EXCEPT ![new] = key] EXCEPT ![old].revoked = TRUE],
             severed' = D!Without(new, severed \cup D!Cut(old)),
             delegations' \in Given, \A c \in KeyId : c # new => delegations'[c] = delegations[c],
             principal_key_id' \in KeyId \cup {NoKey}, UNCHANGED <<now, granted>>,
             retirements' = retirements + 1
      PROVE  PassportInv'
  <2>1. severed' \subseteq severed \cup D!Cut(old) /\ \A s \in severed' : new \notin s.path
    BY <1>8 DEF D!Without
  <2> DEFINE between == [keys EXCEPT ![new] = key]
  <2>2. /\ between \in Keys /\ between[old] \in D!PassportKey
        /\ \A c \in KeyId : c # new => between[c] = keys[c]
    BY <1>1, <1>8
  <2>3. keys' = [between EXCEPT ![old] = [between[old] EXCEPT !.revoked = TRUE]]
    BY <1>8
  <2> HIDE DEF between
  <2>4. keys' \in Keys /\ \A c \in KeyId : c # new => keys'[c].public_key = keys[c].public_key
    BY <1>2, <2>2, <2>3
  <2>5. \A s \in severed' :
            s \in severed \/ (s \in Severed /\ s.key \in s.path /\ Remembered(s))
    <3>1. \A s \in D!Cut(old) : s \in Severed /\ s.key \in s.path /\ Remembered(s)
      BY <1>3, <1>8
    <3> QED
      BY <2>1, <3>1
  <2>6. severed' \subseteq Severed
    BY <1>1, <2>5
  <2>7. D!TypeOK'
    <3>1. now' \in Nat /\ granted' \in Nat /\ retirements' \in Nat
      BY <1>1, <1>8
    <3>2. keys' \in Keys /\ delegations' \in Given /\ principal_key_id' \in KeyId \cup {NoKey}
      BY <1>8, <2>4
    <3> HIDE DEF Keys
    <3> QED
      BY <1>trail, <2>6, <3>1, <3>2 DEF D!TypeOK, Severed, Keys
  <2>8. \A s \in severed' : \A c \in s.path : c \in KeyId =>
            delegations'[c] = delegations[c] /\ keys'[c].public_key = keys[c].public_key
    BY <1>8, <2>1, <2>4
  <2> QED
    BY <2>5, <2>7, <2>8, SeveredKept
<1>9. ASSUME NEW old \in KeyId, NEW new \in KeyId, NEW pub \in PublicKey,
             D!RotatePrincipal(old, new, pub)
      PROVE  PassportInv'
  <2> DEFINE key == D!Fresh("principal", pub, Forever)
  <2>1. key \in D!PassportKey
    BY <1>1, FreshType
  <2> HIDE DEF key
  <2>2. /\ keys[old] # NoKey
        /\ keys' = [[keys EXCEPT ![new] = key] EXCEPT ![old].revoked = TRUE]
        /\ severed' = D!Without(new, severed \cup D!Cut(old))
        /\ principal_key_id' = new /\ retirements' = retirements + 1
        /\ UNCHANGED <<now, granted, delegations>>
    BY <1>9 DEF D!RotatePrincipal, D!Retiring, key
  <2> QED
    BY <1>1, <1>8, <2>1, <2>2
<1>10. ASSUME NEW old \in KeyId, NEW new \in KeyId, NEW pub \in PublicKey, NEW signer \in PublicKey,
              D!RotateKey(old, new, pub, signer)
       PROVE  PassportInv'
  <2> DEFINE key == D!Fresh(keys[old].role, pub, keys[old].not_after)
             d == [delegations[old] EXCEPT !.issued_at = now, !.signed_by = signer]
  <2>1. keys[old] \in D!PassportKey /\ delegations[old] \in D!Delegation
    BY <1>1, <1>10 DEF D!RotateKey
  <2>2. key \in D!PassportKey
    BY <1>1, <2>1, FreshType DEF D!PassportKey
  <2>3. d \in D!Delegation
    BY <1>1, <2>1 DEF D!Delegation
  <2> HIDE DEF key, d
  <2>4. /\ keys[old] # NoKey
        /\ keys' = [[keys EXCEPT ![new] = key] EXCEPT ![old].revoked = TRUE]
        /\ delegations' = [delegations EXCEPT ![new] = d]
        /\ severed' = D!Without(new, severed \cup D!Cut(old))
        /\ retirements' = retirements + 1 /\ UNCHANGED <<now, granted, principal_key_id>>
    BY <1>10 DEF D!RotateKey, D!Retiring, key, d
  <2>5. delegations' \in Given /\ \A c \in KeyId : c # new => delegations'[c] = delegations[c]
    BY <1>1, <2>3, <2>4
  <2> QED
    BY <1>1, <1>8, <2>2, <2>4, <2>5
<1>11. CASE D!Tick
  <2>1. now' \in Nat
    BY <1>1, <1>11 DEF D!Tick
  <2> QED
    BY <1>4, <1>11, <2>1 DEF D!Tick, D!state
<1>12. CASE UNCHANGED D!vars
  BY <1>1, <1>4, <1>12 DEF D!vars, D!state
<1> QED
  BY <1>5, <1>6, <1>7, <1>9, <1>10, <1>11, <1>12 DEF D!Next

LEMMA PassportAlways == EdgeSpec => [](part = "passport" => PassportInv)
<1>1. EdgeInit => (part = "passport" => PassportInv)
  BY Starts, PassportInit
<1>2. (part = "passport" => PassportInv) /\ [EdgeNext]_edgeVars
      => (part = "passport" => PassportInv)'
  BY Steps, PassportStep, EdgeAssumption
<1> QED
  BY <1>1, <1>2, PTL DEF EdgeSpec

\* A passport holds what its type says, whatever is delegated, rotated and revoked.
THEOREM PassportTypeCorrect == EdgeSpec => [](part = "passport" => D!TypeOK)
<1>1. (part = "passport" => PassportInv) => (part = "passport" => D!TypeOK)
  BY DEF PassportInv
<1> QED
  BY <1>1, PassportAlways, PTL

\* Narrowing is an order of scopes, and keeps within what the wider one permits.
LEMMA NarrowsItself ==
    ASSUME NEW a \in D!Scope PROVE D!EnsureNarrows(a, a)
<1>1. ASSUME NEW m \in D!Money \cup {Unset} PROVE D!BoundNarrows(m, m)
  BY <1>1 DEF D!BoundNarrows, D!Money
<1> QED
  BY <1>1 DEF D!Scope, D!EnsureNarrows, D!ListNarrows

LEMMA NarrowsThrough ==
    ASSUME NEW a \in D!Scope, NEW b \in D!Scope, NEW c \in D!Scope,
           D!EnsureNarrows(a, b), D!EnsureNarrows(b, c)
    PROVE  D!EnsureNarrows(a, c)
<1>1. ASSUME NEW m \in D!Money \cup {Unset}, NEW n \in D!Money \cup {Unset},
             NEW o \in D!Money \cup {Unset}, D!BoundNarrows(m, n), D!BoundNarrows(n, o)
      PROVE  D!BoundNarrows(m, o)
  BY <1>1 DEF D!BoundNarrows, D!Money
<1>2. ASSUME NEW x, NEW y, NEW z, D!ListNarrows(x, y), D!ListNarrows(y, z)
      PROVE  D!ListNarrows(x, z)
  BY <1>2 DEF D!ListNarrows
<1>3. /\ D!BoundNarrows(a.max_single, c.max_single)
      /\ D!BoundNarrows(a.max_total, c.max_total)
  BY <1>1 DEF D!Scope, D!EnsureNarrows
<1>4. /\ D!ListNarrows(a.actions, c.actions)
      /\ D!ListNarrows(a.chains, c.chains)
      /\ D!ListNarrows(a.asset_classes, c.asset_classes)
  BY <1>2 DEF D!EnsureNarrows
<1> QED
  BY <1>3, <1>4 DEF D!EnsureNarrows

LEMMA NarrowsPermits ==
    ASSUME D!ScopeAssumption, NEW a \in D!Scope, NEW b \in D!Scope, D!EnsureNarrows(a, b),
           NEW act \in D!Act, D!Permits(a, act)
    PROVE  D!Permits(b, act)
<1>1. /\ D!BoundNarrows(a.max_single, b.max_single)
      /\ D!ListNarrows(a.actions, b.actions) /\ D!ListNarrows(a.chains, b.chains)
  BY DEF D!EnsureNarrows
<1>2. ASSUME b.max_single # Unset, act.amount # Unset
      PROVE  /\ act.amount.currency = b.max_single.currency
             /\ act.amount.minor_units <= b.max_single.minor_units
  <2>1. /\ a.max_single # Unset /\ a.max_single.currency = b.max_single.currency
        /\ a.max_single.minor_units <= b.max_single.minor_units
    BY <1>1, <1>2 DEF D!BoundNarrows
  <2>2. /\ act.amount.currency = a.max_single.currency
        /\ act.amount.minor_units <= a.max_single.minor_units
    BY <1>2, <2>1 DEF D!Permits
  <2>3. a.max_single \in D!Money /\ b.max_single \in D!Money /\ act.amount \in D!Money
    BY <1>2, <2>1 DEF D!Scope, D!Act
  <2>4. /\ a.max_single.minor_units \in Nat /\ b.max_single.minor_units \in Nat
        /\ act.amount.minor_units \in Nat
    BY <2>3 DEF D!Money
  <2> QED
    BY <2>1, <2>2, <2>4
<1>3. /\ b.actions # {} => act.action \in b.actions
      /\ b.chains # {} => act.chain \in b.chains
  BY <1>1 DEF D!ListNarrows, D!Permits
<1> QED
  BY <1>2, <1>3 DEF D!Permits

\* The delegation that a key has narrows every scope it descends from, through whatever
\* was granted to the keys above it since.
NarrowAt(k) ==
    /\ delegations[k] = NoDelegation => trail[k] = {}
    /\ delegations[k] # NoDelegation =>
           \A s \in trail[k] : D!EnsureNarrows(delegations[k].scope, s)

NarrowInv == \A k \in KeyId : NarrowAt(k)

LEMMA NarrowStep ==
    ASSUME D!PassportAssumption, D!TypeOK, NarrowInv, [D!Next]_(D!vars)
    PROVE  NarrowInv'
<1>1. /\ delegations \in [KeyId -> D!Delegation \cup {NoDelegation}]
      /\ trail \in [KeyId -> SUBSET D!Scope] /\ now \in Nat
      /\ NoDelegation \notin D!Delegation
  BY DEF D!TypeOK, D!PassportAssumption
<1>2. CASE UNCHANGED <<delegations, trail>>
  BY <1>2 DEF NarrowInv, NarrowAt
<1>3. ASSUME NEW k \in KeyId, NEW d \in D!Delegation, NEW t \in SUBSET D!Scope,
             delegations' = [delegations EXCEPT ![k] = d], trail' = [trail EXCEPT ![k] = t],
             \A s \in t : D!EnsureNarrows(d.scope, s)
      PROVE  NarrowInv'
  <2>1. \A c \in KeyId : c # k => delegations'[c] = delegations[c] /\ trail'[c] = trail[c]
    BY <1>1, <1>3
  <2>2. delegations'[k] = d /\ trail'[k] = t /\ d # NoDelegation
    BY <1>1, <1>3
  <2> SUFFICES ASSUME NEW c \in KeyId
               PROVE  /\ delegations'[c] = NoDelegation => trail'[c] = {}
                      /\ delegations'[c] # NoDelegation =>
                             \A s \in trail'[c] : D!EnsureNarrows(delegations'[c].scope, s)
    BY DEF NarrowInv, NarrowAt
  <2>3. CASE c = k
    BY <1>3, <2>2, <2>3
  <2>4. CASE c # k
    BY <2>1, <2>4 DEF NarrowInv, NarrowAt
  <2> QED
    BY <2>3, <2>4
<1>4. ASSUME NEW parent \in KeyId, NEW signer \in PublicKey, NEW k \in KeyId,
             NEW pub \in PublicKey, NEW role \in Role, NEW scope \in Scopes, NEW ttl \in Lifetimes,
             D!Delegate(parent, signer, k, pub, role, scope, ttl)
      PROVE  NarrowInv'
  <2> DEFINE d == [from |-> parent, scope |-> scope, issued_at |-> now,
                   expires_at |-> now + ttl, signed_by |-> signer]
             t == trail[parent] \cup {scope}
  <2>1. scope \in D!Scope /\ ttl \in Nat
    BY DEF D!PassportAssumption
  <2>2. d \in D!Delegation /\ d.scope = scope
    BY <1>1, <2>1 DEF D!Delegation
  <2>3. t \in SUBSET D!Scope
    BY <1>1, <2>1
  <2>4. ASSUME NEW s \in trail[parent] PROVE D!EnsureNarrows(scope, s)
    <3>1. /\ delegations[parent] # NoDelegation
          /\ D!EnsureNarrows(delegations[parent].scope, s)
      BY DEF NarrowInv, NarrowAt
    <3>2. D!EnsureNarrows(scope, delegations[parent].scope)
      BY <1>4, <3>1 DEF D!Delegate, D!EffectiveScope
    <3>3. delegations[parent].scope \in D!Scope /\ s \in D!Scope
      BY <1>1, <3>1 DEF D!Delegation
    <3> QED
      BY <2>1, <3>1, <3>2, <3>3, NarrowsThrough
  <2>5. D!EnsureNarrows(scope, scope)
    BY <2>1, NarrowsItself
  <2>6. \A s \in t : D!EnsureNarrows(d.scope, s)
    BY <2>2, <2>4, <2>5
  <2>7. /\ delegations' = [delegations EXCEPT ![k] = d]
        /\ trail' = [trail EXCEPT ![k] = t]
    BY <1>4 DEF D!Delegate
  <2> HIDE DEF d, t
  <2> QED
    BY <1>3, <2>2, <2>3, <2>6, <2>7
<1>5. ASSUME NEW old \in KeyId, NEW new \in KeyId, NEW pub \in PublicKey, NEW signer \in PublicKey,
             D!RotateKey(old, new, pub, signer)
      PROVE  NarrowInv'
  <2> DEFINE d == [delegations[old] EXCEPT !.issued_at = now, !.signed_by = signer]
  <2>1. delegations[old] # NoDelegation /\ delegations[old] \in D!Delegation
    BY <1>1, <1>5 DEF D!RotateKey
  <2>2. d \in D!Delegation /\ d.scope = delegations[old].scope
    BY <1>1, <2>1 DEF D!Delegation
  <2>3. \A s \in trail[old] : D!EnsureNarrows(d.scope, s)
    BY <2>1, <2>2 DEF NarrowInv, NarrowAt
  <2>4. /\ delegations' = [delegations EXCEPT ![new] = d]
        /\ trail' = [trail EXCEPT ![new] = trail[old]]
    BY <1>5 DEF D!RotateKey
  <2>5. trail[old] \in SUBSET D!Scope
    BY <1>1
  <2> HIDE DEF d
  <2> QED
    BY <1>3, <2>2, <2>3, <2>4, <2>5
<1>6. CASE \E k \in KeyId, pub \in PublicKey :
               \/ D!SetPrincipalKey(k, pub)
               \/ \E old \in KeyId : D!RotatePrincipal(old, k, pub)
  BY <1>2, <1>6 DEF D!SetPrincipalKey, D!RotatePrincipal
<1>7. CASE \E k \in KeyId : D!RevokeKey(k)
  BY <1>2, <1>7 DEF D!RevokeKey
<1>8. CASE D!Tick \/ UNCHANGED D!vars
  BY <1>2, <1>8 DEF D!Tick, D!vars, D!state
<1> QED
  BY <1>4, <1>5, <1>6, <1>7, <1>8 DEF D!Next

\* A key may do nothing that a scope it descends from forbade when it was handed on, for
\* chains of any length, any scopes and any later grants to the keys above it (delegate,
\* ensure_narrows, authorizes).
THEOREM GrantsAlwaysStayNarrow == EdgeSpec => []GrantsStayNarrow
<1> DEFINE Held == part = "passport" => NarrowInv
<1>1. EdgeInit => Held
  BY Starts DEF D!Init, NarrowInv, NarrowAt
<1>2. (part = "passport" => PassportInv) /\ Held /\ [EdgeNext]_edgeVars => Held'
  BY Steps, NarrowStep, EdgeAssumption DEF PassportInv
<1>3. (part = "passport" => PassportInv) /\ Held => GrantsStayNarrow
  <2> SUFFICES ASSUME PassportInv, NarrowInv, NEW k \in KeyId, D!Resolves(k), ~ D!IsRoot(k),
                      NEW act \in D!Authorized(k), NEW scope \in trail[k]
               PROVE  D!Permits(scope, act)
    BY DEF GrantsStayNarrow, D!GrantsStayNarrow
  <2> DEFINE n == D!Hops(k)
             own == delegations[k].scope
  <2>1. n \in 0 .. MaxChainDepth - 1 /\ D!ResolvesIn(k, n) /\ MaxChainDepth \in Nat \ {0}
    BY HopsOf, EdgeAssumption DEF D!PassportAssumption
  <2>2. D!Above(k)[0] = k
    BY <2>1, AboveDef
  <2>3. 0 \in 0 .. n - 1
    BY <2>1, <2>2 DEF D!ResolvesIn
  <2>4. delegations[k] # NoDelegation
    BY <2>1, <2>2, <2>3 DEF D!ResolvesIn, D!HopHolds
  <2>5. own \in D!ScopesAbove(k)
    BY <2>2, <2>3 DEF D!ScopesAbove
  <2>6. D!Permits(own, act) /\ act \in D!Act
    BY <2>5, EdgeAssumption DEF D!Authorized, D!PassportAssumption
  <2>7. D!EnsureNarrows(own, scope)
    BY <2>4 DEF NarrowInv, NarrowAt
  <2>8. own \in D!Scope /\ scope \in D!Scope
    BY <2>4 DEF PassportInv, D!TypeOK, D!Delegation
  <2> HIDE DEF own
  <2> QED
    BY <2>6, <2>7, <2>8, NarrowsPermits, EdgeAssumption DEF D!PassportAssumption
<1> QED
  BY <1>1, <1>2, <1>3, PassportAlways, PTL DEF EdgeSpec

\* What a revocation cut off does not come back with another key pair under the id
\* (Delegation::verify, under the issuer's public key and no other).
THEOREM RevocationsOutliveReuse == EdgeSpec => []RevocationOutlivesReuse
<1>1. (part = "passport" => PassportInv) => RevocationOutlivesReuse
  <2> SUFFICES ASSUME PassportInv, NEW s \in severed, keys[s.at].public_key # s.by,
                      D!Resolves(s.key), s.at \in D!Holders(s.key)
               PROVE  FALSE
    BY DEF RevocationOutlivesReuse, D!RevocationOutlivesReuse
  <2> DEFINE U == D!Above(s.key)
             n == D!Hops(s.key)
  <2>1. PICK i \in 0 .. MaxChainDepth - 1 :
            /\ U[i] = s.at
            /\ \A m \in 0 .. i - 1 : U[m] \in s.path /\ U[m] # s.at
            /\ i = 0 => keys[s.at].public_key = s.by
            /\ i # 0 => /\ delegations[U[i - 1]] # NoDelegation
                        /\ delegations[U[i - 1]].signed_by = s.by
    BY DEF PassportInv, SeveredInv, Remembered
  <2>2. MaxChainDepth \in Nat \ {0}
    BY EdgeAssumption DEF D!PassportAssumption
  <2>3. n \in 0 .. MaxChainDepth - 1 /\ D!ResolvesIn(s.key, n)
    BY HopsOf, EdgeAssumption
  <2>4. PICK j \in 0 .. n : U[j] = s.at
    BY DEF D!Holders
  <2> HIDE DEF n
  <2>5. i # 0 /\ i <= j /\ i - 1 \in 0 .. n - 1 /\ i \in 0 .. MaxChainDepth
    <3>1. i # 0
      BY <2>1
    <3>2. j \notin 0 .. i - 1
      BY <2>1, <2>4
    <3> QED
      BY <2>2, <2>3, <2>4, <3>1, <3>2
  <2> DEFINE c == U[i - 1]
  <2>6. D!HopHolds(c) /\ c # NoKey
    <3>1. i - 1 \in 0 .. n
      BY <2>2, <2>3, <2>5
    <3> QED
      BY <2>3, <2>5, <3>1 DEF D!ResolvesIn, D!IsKey
  <2>7. D!Parent(c) = s.at
    BY <2>1, <2>2, <2>5, AboveDef
  <2>8. delegations[c] # NoDelegation /\ delegations[c].signed_by = s.by
    BY <2>1, <2>5
  <2> HIDE DEF c
  <2>9. delegations[c].from = s.at
    BY <2>6, <2>7, <2>8 DEF D!Parent
  <2> QED
    BY <2>6, <2>8, <2>9 DEF D!HopHolds, D!VerifiesUnder
<1> QED
  BY <1>1, PassportAlways, PTL

-----------------------------------------------------------------------------
(* What venues and the gateway count of what is drawn.                      *)

\* The sums of the parts are those of Totals.
LEMMA SameSums ==
    /\ \A f, X : V!SumOver(f, X) = SumOver(f, X)
    /\ \A f, X : M!SumOver(f, X) = SumOver(f, X)
<1>1. ASSUME NEW f, NEW X PROVE V!SumOver(f, X) = SumOver(f, X)
  BY DEF V!SumOver, SumOver
<1>2. ASSUME NEW f, NEW X PROVE M!SumOver(f, X) = SumOver(f, X)
  BY DEF M!SumOver, SumOver
<1> QED
  BY <1>1, <1>2

\* Rounding up loses nothing (div_ceil).
LEMMA RoundedUpCovers ==
    ASSUME NEW n \in Nat, NEW u \in Nat \ {0}
    PROVE  V!RoundedUp(n, u) \in Nat /\ n <= V!RoundedUp(n, u) * u
<1> DEFINE x == n + u - 1
           q == x \div u
<1>1. x \in Nat
  OBVIOUS
<1>2. q \in Nat /\ x < q * u + u /\ q * u \in Nat
  <2> HIDE DEF x
  <2> QED
    BY <1>1, DivBelow
<1> HIDE DEF q
<1>3. n <= q * u
  BY <1>2
<1>4. V!RoundedUp(n, u) = q
  BY DEF V!RoundedUp, q
<1> QED
  BY <1>2, <1>3, <1>4

\* Nor does the haircut: the cents that are counted cover the micro-units paid.
LEMMA EffectiveCovers ==
    ASSUME V!VenuesAssumption, NEW micro \in Nat
    PROVE  V!Effective(micro) \in Nat /\ micro <= V!Effective(micro) * MicroPerCent
<1> DEFINE cents == V!RoundedUp(micro, MicroPerCent)
           haircut == V!RoundedUp(cents * HaircutBps, BpsUnit)
<1>1. MicroPerCent \in Nat \ {0} /\ BpsUnit \in Nat \ {0} /\ HaircutBps \in Nat
  BY DEF V!VenuesAssumption
<1>2. cents \in Nat /\ micro <= cents * MicroPerCent
  BY <1>1, RoundedUpCovers
<1>3. V!Effective(micro) = cents + haircut
  BY DEF V!Effective
<1> HIDE DEF cents
<1>4. haircut \in Nat
  <2>1. cents * HaircutBps \in Nat
    BY <1>1, <1>2
  <2> QED
    BY <1>1, <2>1, RoundedUpCovers
<1> HIDE DEF haircut
<1>5. cents * MicroPerCent <= (cents + haircut) * MicroPerCent
  BY <1>1, <1>2, <1>4, Monotone
<1> QED
  <2>1. cents * MicroPerCent \in Nat /\ (cents + haircut) * MicroPerCent \in Nat
    BY <1>1, <1>2, <1>4
  <2> QED
    BY <1>2, <1>3, <1>4, <1>5, <2>1

\* Each venue's count of an attestation is within its window, and covers what was
\* accepted, or paid, under it.
MerchantSum(a) == SumOver(V!Amount, taken)[V!DrawnUnder(a)]

TakenInv == IsFiniteSet(taken) /\ \A t \in taken : t.amount \in Nat

AttestedInv == \A m \in wire : m.attestation \in Attested \cup {None}

CountsType ==
    /\ used \in [{"merchant", "facilitator"} -> [Attested -> Nat]]
    /\ paid \in [Attested -> Nat]

CountsInv ==
    \A a \in Attested :
        /\ MerchantSum(a) <= used["merchant"][a] /\ used["merchant"][a] <= a.lim_window
        /\ paid[a] <= used["facilitator"][a] * MicroPerCent
        /\ used["facilitator"][a] <= a.lim_window
        /\ ~ a.genuine => paid[a] = 0

WindowsInv == TakenInv /\ AttestedInv /\ CountsType /\ CountsInv

LEMMA WindowsInit == ASSUME V!VenuesAssumption, V!Init PROVE WindowsInv
<1>1. TakenInv /\ AttestedInv /\ CountsType
  BY FS_EmptySet DEF V!Init, TakenInv, AttestedInv, CountsType
<1>2. V!Amount \in [taken -> Nat] /\ \A a \in Attested : V!DrawnUnder(a) = {}
  BY DEF V!Init, V!Amount, V!DrawnUnder
<1>3. \A a \in Attested : MerchantSum(a) = 0
  BY <1>1, <1>2, SumOverEmpty DEF MerchantSum, TakenInv
<1>4. \A a \in Attested : a.lim_window \in Nat
  BY DEF V!VenuesAssumption, V!Attestation
<1>5. MicroPerCent \in Nat /\ 0 <= 0 * MicroPerCent
  BY DEF V!VenuesAssumption
<1>6. \A a \in Attested : used["merchant"][a] = 0 /\ used["facilitator"][a] = 0 /\ paid[a] = 0
  BY DEF V!Init
<1>7. CountsInv
  BY <1>3, <1>4, <1>5, <1>6 DEF CountsInv
<1> QED
  BY <1>1, <1>7 DEF WindowsInv

\* One more draw adds its amount, to the attestation it was drawn under.
LEMMA AcceptCounts ==
    ASSUME V!VenuesAssumption, WindowsInv, NEW m \in wire, NEW amount \in Cents,
           NEW required \in Requirements, V!Accept(m, amount, required)
    PROVE  /\ TakenInv'
           /\ \A a \in Attested :
                  MerchantSum(a)' <= MerchantSum(a) + IF a = m.attestation THEN amount ELSE 0
           /\ \A a \in Attested : MerchantSum(a) \in Nat
<1> DEFINE e == [msg |-> m, amount |-> amount, required |-> required,
                 after |-> used["merchant"][m.attestation]]
           f == V!Amount
           g == [t \in taken \cup {e} |-> t.amount]
<1>1. amount \in Nat
  BY DEF V!VenuesAssumption
<1>2. taken' = taken \cup {e} /\ e.amount = amount /\ e.msg = m
  BY DEF V!Accept
<1> HIDE DEF e
<1>3. IsFiniteSet(taken) /\ IsFiniteSet(taken \cup {e})
  BY FS_AddElement DEF WindowsInv, TakenInv
<1>4. TakenInv'
  BY <1>1, <1>2, <1>3 DEF WindowsInv, TakenInv
<1>5. f \in [taken -> Nat] /\ g \in [taken \cup {e} -> Nat] /\ \A t \in taken : f[t] = g[t]
  BY <1>1, <1>2 DEF WindowsInv, TakenInv, V!Amount
<1>6. f' = g /\ g[e] = amount
  BY <1>2 DEF V!Amount
<1> HIDE DEF f, g
<1>7. ASSUME NEW a \in Attested
      PROVE  /\ MerchantSum(a)' <= MerchantSum(a) + IF a = m.attestation THEN amount ELSE 0
             /\ MerchantSum(a) \in Nat
  <2> DEFINE T == V!DrawnUnder(a)
             s == SumOver(g, taken \cup {e})
  <2>1. T \in SUBSET taken /\ T \in SUBSET (taken \cup {e}) /\ \A t \in T : f[t] = g[t]
    BY <1>5 DEF V!DrawnUnder
  <2>2. T' = IF a = m.attestation THEN T \cup {e} ELSE T
    BY <1>2 DEF V!DrawnUnder
  <2> HIDE DEF T
  <2>3. SumOver(f, taken)[T] = s[T]
    <3>1. T \in SUBSET (taken \cap (taken \cup {e}))
      BY <2>1
    <3> QED
      BY <1>3, <1>5, <2>1, <3>1, SumOverAlike
  <2>4. /\ s[T] \in Nat
        /\ e \notin T => s[T \cup {e}] = s[T] + g[e]
    <3> DEFINE all == taken \cup {e}
    <3>1. IsFiniteSet(all) /\ g \in [all -> Nat] /\ T \in SUBSET all /\ e \in all
      BY <1>3, <1>5, <2>1
    <3>2. s = SumOver(g, all)
      OBVIOUS
    <3> HIDE DEF all, s, T, e
    <3>3. /\ SumOver(g, all)[T] \in Nat
          /\ \A t \in all \ T : SumOver(g, all)[T \cup {t}] = SumOver(g, all)[T] + g[t]
      BY <3>1, SumOverFacts, SMTT(60)
    <3> QED
      BY <3>1, <3>2, <3>3
  <2>5. MerchantSum(a) = s[T] /\ MerchantSum(a)' = s[T']
    BY <1>2, <1>6, <2>3 DEF MerchantSum, T, f
  <2>6. e \in T => T \cup {e} = T
    OBVIOUS
  <2> HIDE DEF s
  <2> QED
    BY <1>1, <1>6, <2>2, <2>4, <2>5, <2>6
<1> QED
  BY <1>4, <1>7

LEMMA WindowsStep ==
    ASSUME V!VenuesAssumption, VenuesInv, WindowsInv, [V!Next]_(V!vars)
    PROVE  WindowsInv'
<1> USE DEF WindowsInv
<1>1. CASE UNCHANGED <<taken, paid, used>> /\ AttestedInv'
  BY <1>1 DEF TakenInv, CountsType, CountsInv, MerchantSum, V!Amount, V!DrawnUnder
<1>2. ASSUME NEW uri \in Uri, NEW body \in Body \cup {None}, NEW a \in Attested \cup {None},
             NEW components \in SUBSET V!Component, NEW keyid \in TapKeyId,
             NEW ahead \in {0, V!Skew + 1}, V!Send(uri, body, a, components, keyid, ahead)
      PROVE  UNCHANGED <<taken, paid, used>> /\ AttestedInv'
  <2> DEFINE msg == [uri |-> uri, body |-> body, attestation |-> a,
                     digest |-> None, input |-> None, also |-> FALSE, signature |-> None]
             params == [created |-> now + ahead, expires |-> now + ahead + V!Expiry,
                        keyid |-> keyid]
             n == V!Sign(msg, components, params)
  <2>1. wire' = wire \cup {n} /\ UNCHANGED <<taken, paid, used>>
    BY <1>2 DEF V!Send
  <2>2. n.attestation = a
    BY SignedAsListed
  <2> HIDE DEF n
  <2> QED
    BY <2>1, <2>2 DEF AttestedInv
<1>3. ASSUME NEW m \in wire, V!Change(m)
      PROVE  UNCHANGED <<taken, paid, used>> /\ AttestedInv'
  <2>1. IsMessage(m) /\ m.attestation \in Attested \cup {None}
    BY DEF VenuesInv, WireInv, AttestedInv
  <2>2. PICK altered \in V!Changed(m) : wire' = wire \cup {altered}
    BY <1>3 DEF V!Change
  <2>3. altered.attestation \in Attested \cup {None}
    <3>1. ASSUME NEW u, altered = [m EXCEPT !.uri = u]
          PROVE  altered.attestation = m.attestation
      BY <2>1, <3>1 DEF IsMessage
    <3>2. ASSUME NEW b, altered = [m EXCEPT !.body = b]
          PROVE  altered.attestation = m.attestation
      BY <2>1, <3>2 DEF IsMessage
    <3>3. ASSUME NEW b, altered = [m EXCEPT !.body = b, !.digest = b]
          PROVE  altered.attestation = m.attestation
      BY <2>1, <3>3 DEF IsMessage
    <3>4. ASSUME NEW a \in Attested \cup {None}, altered = [m EXCEPT !.attestation = a]
          PROVE  altered.attestation = a
      BY <2>1, <3>4 DEF IsMessage
    <3>5. ASSUME NEW a \in Attested \cup {None},
                 altered = [m EXCEPT !.attestation = a, !.also = TRUE]
          PROVE  altered.attestation = a
      <4> DEFINE yes == TRUE
      <4>1. altered = [m EXCEPT !.attestation = a, !.also = yes]
        BY <3>5
      <4> HIDE DEF yes
      <4> QED
        BY <2>1, <4>1 DEF IsMessage
    <3>6. ASSUME NEW c, altered = [m EXCEPT !.input.components = @ \ {c}]
          PROVE  altered.attestation = m.attestation
      BY <2>1, <3>6 DEF IsMessage
    <3>7. \/ \E u : altered = [m EXCEPT !.uri = u]
          \/ \E b : altered = [m EXCEPT !.body = b]
          \/ \E b : altered = [m EXCEPT !.body = b, !.digest = b]
          \/ \E a \in Attested \cup {None} : altered = [m EXCEPT !.attestation = a]
          \/ \E a \in Attested \cup {None} : altered = [m EXCEPT !.attestation = a, !.also = TRUE]
          \/ \E c : altered = [m EXCEPT !.input.components = @ \ {c}]
      BY DEF V!Changed
    <3> QED
      BY <2>1, <3>1, <3>2, <3>3, <3>4, <3>5, <3>6, <3>7
  <2> QED
    BY <1>3, <2>2, <2>3 DEF V!Change, AttestedInv
<1>4. ASSUME NEW m \in wire, NEW amount \in Cents, NEW required \in Requirements,
             V!Accept(m, amount, required)
      PROVE  WindowsInv'
  <2> DEFINE a == m.attestation
  <2>1. /\ a \in Attested /\ amount \in Nat /\ UNCHANGED <<wire, paid>>
        /\ used["merchant"][a] + amount <= a.lim_window
        /\ used' = [used EXCEPT !["merchant"][a] = @ + amount]
    BY <1>4 DEF V!Accept, V!Permits, AttestedInv, V!VenuesAssumption
  <2> HIDE DEF a
  <2>2. /\ used'["merchant"][a] = used["merchant"][a] + amount
        /\ \A b \in Attested : b # a => used'["merchant"][b] = used["merchant"][b]
        /\ \A b \in Attested : used'["facilitator"][b] = used["facilitator"][b]
        /\ CountsType'
    BY <2>1 DEF CountsType
  <2>3. /\ TakenInv'
        /\ \A b \in Attested : MerchantSum(b)' <= MerchantSum(b) + IF b = a THEN amount ELSE 0
        /\ \A b \in Attested : MerchantSum(b) \in Nat
    BY <1>4, AcceptCounts DEF a
  <2>4. CountsInv'
    <3> SUFFICES ASSUME NEW b \in Attested
                 PROVE  /\ MerchantSum(b)' <= used'["merchant"][b]
                        /\ used'["merchant"][b] <= b.lim_window
      BY <2>1, <2>2 DEF CountsInv
    <3>1. MerchantSum(b) <= used["merchant"][b] /\ used["merchant"][b] <= b.lim_window
      BY DEF CountsInv
    <3>2. used["merchant"][b] \in Nat /\ MerchantSum(b) \in Nat
      BY <2>3 DEF CountsType
    <3>3. MerchantSum(b)' \in Nat
      <4>1. V!Amount' \in [taken' -> Nat] /\ V!DrawnUnder(b)' \in SUBSET taken'
            /\ IsFiniteSet(taken')
        BY <2>3 DEF TakenInv, V!Amount, V!DrawnUnder
      <4> QED
        BY <4>1, SumOverFacts DEF MerchantSum
    <3>4. CASE b = a
      BY <2>1, <2>2, <2>3, <3>1, <3>2, <3>3, <3>4
    <3>5. CASE b # a
      BY <2>2, <2>3, <3>1, <3>2, <3>3, <3>5
    <3> QED
      BY <3>4, <3>5
  <2> QED
    BY <2>1, <2>2, <2>3, <2>4 DEF AttestedInv
<1>5. ASSUME NEW a \in Attested, NEW micro \in Micros, V!Pay(a, micro) PROVE WindowsInv'
  <2> DEFINE counted == V!Effective(micro)
  <2>1. micro \in Nat /\ MicroPerCent \in Nat
    BY DEF V!VenuesAssumption
  <2>2. counted \in Nat /\ micro <= counted * MicroPerCent
    BY <2>1, EffectiveCovers
  <2>3. /\ UNCHANGED <<wire, taken>> /\ a.genuine
        /\ used["facilitator"][a] + counted <= a.lim_window
        /\ used' = [used EXCEPT !["facilitator"][a] = @ + counted]
        /\ paid' = [paid EXCEPT ![a] = @ + micro]
    BY <1>5 DEF V!Pay, V!Permits
  <2> HIDE DEF counted
  <2>4. /\ used'["facilitator"][a] = used["facilitator"][a] + counted
        /\ \A b \in Attested : b # a => used'["facilitator"][b] = used["facilitator"][b]
        /\ \A b \in Attested : used'["merchant"][b] = used["merchant"][b]
        /\ paid'[a] = paid[a] + micro
        /\ \A b \in Attested : b # a => paid'[b] = paid[b]
        /\ CountsType'
    BY <2>1, <2>2, <2>3 DEF CountsType
  <2>5. paid'[a] <= used'["facilitator"][a] * MicroPerCent
    <3> DEFINE u == used["facilitator"][a]
    <3>1. u \in Nat /\ paid[a] \in Nat /\ paid[a] <= u * MicroPerCent
      BY DEF CountsType, CountsInv
    <3> HIDE DEF u
    <3>2. (u + counted) * MicroPerCent = u * MicroPerCent + counted * MicroPerCent
      BY <2>1, <2>2, <3>1
    <3>3. u * MicroPerCent \in Nat /\ counted * MicroPerCent \in Nat
      BY <2>1, <2>2, <3>1
    <3> QED
      BY <2>1, <2>2, <2>4, <3>1, <3>2, <3>3 DEF u
  <2>6. CountsInv'
    <3>1. \A b \in Attested : MerchantSum(b)' = MerchantSum(b)
      BY <2>3 DEF MerchantSum, V!Amount, V!DrawnUnder
    <3> QED
      BY <2>3, <2>4, <2>5, <3>1 DEF CountsInv
  <2> QED
    BY <2>3, <2>4, <2>6 DEF TakenInv, AttestedInv
<1>6. ASSUME (\E a \in Attested : V!Revoke(a)) \/ V!Tick \/ UNCHANGED V!vars
      PROVE  UNCHANGED <<taken, paid, used>> /\ AttestedInv'
  BY <1>6 DEF V!Revoke, V!Tick, V!vars, AttestedInv
<1> QED
  BY <1>1, <1>2, <1>3, <1>4, <1>5, <1>6 DEF V!Next

\* What a merchant accepts and what a facilitator lets through stays within the window
\* of the attestation at that venue, whatever amounts the payments are split into
\* (verify_request_with_limit, check_payment_against_limit).
THEOREM VenuesCoverPayments == EdgeSpec => [](part = "venues" => V!WindowCoversPayments)
<1>1. EdgeInit => (part = "venues" => VenuesInv /\ WindowsInv)
  BY Starts, VenuesInit, WindowsInit, EdgeAssumption
<1>2. (part = "venues" => VenuesInv /\ WindowsInv) /\ [EdgeNext]_edgeVars =>
          (part = "venues" => VenuesInv /\ WindowsInv)'
  BY Steps, VenuesStep, WindowsStep, EdgeAssumption
<1>3. (part = "venues" => VenuesInv /\ WindowsInv) => (part = "venues" => V!WindowCoversPayments)
  <2> SUFFICES ASSUME WindowsInv PROVE V!WindowCoversPayments
    OBVIOUS
  <2> SUFFICES ASSUME NEW a \in Attested
               PROVE  /\ paid[a] <= a.lim_window * MicroPerCent
                      /\ ~ a.genuine => paid[a] = 0
                      /\ MerchantSum(a) <= a.lim_window
    BY SameSums DEF V!WindowCoversPayments, MerchantSum
  <2>1. /\ MerchantSum(a) <= used["merchant"][a] /\ used["merchant"][a] <= a.lim_window
        /\ paid[a] <= used["facilitator"][a] * MicroPerCent
        /\ used["facilitator"][a] <= a.lim_window /\ (~ a.genuine => paid[a] = 0)
        /\ used["merchant"][a] \in Nat /\ used["facilitator"][a] \in Nat /\ paid[a] \in Nat
        /\ a.lim_window \in Nat /\ MicroPerCent \in Nat
    BY EdgeAssumption DEF WindowsInv, CountsInv, CountsType, V!VenuesAssumption,
                          V!Attestation
  <2>2. MerchantSum(a) \in Nat
    <3>1. V!Amount \in [taken -> Nat] /\ V!DrawnUnder(a) \in SUBSET taken /\ IsFiniteSet(taken)
      BY DEF WindowsInv, TakenInv, V!Amount, V!DrawnUnder
    <3> QED
      BY <3>1, SumOverFacts DEF MerchantSum
  <2>3. /\ used["facilitator"][a] * MicroPerCent <= a.lim_window * MicroPerCent
        /\ used["facilitator"][a] * MicroPerCent \in Nat /\ a.lim_window * MicroPerCent \in Nat
    BY <2>1, Monotone
  <2> QED
    BY <2>1, <2>2, <2>3
<1> QED
  BY <1>1, <1>2, <1>3, PTL DEF EdgeSpec

\* Without a remainder, the quotient divides.
LEMMA RemainderIsZero ==
    ASSUME NEW x \in Nat, NEW m \in Nat \ {0}, x % m = 0
    PROVE  x = (x \div m) * m
  OBVIOUS

\* A minor unit is worth at least one of the measure.
LEMMA WorthIsWhole ==
    /\ M!Worth("USD") = 11929 /\ M!Worth("GBP") = 15100 /\ M!Worth("JPY") = 7900
    /\ \A ccy \in M!Currency : M!Worth(ccy) \in Nat \ {0} /\ M!minor_units_per_major[ccy] \in Nat
<1>1. M!Worth("USD") = 11929
  BY DEF M!Worth, M!per_base, M!minor_units_per_major
<1>2. M!Worth("GBP") = 15100
  BY DEF M!Worth, M!per_base, M!minor_units_per_major
<1>3. M!Worth("JPY") = 7900
  BY DEF M!Worth, M!per_base, M!minor_units_per_major
<1> QED
  BY <1>1, <1>2, <1>3 DEF M!Currency, M!minor_units_per_major

\* A conversion, rounded up by one unit more where a double may be above it, is worth
\* what it converts (FxTable::convert); so is what a haircut widens.
LEMMA ConvertedCovers ==
    ASSUME NEW minor \in Nat, NEW from \in M!Currency, NEW to \in M!Currency,
           NEW c \in M!Converted(minor, from, to)
    PROVE  c \in Nat /\ minor * M!Worth(from) <= c * M!Worth(to)
<1> DEFINE value == minor * M!Worth(from)
           w == M!Worth(to)
           q == value \div w
<1>1. value \in Nat /\ w \in Nat \ {0}
  BY WorthIsWhole
<1>2. CASE from = to
  BY <1>1, <1>2 DEF M!Converted
<1>3. CASE from # to
  <2>1. c = q + 1 \/ (c = q /\ value % w = 0)
    BY <1>3 DEF M!Converted
  <2> HIDE DEF value, w
  <2>2. q \in Nat /\ value < q * w + w /\ q * w \in Nat
    BY <1>1, DivBelow
  <2>3. (q + 1) * w = q * w + w
    BY <1>1, <2>2
  <2>4. value % w = 0 => value = q * w
    BY <1>1, RemainderIsZero
  <2> HIDE DEF q
  <2>5. c \in Nat /\ value <= c * w
    BY <1>1, <2>1, <2>2, <2>3, <2>4
  <2> QED
    BY <2>5 DEF value, w
<1> QED
  BY <1>2, <1>3

LEMMA HaircutCovers ==
    ASSUME NEW minor \in Nat, NEW from \in M!Currency, NEW to \in M!Currency,
           NEW class \in M!AssetClass, NEW e \in M!WithHaircut(minor, from, to, class)
    PROVE  e \in Nat /\ minor * M!Worth(from) <= e * M!Worth(to)
<1>1. PICK c \in M!Converted(minor, from, to) :
          e = c + M!ScaleBps(c, M!haircut_bps[class])
  BY DEF M!WithHaircut
<1>2. c \in Nat /\ minor * M!Worth(from) <= c * M!Worth(to)
  BY ConvertedCovers
<1>3. M!haircut_bps[class] \in Nat
  BY DEF M!AssetClass, M!haircut_bps
<1> DEFINE h == M!ScaleBps(c, M!haircut_bps[class])
<1>4. h \in Nat
  <2> DEFINE x == c * M!haircut_bps[class] + 9999
  <2>1. x \in Nat
    BY <1>2, <1>3
  <2> HIDE DEF x
  <2>2. x \div 10000 \in Nat
    BY <2>1
  <2> QED
    BY <2>2 DEF M!ScaleBps, x
<1> HIDE DEF h
<1> DEFINE w == M!Worth(to)
           v == minor * M!Worth(from)
<1>5. w \in Nat /\ v \in Nat
  BY WorthIsWhole
<1>6. v <= c * w
  BY <1>2
<1>7. e = c + h
  BY <1>1 DEF h
<1> HIDE DEF w, v
<1>8. c * w \in Nat /\ e * w \in Nat /\ c * w <= e * w
  BY <1>2, <1>4, <1>5, <1>7, Monotone
<1>9. v <= e * w
  BY <1>5, <1>6, <1>8
<1> QED
  BY <1>2, <1>4, <1>7, <1>9 DEF w, v

\* Where an agent's limits are all in one currency, what its window counts is worth what
\* was drawn: each draw's part of at_risk covers the draw, and window_used what was
\* settled.  In two currencies it is not so: run edge_units.
OpenEffective == [d \in M!DrawNo |-> open[d].effective]
OpenWorth == [d \in M!DrawNo |-> open[d].worth]

OneUnit == IsFiniteSet(units) /\ \A x, y \in units : x = y

WindowIsEmpty ==
    /\ at_risk = 0 /\ window_used = 0 /\ spent = 0
    /\ \A d \in M!DrawNo : open[d] = M!Resolved

OpenInv ==
    /\ at_risk = SumOver(OpenEffective, M!DrawNo)[M!DrawNo]
    /\ \A d \in M!DrawNo : d > draws => open[d] = M!Resolved

UnitCovers(ccy) ==
    /\ at_risk + window_used <= M!Ceiling(ccy)
    /\ spent <= window_used * M!Worth(ccy)
    /\ \A d \in M!DrawNo : open[d].worth <= open[d].effective * M!Worth(ccy)

MoneyInv ==
    /\ M!TypeOK /\ OneUnit /\ OpenInv
    /\ units = {} => WindowIsEmpty
    /\ \A ccy \in units : UnitCovers(ccy)
    /\ under # None => under \in units

LEMMA DrawNoFinite == ASSUME M!MoneyAssumption PROVE IsFiniteSet(M!DrawNo)
BY FS_Interval DEF M!DrawNo, M!MoneyAssumption

LEMMA MoneyInit == ASSUME M!MoneyAssumption, M!Init PROVE MoneyInv
<1>1. M!TypeOK /\ OneUnit /\ (units = {} => WindowIsEmpty) /\ units = {}
  BY FS_EmptySet DEF M!Init, M!TypeOK, OneUnit, WindowIsEmpty, M!Resolved, M!MoneyAssumption
<1>2. OpenEffective \in [M!DrawNo -> Nat] /\ \A d \in M!DrawNo : OpenEffective[d] = 0
  BY DEF M!Init, M!Resolved, OpenEffective
<1>3. SumOver(OpenEffective, M!DrawNo)[M!DrawNo] = 0
  BY <1>2, DrawNoFinite, SumOfNothing
<1>4. OpenInv
  BY <1>3 DEF OpenInv, M!Init
<1> QED
  BY <1>1, <1>4 DEF MoneyInv, M!Init

LEMMA MoneyIssue ==
    ASSUME M!MoneyAssumption, MaxUnits = 1, MoneyInv, NEW ccy \in M!Currency, M!Issue(ccy)
    PROVE  MoneyInv'
<1>1. /\ ccy \notin units /\ units' = units \cup {ccy} /\ Cardinality(units') <= MaxUnits
      /\ UNCHANGED <<at_risk, window_used, open, spent, under, draws>>
  BY SameCardinality DEF M!Issue
<1>2. units = {} /\ units' = {ccy} /\ IsFiniteSet(units')
  <2>1. IsFiniteSet(units) /\ Cardinality(units) \in Nat
    BY FS_CardinalityType DEF MoneyInv, OneUnit
  <2>2. IsFiniteSet(units') /\ Cardinality(units') = Cardinality(units) + 1
    BY <1>1, <2>1, FS_AddElement
  <2>3. Cardinality(units) + 1 <= 1
    BY <1>1, <2>2
  <2>4. Cardinality(units) = 0
    BY <2>1, <2>3
  <2> QED
    BY <1>1, <2>1, <2>2, <2>4, FS_EmptySet
<1>3. M!TypeOK' /\ OneUnit' /\ OpenInv' /\ (under' # None => under' \in units')
  BY <1>1, <1>2 DEF MoneyInv, M!TypeOK, OneUnit, OpenInv, OpenEffective
<1>4. UnitCovers(ccy)'
  <2>1. M!Ceiling(ccy) \in Nat /\ M!Worth(ccy) \in Nat
    BY WorthIsWhole DEF M!Ceiling, M!MoneyAssumption
  <2>2. WindowIsEmpty'
    BY <1>1, <1>2 DEF MoneyInv, WindowIsEmpty
  <2> QED
    BY <2>1, <2>2 DEF WindowIsEmpty, UnitCovers, M!Resolved
<1> QED
  BY <1>2, <1>3, <1>4 DEF MoneyInv

\* A sum of one amount more, or one less.
LEMMA SumWith ==
    ASSUME NEW E, IsFiniteSet(E), NEW f \in [E -> Nat], NEW g \in [E -> Nat],
           NEW e \in E, \A d \in E \ {e} : f[d] = g[d]
    PROVE  /\ SumOver(g, E)[E] = SumOver(f, E)[E] - f[e] + g[e]
           /\ SumOver(f, E)[E] \in Nat /\ f[e] <= SumOver(f, E)[E]
<1>1. SumOver(f, E)[E] = f[e] + SumOver(f, E)[E \ {e}]
  BY SumOverRemove
<1>2. SumOver(g, E)[E] = g[e] + SumOver(g, E)[E \ {e}]
  BY SumOverRemove
<1>3. SumOver(f, E)[E \ {e}] = SumOver(g, E)[E \ {e}] /\ SumOver(f, E)[E \ {e}] \in Nat
  BY SumOverSame, SumOverFacts
<1> QED
  BY <1>1, <1>2, <1>3

LEMMA MoneyDraw ==
    ASSUME M!MoneyAssumption, MoneyInv, NEW ccy \in M!Currency, NEW from \in M!Currency,
           NEW minor \in Amounts, NEW class \in M!AssetClass, M!Draw(ccy, minor, from, class)
    PROVE  MoneyInv'
<1> DEFINE n == draws + 1
           worth == minor * M!Worth(from)
<1>1. PICK e \in M!WithHaircut(minor, from, ccy, class) :
          /\ ccy \in units /\ draws < MaxDraws /\ draws' = n
          /\ at_risk + window_used + e <= M!Ceiling(ccy)
          /\ at_risk' = at_risk + e
          /\ open' = [open EXCEPT ![n] = [effective |-> e, worth |-> worth]]
          /\ under' = ccy /\ UNCHANGED <<units, window_used, spent>>
  BY DEF M!Draw
<1>2. /\ e \in Nat /\ worth \in Nat /\ worth <= e * M!Worth(ccy)
      /\ M!Worth(ccy) \in Nat
  <2>1. minor \in Nat
    BY DEF M!MoneyAssumption
  <2> QED
    BY <2>1, HaircutCovers, WorthIsWhole
<1> HIDE DEF worth
<1>3. n \in M!DrawNo /\ n \in 0 .. MaxDraws /\ open[n] = M!Resolved
  <2>1. draws \in 0 .. MaxDraws /\ MaxDraws \in Nat
    BY DEF MoneyInv, M!TypeOK, M!MoneyAssumption
  <2>2. n \in M!DrawNo /\ n > draws /\ n \in 0 .. MaxDraws
    BY <1>1, <2>1 DEF M!DrawNo
  <2> QED
    BY <2>2 DEF MoneyInv, OpenInv
<1>4. /\ M!TypeOK' /\ at_risk \in Nat /\ draws \in 0 .. MaxDraws
      /\ \A d \in M!DrawNo : open'[d] = IF d = n THEN [effective |-> e, worth |-> worth]
                                                 ELSE open[d]
  BY <1>1, <1>2, <1>3 DEF MoneyInv, M!TypeOK
<1> HIDE DEF n
<1>5. OpenInv'
  <2>1. /\ OpenEffective \in [M!DrawNo -> Nat] /\ OpenEffective' \in [M!DrawNo -> Nat]
        /\ OpenEffective[n] = 0 /\ OpenEffective'[n] = e
        /\ \A d \in M!DrawNo \ {n} : OpenEffective[d] = OpenEffective'[d]
    BY <1>2, <1>3, <1>4 DEF MoneyInv, M!TypeOK, OpenEffective, M!Resolved
  <2> DEFINE f == OpenEffective
             g == [d \in M!DrawNo |-> open'[d].effective]
  <2>2. g = OpenEffective'
    BY DEF OpenEffective
  <2>3. f \in [M!DrawNo -> Nat] /\ g \in [M!DrawNo -> Nat] /\ f[n] = 0 /\ g[n] = e
        /\ \A d \in M!DrawNo \ {n} : f[d] = g[d]
    BY <2>1, <2>2
  <2> HIDE DEF f, g
  <2>4. SumOver(g, M!DrawNo)[M!DrawNo] = SumOver(f, M!DrawNo)[M!DrawNo] - 0 + e
    BY <1>3, <2>3, DrawNoFinite, SumWith
  <2>5. SumOver(f, M!DrawNo)[M!DrawNo] = at_risk
    BY DEF MoneyInv, OpenInv, f
  <2>6. SumOver(OpenEffective, M!DrawNo)[M!DrawNo]' = SumOver(g, M!DrawNo)[M!DrawNo]
    BY <2>2
  <2>7. at_risk' = SumOver(OpenEffective, M!DrawNo)[M!DrawNo]'
    BY <1>1, <1>2, <1>4, <2>4, <2>5, <2>6
  <2>8. \A d \in M!DrawNo : d > draws' => open'[d] = M!Resolved
    <3> SUFFICES ASSUME NEW d \in M!DrawNo, d > draws' PROVE open'[d] = M!Resolved
      OBVIOUS
    <3>1. d # n /\ d > draws
      BY <1>1, <1>4 DEF M!DrawNo, n
    <3> QED
      BY <1>4, <3>1 DEF MoneyInv, OpenInv
  <2> QED
    BY <2>7, <2>8 DEF OpenInv
<1>6. \A c \in units : c = ccy
  BY <1>1 DEF MoneyInv, OneUnit
<1>7. UnitCovers(ccy)'
  <2>1. UnitCovers(ccy)
    BY <1>1 DEF MoneyInv
  <2>2. at_risk' + window_used' <= M!Ceiling(ccy)
    <3>1. window_used \in Nat /\ M!Ceiling(ccy) \in Nat
      BY WorthIsWhole DEF MoneyInv, M!TypeOK, M!Ceiling, M!MoneyAssumption
    <3> QED
      BY <1>1, <1>2, <1>4, <3>1
  <2>3. \A d \in M!DrawNo : open'[d].worth <= open'[d].effective * M!Worth(ccy)
    BY <1>2, <1>4, <2>1 DEF UnitCovers
  <2> QED
    BY <1>1, <2>1, <2>2, <2>3 DEF UnitCovers
<1> QED
  BY <1>1, <1>4, <1>5, <1>6, <1>7 DEF MoneyInv, OneUnit

LEMMA MoneySettle ==
    ASSUME M!MoneyAssumption, MoneyInv, NEW n \in M!DrawNo, NEW settled \in BOOLEAN,
           M!Settle(n, settled)
    PROVE  MoneyInv'
<1> DEFINE e == open[n].effective
           worth == open[n].worth
<1>1. /\ open[n] # M!Resolved /\ open' = [open EXCEPT ![n] = M!Resolved]
      /\ at_risk' = at_risk - e
      /\ IF settled THEN window_used' = window_used + e /\ spent' = spent + worth
                    ELSE UNCHANGED <<window_used, spent>>
      /\ UNCHANGED <<units, under, draws>>
  BY DEF M!Settle
<1>2. /\ e \in Nat /\ worth \in Nat /\ at_risk \in Nat /\ window_used \in Nat /\ spent \in Nat
      /\ open \in [M!DrawNo -> [effective : Nat, worth : Nat]]
      /\ M!Resolved \in [effective : Nat, worth : Nat]
  BY DEF MoneyInv, M!TypeOK, M!Resolved
<1> HIDE DEF e, worth
<1>3. /\ open' \in [M!DrawNo -> [effective : Nat, worth : Nat]]
      /\ \A d \in M!DrawNo : open'[d] = IF d = n THEN M!Resolved ELSE open[d]
  BY <1>1, <1>2
<1>4. /\ at_risk' = SumOver(OpenEffective, M!DrawNo)[M!DrawNo]'
      /\ e <= at_risk
  <2> DEFINE f == OpenEffective
             g == [d \in M!DrawNo |-> open'[d].effective]
  <2>1. g = OpenEffective'
    BY DEF OpenEffective
  <2>2. /\ f \in [M!DrawNo -> Nat] /\ g \in [M!DrawNo -> Nat] /\ f[n] = e /\ g[n] = 0
        /\ \A d \in M!DrawNo \ {n} : f[d] = g[d]
    BY <1>2, <1>3 DEF OpenEffective, M!Resolved, e
  <2> HIDE DEF f, g
  <2>3. /\ SumOver(g, M!DrawNo)[M!DrawNo] = SumOver(f, M!DrawNo)[M!DrawNo] - e + 0
        /\ e <= SumOver(f, M!DrawNo)[M!DrawNo]
    BY <2>2, DrawNoFinite, SumWith
  <2>4. SumOver(f, M!DrawNo)[M!DrawNo] = at_risk
    BY DEF MoneyInv, OpenInv, f
  <2>5. SumOver(OpenEffective, M!DrawNo)[M!DrawNo]' = SumOver(g, M!DrawNo)[M!DrawNo]
    BY <2>1
  <2> QED
    BY <1>1, <1>2, <2>3, <2>4, <2>5
<1>5. OpenInv'
  BY <1>1, <1>3, <1>4 DEF MoneyInv, OpenInv
<1>6. M!TypeOK' /\ window_used' \in Nat /\ spent' \in Nat /\ at_risk' \in Nat
  BY <1>1, <1>2, <1>3, <1>4 DEF MoneyInv, M!TypeOK
<1>7. units # {}
  BY <1>1 DEF MoneyInv, WindowIsEmpty
<1>8. ASSUME NEW ccy \in units PROVE UnitCovers(ccy)'
  <2> DEFINE w == M!Worth(ccy)
  <2>1. UnitCovers(ccy) /\ ccy \in M!Currency
    BY DEF MoneyInv, M!TypeOK
  <2>2. w \in Nat /\ M!Ceiling(ccy) \in Nat
    BY <2>1, WorthIsWhole DEF M!Ceiling, M!MoneyAssumption
  <2>3. spent <= window_used * w /\ worth <= e * w
    BY <2>1 DEF UnitCovers, e, worth
  <2>4. at_risk' + window_used' <= M!Ceiling(ccy)
    BY <1>1, <1>2, <1>6, <2>1, <2>2 DEF UnitCovers
  <2>5. \A d \in M!DrawNo : open'[d].worth <= open'[d].effective * w
    <3>1. M!Resolved.worth <= M!Resolved.effective * w
      BY <2>2 DEF M!Resolved
    <3> QED
      BY <1>3, <2>1, <3>1 DEF UnitCovers
  <2>6. spent' <= window_used' * w
    <3> HIDE DEF w
    <3>1. /\ (window_used + e) * w = window_used * w + e * w
          /\ window_used * w \in Nat /\ e * w \in Nat
      BY <1>2, <2>2
    <3> QED
      BY <1>1, <1>2, <2>3, <3>1
  <2> QED
    BY <2>4, <2>5, <2>6 DEF UnitCovers
<1> QED
  BY <1>1, <1>5, <1>6, <1>7, <1>8 DEF MoneyInv, OneUnit

LEMMA MoneyStep ==
    ASSUME M!MoneyAssumption, MaxUnits = 1, MoneyInv, [M!Next]_(M!vars)
    PROVE  MoneyInv'
<1>1. CASE UNCHANGED M!vars
  BY <1>1 DEF M!vars, MoneyInv, M!TypeOK, OneUnit, OpenInv, WindowIsEmpty, UnitCovers,
              OpenEffective
<1>2. ASSUME NEW ccy \in M!Currency, M!Issue(ccy) PROVE MoneyInv'
  BY <1>2, MoneyIssue
<1>3. ASSUME NEW ccy \in M!Currency, NEW from \in M!Currency, NEW minor \in Amounts,
             NEW class \in M!AssetClass, M!Draw(ccy, minor, from, class)
      PROVE  MoneyInv'
  BY <1>3, MoneyDraw
<1>4. ASSUME NEW d \in M!DrawNo, NEW settled \in BOOLEAN, M!Settle(d, settled) PROVE MoneyInv'
  BY <1>4, MoneySettle
<1> QED
  BY <1>1, <1>2, <1>3, <1>4 DEF M!Next

\* What the window counts covers what was drawn, and is within the ceiling.
LEMMA WindowFits ==
    ASSUME M!MoneyAssumption, MoneyInv PROVE M!DrawsFitTheLimit
<1> SUFFICES ASSUME under # None
             PROVE  spent + M!SumOver(OpenWorth, M!DrawNo)[M!DrawNo]
                        <= M!Ceiling(under) * M!Worth(under)
  BY DEF M!DrawsFitTheLimit, OpenWorth
<1> DEFINE w == M!Worth(under)
           c == M!Ceiling(under)
           s == SumOver(OpenWorth, M!DrawNo)[M!DrawNo]
<1>1. under \in M!Currency /\ UnitCovers(under)
  BY DEF MoneyInv, M!TypeOK
<1>2. w \in Nat /\ c \in Nat
  BY <1>1, WorthIsWhole DEF M!Ceiling, M!MoneyAssumption
<1>3. /\ OpenEffective \in [M!DrawNo -> Nat] /\ OpenWorth \in [M!DrawNo -> Nat]
      /\ \A d \in M!DrawNo : OpenWorth[d] <= OpenEffective[d] * w
  BY <1>1 DEF MoneyInv, M!TypeOK, UnitCovers, OpenEffective, OpenWorth
<1>4. spent <= window_used * w /\ at_risk + window_used <= c
  BY <1>1 DEF UnitCovers
<1> HIDE DEF w, c
<1>5. s <= at_risk * w
  BY <1>2, <1>3, DrawNoFinite, SumOverScaled DEF MoneyInv, OpenInv
<1>6. s \in Nat
  BY <1>3, DrawNoFinite, SumOverFacts
<1> HIDE DEF s
<1>7. at_risk \in Nat /\ window_used \in Nat /\ spent \in Nat
  BY DEF MoneyInv, M!TypeOK
<1>8. /\ (at_risk + window_used) * w = at_risk * w + window_used * w
      /\ at_risk * w \in Nat /\ window_used * w \in Nat
  BY <1>2, <1>7
<1>9. (at_risk + window_used) * w <= c * w /\ c * w \in Nat
  BY <1>2, <1>4, <1>7, Monotone
<1>10. spent + s <= c * w
  BY <1>4, <1>5, <1>6, <1>7, <1>8, <1>9
<1> QED
  BY <1>10, SameSums DEF s, c, w

\* What a window counts covers what was drawn: at the venues, whatever amounts the
\* payments are split into, and at the gateway, whatever currencies are drawn in, when
\* an agent's limits are in one currency.  (In two, run edge_units is a counterexample.)
THEOREM WindowsCoverDraws ==
    ASSUME MaxUnits = 1 PROVE EdgeSpec => []WindowCoversDraws
<1> DEFINE Inv == part = "money" => MoneyInv
<1>1. EdgeInit => Inv
  BY Starts, MoneyInit, EdgeAssumption
<1>2. Inv /\ [EdgeNext]_edgeVars => Inv'
  BY Steps, MoneyStep, EdgeAssumption
<1>3. Inv => DrawsFitTheLimit
  BY WindowFits, EdgeAssumption DEF DrawsFitTheLimit
<1>4. (part = "venues" => V!WindowCoversPayments) /\ DrawsFitTheLimit => WindowCoversDraws
  BY DEF WindowCoversDraws
<1> QED
  BY <1>1, <1>2, <1>3, <1>4, VenuesCoverPayments, PTL DEF EdgeSpec

-----------------------------------------------------------------------------
(* Sums and maxima, as a score needs them.                                  *)

\* Amounts that are each at most w times others, of the same.
LEMMA SumOverScaledPart ==
    ASSUME NEW X, IsFiniteSet(X), NEW f \in [X -> Nat], NEW g \in [X -> Nat], NEW T \in SUBSET X,
           NEW w \in Nat, \A d \in T : f[d] <= g[d] * w
    PROVE  SumOver(f, X)[T] <= SumOver(g, X)[T] * w
<1> DEFINE ff == [d \in T |-> f[d]]
           gg == [d \in T |-> g[d]]
<1>1. IsFiniteSet(T) /\ T \in SUBSET (X \cap T)
  BY FS_Subset
<1>2. ff \in [T -> Nat] /\ gg \in [T -> Nat] /\ \A d \in T : ff[d] <= gg[d] * w
  OBVIOUS
<1>3. (\A d \in T : f[d] = ff[d]) /\ (\A d \in T : g[d] = gg[d])
  OBVIOUS
<1> HIDE DEF ff, gg
<1>4. SumOver(f, X)[T] = SumOver(ff, T)[T]
  BY <1>1, <1>2, <1>3, SumOverAlike
<1>5. SumOver(g, X)[T] = SumOver(gg, T)[T]
  BY <1>1, <1>2, <1>3, SumOverAlike
<1>6. SumOver(ff, T)[T] <= SumOver(gg, T)[T] * w
  BY <1>1, <1>2, SumOverScaled
<1> QED
  BY <1>4, <1>5, <1>6

Moved(T, k) == {i + k : i \in T}

\* The amounts g of the places T are those f has k further.
Moves(f, X, g, T, k) == \A i \in T : i \in Nat /\ i + k \in X /\ g[i] = f[i + k]

\* The sum of a sequence does not depend on where it begins.
LEMMA SumOverMoved ==
    ASSUME NEW X, IsFiniteSet(X), NEW f \in [X -> Nat], NEW Y, IsFiniteSet(Y), NEW g \in [Y -> Nat],
           NEW k \in Nat, NEW T \in SUBSET Y, Moves(f, X, g, T, k)
    PROVE  SumOver(g, Y)[T] = SumOver(f, X)[Moved(T, k)]
<1>0. k \in Nat /\ \A i \in T : i \in Nat /\ i + k \in X /\ g[i] = f[i + k]
  BY DEF Moves
<1> DEFINE s == SumOver(f, X)
           t == SumOver(g, Y)
           Bad == {U \in SUBSET T : t[U] # s[Moved(U, k)]}
<1>1. IsFiniteSet(T)
  BY FS_Subset
<1>2. \A U \in SUBSET Y : \A e \in U : t[U] = g[e] + t[U \ {e}]
  BY <1>1, SumOverRemove
<1>3. \A U \in SUBSET X : \A e \in U : s[U] = f[e] + s[U \ {e}]
  BY <1>1, SumOverRemove
<1>4. s[{}] = 0 /\ t[{}] = 0
  BY <1>1, SumOverEmpty
<1> HIDE DEF s, t
<1> SUFFICES ASSUME Bad # {} PROVE FALSE
  BY DEF s, t
<1>5. PICK U \in Bad : \A e \in U : U \ {e} \notin Bad
  <2>1. Bad \in SUBSET SUBSET T
    OBVIOUS
  <2> HIDE DEF Bad
  <2> QED
    BY <1>1, <2>1, SmallestSet
<1>6. CASE U = {}
  <2>1. Moved({}, k) = {}
    BY DEF Moved
  <2> QED
    BY <1>4, <1>5, <1>6, <2>1
<1>7. CASE U # {}
  <2>1. PICK e \in U : TRUE
    BY <1>7
  <2>2. U \in SUBSET T /\ t[U] # s[Moved(U, k)]
    BY <1>5
  <2>3. t[U \ {e}] = s[Moved(U \ {e}, k)]
    BY <1>5, <2>1, <2>2
  <2>4. Moved(U, k) \in SUBSET X /\ e + k \in Moved(U, k)
    BY <1>0, <2>1, <2>2 DEF Moved
  <2>5. Moved(U, k) \ {e + k} = Moved(U \ {e}, k)
    <3>1. \A i \in U : i \in Nat
      BY <1>0, <2>2
    <3>2. \A i \in U : i + k = e + k => i = e
      BY <2>1, <3>1
    <3> QED
      BY <3>2, Zenon DEF Moved
  <2>6. s[Moved(U, k)] = f[e + k] + s[Moved(U \ {e}, k)]
    BY <1>3, <2>4, <2>5
  <2>7. t[U] = g[e] + t[U \ {e}]
    BY <1>2, <2>1, <2>2
  <2>8. g[e] = f[e + k]
    BY <1>0, <2>1, <2>2
  <2> QED
    BY <2>2, <2>3, <2>6, <2>7, <2>8
<1> QED
  BY <1>6, <1>7

\* The larger of two numbers, and the smaller.
LEMMA MaxOfTwo ==
    ASSUME NEW x \in Int, NEW y \in Int
    PROVE  /\ S!Max({x, y}) \in {x, y} /\ x <= S!Max({x, y}) /\ y <= S!Max({x, y})
           /\ S!Min({x, y}) \in {x, y} /\ S!Min({x, y}) <= x /\ S!Min({x, y}) <= y
<1>1. \E m \in {x, y} : \A z \in {x, y} : m >= z
  OBVIOUS
<1>2. \E m \in {x, y} : \A z \in {x, y} : m <= z
  OBVIOUS
<1>3. S!Max({x, y}) \in {x, y} /\ \A z \in {x, y} : S!Max({x, y}) >= z
  BY <1>1 DEF S!Max
<1>4. S!Min({x, y}) \in {x, y} /\ \A z \in {x, y} : S!Min({x, y}) <= z
  BY <1>2 DEF S!Min
<1> QED
  BY <1>3, <1>4

\* The largest of some of a family of amounts, and of 0.
LEMMA MaxOfSome ==
    ASSUME NEW X, IsFiniteSet(X), NEW f \in [X -> Nat], NEW T \in SUBSET X
    PROVE  LET some == {0} \cup {f[i] : i \in T}
           IN  S!Max(some) \in some /\ \A v \in some : v <= S!Max(some)
<1> DEFINE some(U) == {0} \cup {f[i] : i \in U}
           Bad == {U \in SUBSET X : ~ \E m \in some(U) : \A v \in some(U) : m >= v}
<1>1. Bad = {}
  <2> SUFFICES ASSUME Bad # {} PROVE FALSE
    OBVIOUS
  <2>1. PICK U \in Bad : \A e \in U : U \ {e} \notin Bad
    <3>1. Bad \in SUBSET SUBSET X
      OBVIOUS
    <3> HIDE DEF Bad
    <3> QED
      BY <3>1, SmallestSet
  <2>2. PICK e \in U : TRUE
    <3>1. CASE U = {}
      <4>1. some(U) = {0}
        BY <3>1
      <4> QED
        BY <2>1, <4>1
    <3> QED
      BY <3>1
  <2>3. U \in SUBSET X /\ U \ {e} \in SUBSET X
    BY <2>1
  <2>4. PICK m \in some(U \ {e}) : \A v \in some(U \ {e}) : m >= v
    BY <2>1, <2>2, <2>3
  <2>5. f[e] \in Nat /\ m \in Nat
    BY <2>2, <2>3, <2>4
  <2>6. some(U) = some(U \ {e}) \cup {f[e]}
    BY <2>2
  <2>7. some(U \ {e}) \subseteq Nat
    BY <2>3
  <2>8. CASE m >= f[e]
    BY <2>1, <2>4, <2>6, <2>8
  <2>9. CASE f[e] >= m
    <3>1. \A v \in some(U \ {e}) : f[e] >= v
      BY <2>4, <2>5, <2>7, <2>9
    <3>2. f[e] \in some(U) /\ \A v \in some(U) : f[e] >= v
      BY <2>5, <2>6, <3>1
    <3> QED
      BY <2>1, <3>2
  <2> QED
    BY <2>5, <2>8, <2>9
<1>2. \E m \in some(T) : \A v \in some(T) : m >= v
  BY <1>1
<1>3. some(T) \subseteq Nat
  OBVIOUS
<1> HIDE DEF some
<1>4. S!Max(some(T)) \in some(T) /\ \A v \in some(T) : S!Max(some(T)) >= v
  BY <1>2 DEF S!Max
<1> QED
  BY <1>3, <1>4 DEF some

-----------------------------------------------------------------------------
(* The score: what an agent is judged by.                                   *)

Counterparties == Counterparty \cup {Unnamed}

\* The events of agent a that settled with one of L.
SettledWith(a, L) ==
    {i \in DOMAIN a.events : a.events[i].e.settled /\ a.events[i].e.counterparty \in L}

\* No event is of a time to come, and the counts are of events.
Sound(a) ==
    /\ \A i \in DOMAIN a.events : a.events[i].at <= now
    /\ a.successes <= a.total /\ a.violations <= a.total
    /\ a.violations = 0 => \A i \in DOMAIN a.events : ~ a.events[i].e.violated

StatsInv == now <= Horizon /\ Sound(agent)

\* What is remembered of settlements, with whomever, was earned with them.
EarnedInv ==
    \A L \in SUBSET Counterparties :
        SumOver(S!Minors(agent), DOMAIN agent.events)[SettledWith(agent, L)]
            <= SumOver(earned, Counterparties)[L]

ScoreInv == S!TypeOK /\ StatsInv /\ EarnedInv

LEMMA CounterpartiesFinite == ASSUME S!ScoringAssumption PROVE IsFiniteSet(Counterparties)
<1>1. IsFiniteSet(Counterparty)
  BY DEF S!ScoringAssumption, S!IsFiniteSet, IsFiniteSet
<1>2. IsFiniteSet(Counterparty \cup {Unnamed})
  BY <1>1, FS_AddElement
<1> QED
  BY <1>2 DEF Counterparties

LEMMA EventFacts ==
    ASSUME NEW a \in S!AgentStats
    PROVE  /\ Len(a.events) \in Nat /\ DOMAIN a.events = 1 .. Len(a.events)
           /\ IsFiniteSet(DOMAIN a.events)
           /\ \A i \in DOMAIN a.events :
                 /\ a.events[i].e \in S!Event /\ a.events[i].at \in Nat
                 /\ a.events[i].e.minor \in Nat
           /\ S!Minors(a) \in [DOMAIN a.events -> Nat]
           /\ a.related \subseteq Counterparty
           /\ a.total \in Nat /\ a.successes \in Nat /\ a.violations \in Nat
           /\ a.provenance \in Nat
<1>1. a.events \in Seq([e : S!Event, at : Nat])
  BY DEF S!AgentStats
<1>2. Len(a.events) \in Nat /\ DOMAIN a.events = 1 .. Len(a.events)
  BY <1>1
<1>3. \A i \in DOMAIN a.events : a.events[i] \in [e : S!Event, at : Nat]
  <2> DEFINE T == [e : S!Event, at : Nat]
             q == a.events
  <2>1. q \in Seq(T)
    BY <1>1
  <2> HIDE DEF T, q
  <2>2. \A i \in DOMAIN q : q[i] \in T
    BY <2>1
  <2> QED
    BY <2>2 DEF T, q
<1>4. \A i \in DOMAIN a.events :
          /\ a.events[i].e \in S!Event /\ a.events[i].at \in Nat
          /\ a.events[i].e.minor \in Nat
  BY <1>3 DEF S!Event
<1>5. IsFiniteSet(DOMAIN a.events)
  BY <1>2, FS_Interval
<1> QED
  BY <1>2, <1>4, <1>5 DEF S!Minors, S!AgentStats

\* The sum of what some of the events are of, with one of them and without.
LEMMA EventsSum ==
    ASSUME NEW a \in S!AgentStats, NEW U \in SUBSET DOMAIN a.events
    PROVE  /\ SumOver(S!Minors(a), DOMAIN a.events)[U] \in Nat
           /\ \A i \in U : SumOver(S!Minors(a), DOMAIN a.events)[U]
                  = a.events[i].e.minor + SumOver(S!Minors(a), DOMAIN a.events)[U \ {i}]
<1> DEFINE X == DOMAIN a.events
           f == S!Minors(a)
<1>1. IsFiniteSet(X) /\ f \in [X -> Nat] /\ U \in SUBSET X
  BY EventFacts
<1>2. \A i \in U : f[i] = a.events[i].e.minor
  BY DEF S!Minors
<1> HIDE DEF X, f
<1>3. SumOver(f, X)[U] \in Nat
  BY <1>1, SumOverFacts
<1>4. \A i \in U : SumOver(f, X)[U] = f[i] + SumOver(f, X)[U \ {i}]
  BY <1>1, SumOverRemove
<1> QED
  BY <1>2, <1>3, <1>4 DEF X, f

\* The sums of two that remember the same.
LEMMA MovedSum ==
    ASSUME NEW a \in S!AgentStats, NEW b \in S!AgentStats, NEW k \in Nat,
           NEW T \in SUBSET DOMAIN b.events,
           Moves(S!Minors(a), DOMAIN a.events, S!Minors(b), T, k)
    PROVE  SumOver(S!Minors(b), DOMAIN b.events)[T]
               = SumOver(S!Minors(a), DOMAIN a.events)[Moved(T, k)]
<1> DEFINE X == DOMAIN a.events
           Y == DOMAIN b.events
           f == S!Minors(a)
           g == S!Minors(b)
<1>1. IsFiniteSet(X) /\ IsFiniteSet(Y) /\ f \in [X -> Nat] /\ g \in [Y -> Nat]
  BY EventFacts
<1>2. T \in SUBSET Y /\ Moves(f, X, g, T, k)
  OBVIOUS
<1> HIDE DEF X, Y, f, g
<1>3. SumOver(g, Y)[T] = SumOver(f, X)[Moved(T, k)]
  BY <1>1, <1>2, SumOverMoved
<1> QED
  BY <1>3 DEF X, Y, f, g

\* b remembers one event more than a does, or has forgotten the oldest for it (k = 1).
Remembers(b, a, k) ==
    /\ Len(b.events) = Len(a.events) + 1 - k /\ Len(b.events) # 0
    /\ \A i \in 1 .. Len(b.events) - 1 : b.events[i] = a.events[i + k]

\* Nothing is forgotten while there is room.
Continues(b, a) ==
    \E k \in {0, 1} : Remembers(b, a, k) /\ (Len(a.events) < MaxEvents => k = 0)

LEMMA IngestedFacts ==
    ASSUME S!ScoringAssumption, NEW a \in S!AgentStats, Len(a.events) <= MaxEvents,
           NEW e \in S!Event, NEW at \in Nat, NEW c, c = S!Ingested(a, e, at)
    PROVE  /\ c \in S!AgentStats /\ Len(c.events) <= MaxEvents /\ Len(c.events) \in Nat \ {0}
           /\ Continues(c, a)
           /\ c.events[Len(c.events)] = [e |-> e, at |-> at]
           /\ c.total = a.total + 1
           /\ c.successes = a.successes + (IF e.settled THEN 1 ELSE 0)
           /\ c.violations = a.violations + (IF e.violated THEN 1 ELSE 0)
           /\ c.related = a.related /\ c.provenance = a.provenance
<1> DEFINE T == [e : S!Event, at : Nat]
           record == [e |-> e, at |-> at]
           more == IF Len(a.events) = MaxEvents THEN Append(Tail(a.events), record)
                                                ELSE Append(a.events, record)
           b == S!Ingested(a, e, at)
<1>1. [e EXCEPT !.settled = S!Settles(e)] = e
  BY DEF S!Event, S!Settles
<1>2. record \in T /\ a.events \in Seq(T) /\ MaxEvents \in Nat \ {0}
  BY DEF S!AgentStats, S!ScoringAssumption
<1>3. a.total \in Nat /\ a.successes \in Nat /\ a.violations \in Nat
  BY EventFacts
<1>4. b = [a EXCEPT !.events = more,
                    !.total = @ + 1,
                    !.successes = @ + (IF e.settled THEN 1 ELSE 0),
                    !.violations = @ + (IF e.violated THEN 1 ELSE 0)]
  BY <1>1 DEF S!Ingested, S!Settles
<1> HIDE DEF more
<1>5. /\ b.events = more
      /\ b.total = a.total + 1
      /\ b.successes = a.successes + (IF e.settled THEN 1 ELSE 0)
      /\ b.violations = a.violations + (IF e.violated THEN 1 ELSE 0)
      /\ b.related = a.related /\ b.provenance = a.provenance
  BY <1>4 DEF S!AgentStats
<1>6. /\ more \in Seq(T) /\ Len(more) \in Nat \ {0} /\ Len(more) <= MaxEvents
      /\ \E k \in {0, 1} :
            /\ Len(more) = Len(a.events) + 1 - k /\ (Len(a.events) < MaxEvents => k = 0)
            /\ \A i \in 1 .. Len(more) - 1 : more[i] = a.events[i + k]
      /\ more[Len(more)] = record
  <2> HIDE DEF T, record
  <2>1. CASE Len(a.events) = MaxEvents
    <3>1. more = Append(Tail(a.events), record)
      BY <2>1 DEF more
    <3>2. Tail(a.events) \in Seq(T) /\ Len(Tail(a.events)) = Len(a.events) - 1
      BY <1>2, <2>1
    <3>3. \A i \in 1 .. Len(a.events) - 1 : Tail(a.events)[i] = a.events[i + 1]
      BY <1>2, <2>1
    <3>4. more \in Seq(T) /\ Len(more) = Len(a.events) /\ more[Len(more)] = record
      BY <1>2, <3>1, <3>2
    <3>5. \A i \in 1 .. Len(more) - 1 : more[i] = a.events[i + 1]
      BY <1>2, <3>1, <3>2, <3>3, <3>4
    <3> QED
      BY <1>2, <2>1, <3>4, <3>5
  <2>2. CASE Len(a.events) # MaxEvents
    <3>1. more = Append(a.events, record)
      BY <2>2 DEF more
    <3>2. more \in Seq(T) /\ Len(more) = Len(a.events) + 1 /\ more[Len(more)] = record
      BY <1>2, <3>1
    <3>3. \A i \in 1 .. Len(more) - 1 : more[i] = a.events[i + 0]
      BY <1>2, <3>1, <3>2
    <3>4. Len(more) = Len(a.events) + 1 - 0
      BY <1>2, <3>2
    <3> QED
      BY <1>2, <2>2, <3>2, <3>3, <3>4
  <2> QED
    BY <2>1, <2>2
<1>7. b \in S!AgentStats
  <2>1. b = [events |-> b.events, total |-> b.total, successes |-> b.successes,
             violations |-> b.violations, related |-> b.related, provenance |-> b.provenance]
    BY <1>4 DEF S!AgentStats
  <2>2. a.related \in SUBSET Counterparty /\ a.provenance \in Nat
    BY EventFacts
  <2>3. b.total \in Nat /\ b.successes \in Nat /\ b.violations \in Nat
    BY <1>3, <1>5
  <2> HIDE DEF b
  <2> QED
    BY <1>5, <1>6, <2>1, <2>2, <2>3 DEF S!AgentStats
<1>8. Continues(b, a)
  <2> HIDE DEF b
  <2> QED
    BY <1>5, <1>6 DEF Remembers, Continues
<1>9. b.events[Len(b.events)] = record
  BY <1>5, <1>6
<1>10. c = b
  OBVIOUS
<1> HIDE DEF b
<1> QED
  BY <1>5, <1>6, <1>7, <1>8, <1>9, <1>10

\* What the events that both remember sum to.
LEMMA IngestedSum ==
    ASSUME NEW a \in S!AgentStats, NEW b \in S!AgentStats, NEW k \in {0, 1},
           Remembers(b, a, k),
           NEW T \in SUBSET (1 .. Len(b.events) - 1)
    PROVE  /\ Moved(T, k) \in SUBSET DOMAIN a.events
           /\ SumOver(S!Minors(b), DOMAIN b.events)[T]
                  = SumOver(S!Minors(a), DOMAIN a.events)[Moved(T, k)]
<1>1. /\ Len(a.events) \in Nat /\ DOMAIN a.events = 1 .. Len(a.events)
      /\ Len(b.events) \in Nat /\ DOMAIN b.events = 1 .. Len(b.events)
      /\ S!Minors(a) \in [DOMAIN a.events -> Nat]
      /\ S!Minors(b) \in [DOMAIN b.events -> Nat]
      /\ Len(b.events) = Len(a.events) + 1 - k /\ Len(b.events) # 0
      /\ \A i \in 1 .. Len(b.events) - 1 : b.events[i] = a.events[i + k]
  BY EventFacts DEF Remembers
<1>2. \A i \in T : i \in Nat /\ i \in 1 .. Len(b.events) /\ i + k \in 1 .. Len(a.events)
  BY <1>1
<1>3. \A i \in T : S!Minors(b)[i] = S!Minors(a)[i + k]
  BY <1>1, <1>2 DEF S!Minors
<1>4. T \in SUBSET (1 .. Len(b.events)) /\ k \in Nat
  BY <1>2
<1>5. SumOver(S!Minors(b), DOMAIN b.events)[T]
          = SumOver(S!Minors(a), DOMAIN a.events)[Moved(T, k)]
  <2>1. Moves(S!Minors(a), DOMAIN a.events, S!Minors(b), T, k)
    BY <1>1, <1>2, <1>3 DEF Moves
  <2>2. T \in SUBSET DOMAIN b.events /\ k \in Nat
    BY <1>1, <1>4
  <2> QED
    BY <2>1, <2>2, MovedSum
<1>6. Moved(T, k) \in SUBSET (1 .. Len(a.events))
  BY <1>2 DEF Moved
<1> QED
  BY <1>1, <1>5, <1>6

LEMMA IngestedSound ==
    ASSUME S!ScoringAssumption, NEW a \in S!AgentStats, Len(a.events) <= MaxEvents, Sound(a),
           NEW e \in S!Event, NEW at \in Nat, at <= now, now \in Nat,
           NEW b, b = S!Ingested(a, e, at)
    PROVE  Sound(b)
<1> DEFINE n == Len(a.events)
           m == Len(b.events)
<1>1. /\ b \in S!AgentStats /\ m \in Nat \ {0} /\ Continues(b, a)
      /\ b.events[m] = [e |-> e, at |-> at]
      /\ b.total = a.total + 1
      /\ b.successes = a.successes + (IF e.settled THEN 1 ELSE 0)
      /\ b.violations = a.violations + (IF e.violated THEN 1 ELSE 0)
  BY IngestedFacts
<1>2. PICK k \in {0, 1} : Remembers(b, a, k)
  BY <1>1 DEF Continues
<1>3. m = n + 1 - k /\ \A i \in 1 .. m - 1 : b.events[i] = a.events[i + k]
  BY <1>2 DEF Remembers
<1>4. n \in Nat /\ DOMAIN a.events = 1 .. n /\ DOMAIN b.events = 1 .. m
  BY <1>1, EventFacts
<1>5. \A i \in 1 .. m : i # m => i \in 1 .. m - 1 /\ i + k \in 1 .. n
  <2>1. m \in Nat /\ n \in Nat /\ m = n + 1 - k
    BY <1>1, <1>3, <1>4
  <2> HIDE DEF m, n
  <2>2. CASE k = 0
    BY <2>1, <2>2
  <2>3. CASE k = 1
    BY <2>1, <2>3
  <2> QED
    BY <2>2, <2>3
<1>6. e.settled \in BOOLEAN /\ e.violated \in BOOLEAN
  BY DEF S!Event
<1>7. \A i \in 1 .. n : a.events[i].at <= now
  BY <1>4 DEF Sound
<1>8. \A i \in 1 .. m : b.events[i].at <= now
  <2> TAKE i \in 1 .. m
  <2>1. CASE i = m
    BY <1>1, <2>1
  <2>2. CASE i # m
    BY <1>3, <1>5, <1>7, <2>2
  <2> QED
    BY <2>1, <2>2
<1>9. /\ a.total \in Nat /\ a.successes \in Nat /\ a.violations \in Nat
      /\ a.successes <= a.total /\ a.violations <= a.total
  BY EventFacts DEF Sound
<1>10. b.successes <= b.total /\ b.violations <= b.total
  BY <1>1, <1>6, <1>9
<1>11. ASSUME b.violations = 0, NEW i \in 1 .. m PROVE ~ b.events[i].e.violated
  <2>1. ~ e.violated /\ a.violations = 0
    BY <1>1, <1>6, <1>9, <1>11
  <2>2. \A j \in 1 .. n : ~ a.events[j].e.violated
    BY <1>4, <2>1 DEF Sound
  <2>3. CASE i = m
    BY <1>1, <2>1, <2>3
  <2>4. CASE i # m
    BY <1>3, <1>5, <2>2, <2>4
  <2> QED
    BY <2>3, <2>4
<1> QED
  BY <1>4, <1>8, <1>10, <1>11 DEF Sound

LEMMA ScoreInit == ASSUME S!ScoringAssumption, S!Init PROVE ScoreInv
<1> DEFINE none == [events |-> <<>>, total |-> 0, successes |-> 0, violations |-> 0,
                    related |-> {}, provenance |-> 0]
<1>1. /\ now = 0 /\ agent = none
      /\ earned = [c \in Counterparty \cup {Unnamed} |-> 0]
  BY DEF S!Init
<1>2. S!TypeOK
  BY <1>1 DEF S!TypeOK, S!AgentStats, S!ScoringAssumption
<1>3. DOMAIN agent.events = {} /\ agent.successes = 0 /\ agent.total = 0 /\ agent.violations = 0
  BY <1>1
<1>4. StatsInv
  BY <1>1, <1>3 DEF StatsInv, Sound, S!ScoringAssumption
<1>5. EarnedInv
  <2> SUFFICES ASSUME NEW L \in SUBSET Counterparties
               PROVE  SumOver(S!Minors(agent), DOMAIN agent.events)[SettledWith(agent, L)]
                          <= SumOver(earned, Counterparties)[L]
    BY DEF EarnedInv
  <2>1. SettledWith(agent, L) = {}
    BY <1>3 DEF SettledWith
  <2>2. S!Minors(agent) \in [{} -> Nat] /\ IsFiniteSet({})
    BY <1>3, FS_EmptySet DEF S!Minors
  <2>3. SumOver(S!Minors(agent), {})[{}] = 0
    BY <2>2, SumOverEmpty
  <2>4. IsFiniteSet(Counterparties) /\ earned \in [Counterparties -> Nat]
    <3>1. earned \in [Counterparties -> Nat]
      BY <1>1 DEF Counterparties
    <3> QED
      BY <3>1, CounterpartiesFinite
  <2>5. SumOver(earned, Counterparties)[L] \in Nat
    BY <2>4, SumOverFacts
  <2> QED
    BY <1>3, <2>1, <2>3, <2>5
<1> QED
  BY <1>2, <1>4, <1>5 DEF ScoreInv

LEMMA ScoreIngest ==
    ASSUME S!ScoringAssumption, ScoreInv, NEW e \in Events, NEW at \in 0 .. now, S!Ingest(e, at)
    PROVE  ScoreInv'
<1>1. /\ agent \in S!AgentStats /\ Len(agent.events) <= MaxEvents
      /\ earned \in [Counterparties -> Nat] /\ now \in Nat
      /\ e \in S!Event /\ at \in Nat /\ at <= now /\ now <= Horizon
  BY DEF ScoreInv, S!TypeOK, StatsInv, S!ScoringAssumption, Counterparties
<1>2. /\ agent' = S!Ingested(agent, e, at) /\ now' = now
      /\ earned' = IF e.settled THEN [earned EXCEPT ![e.counterparty] = @ + e.minor] ELSE earned
  BY DEF S!Ingest
<1> DEFINE n == Len(agent.events)
           m == Len(agent'.events)
<1>3. /\ agent' \in S!AgentStats /\ m <= MaxEvents /\ m \in Nat \ {0}
      /\ agent'.events[m] = [e |-> e, at |-> at]
      /\ agent'.total = agent.total + 1
      /\ agent'.successes = agent.successes + (IF e.settled THEN 1 ELSE 0)
      /\ agent'.violations = agent.violations + (IF e.violated THEN 1 ELSE 0)
  BY <1>1, <1>2, IngestedFacts
<1>4. PICK k \in {0, 1} : Remembers(agent', agent, k)
  <2>1. Continues(agent', agent)
    BY <1>1, <1>2, IngestedFacts
  <2> QED
    BY <2>1 DEF Continues
<1>5. n \in Nat /\ DOMAIN agent.events = 1 .. n /\ DOMAIN agent'.events = 1 .. m
  BY <1>1, <1>3, EventFacts
<1>a. m = n + 1 - k /\ \A i \in 1 .. m - 1 : agent'.events[i] = agent.events[i + k]
  BY <1>4 DEF Remembers
<1>6. /\ e.minor \in Nat /\ e.settled \in BOOLEAN /\ e.violated \in BOOLEAN
      /\ e.counterparty \in Counterparties
  BY <1>1 DEF S!Event, Counterparties
<1>7. IsFiniteSet(Counterparties)
  BY CounterpartiesFinite
<1>8. /\ earned' \in [Counterparties -> Nat]
      /\ \A L \in SUBSET Counterparties :
            SumOver(earned', Counterparties)[L] = SumOver(earned, Counterparties)[L]
                + (IF e.settled /\ e.counterparty \in L THEN e.minor ELSE 0)
  <2>1. CASE e.settled
    <3>1. earned' = [earned EXCEPT ![e.counterparty] = @ + e.minor]
      BY <1>2, <2>1
    <3>2. \A L \in SUBSET Counterparties :
              SumOver(earned', Counterparties)[L] = SumOver(earned, Counterparties)[L]
                  + (IF e.counterparty \in L THEN e.minor ELSE 0)
      <4> DEFINE W == Counterparties
                 f == earned
                 g == earned'
                 x == e.counterparty
                 v == e.minor
      <4>1. /\ IsFiniteSet(W) /\ f \in [W -> Nat] /\ g \in [W -> Nat] /\ x \in W /\ v \in Nat
            /\ g[x] = f[x] + v /\ \A y \in W \ {x} : g[y] = f[y]
        BY <1>1, <1>6, <1>7, <3>1
      <4> HIDE DEF W, f, g, x, v
      <4>2. ASSUME NEW L \in SUBSET W
            PROVE  SumOver(g, W)[L] = SumOver(f, W)[L] + (IF x \in L THEN v ELSE 0)
        BY <4>1, SumOverGrown
      <4> QED
        BY <4>2 DEF W, f, g, x, v
    <3>3. earned' \in [Counterparties -> Nat]
      BY <1>1, <1>6, <3>1
    <3> QED
      BY <2>1, <3>2, <3>3
  <2>2. CASE ~ e.settled
    <3>1. earned' = earned
      BY <1>2, <2>2
    <3>2. \A L \in SUBSET Counterparties : SumOver(earned, Counterparties)[L] \in Nat
      BY <1>1, <1>7, SumOverFacts
    <3> QED
      BY <1>1, <2>2, <3>1, <3>2
  <2> QED
    BY <2>1, <2>2
<1>9. S!TypeOK'
  BY <1>1, <1>2, <1>3, <1>8 DEF S!TypeOK, Counterparties
<1>10. \A i \in 1 .. m : i # m => i \in 1 .. m - 1 /\ i + k \in 1 .. n
  <2>1. m \in Nat /\ n \in Nat /\ m = n + 1 - k
    BY <1>3, <1>a, <1>5
  <2> HIDE DEF m, n
  <2>2. CASE k = 0
    BY <2>1, <2>2
  <2>3. CASE k = 1
    BY <2>1, <2>3
  <2> QED
    BY <2>2, <2>3
<1>11. StatsInv'
  <2>1. Sound(agent')
    BY <1>1, <1>2, IngestedSound DEF ScoreInv, StatsInv
  <2> QED
    BY <1>1, <1>2, <2>1 DEF StatsInv, Sound
<1>12. EarnedInv'
  <2> SUFFICES ASSUME NEW L \in SUBSET Counterparties
               PROVE  SumOver(S!Minors(agent'), DOMAIN agent'.events)[SettledWith(agent', L)]
                          <= SumOver(earned', Counterparties)[L]
    BY DEF EarnedInv, S!Minors, SettledWith
  <2> DEFINE U == SettledWith(agent', L)
             T == U \ {m}
             s == SumOver(S!Minors(agent), DOMAIN agent.events)
             t == SumOver(S!Minors(agent'), DOMAIN agent'.events)
             total == SumOver(earned, Counterparties)[L]
  <2>1. /\ IsFiniteSet(DOMAIN agent.events) /\ S!Minors(agent) \in [DOMAIN agent.events -> Nat]
        /\ IsFiniteSet(DOMAIN agent'.events)
        /\ S!Minors(agent') \in [DOMAIN agent'.events -> Nat]
    BY <1>1, <1>3, EventFacts
  <2>2. U \in SUBSET (1 .. m) /\ T \in SUBSET (1 .. m - 1)
    BY <1>5, <1>10 DEF SettledWith
  <2>3. Moved(T, k) \in SUBSET DOMAIN agent.events /\ t[T] = s[Moved(T, k)]
    <3>1. T \in SUBSET (1 .. Len(agent'.events) - 1)
      BY <2>2
    <3> HIDE DEF T
    <3> QED
      BY <1>1, <1>3, <1>4, <3>1, IngestedSum
  <2>4. Moved(T, k) \subseteq SettledWith(agent, L)
    <3> SUFFICES ASSUME NEW i \in T PROVE i + k \in SettledWith(agent, L)
      BY DEF Moved
    <3>1. i \in 1 .. m - 1 /\ i \in U
      BY <2>2
    <3>2. agent'.events[i].e.settled /\ agent'.events[i].e.counterparty \in L
      BY <3>1 DEF SettledWith
    <3>3. agent'.events[i] = agent.events[i + k]
      BY <1>a, <3>1
    <3>4. i + k \in DOMAIN agent.events
      BY <2>3 DEF Moved
    <3> QED
      BY <3>2, <3>3, <3>4 DEF SettledWith
  <2>5. SettledWith(agent, L) \in SUBSET DOMAIN agent.events
    BY DEF SettledWith
  <2>6. s[Moved(T, k)] <= s[SettledWith(agent, L)]
    BY <2>1, <2>4, <2>5, SumOverWithin
  <2>7. s[SettledWith(agent, L)] <= total
    BY DEF ScoreInv, EarnedInv
  <2>8. total \in Nat /\ s[Moved(T, k)] \in Nat /\ s[SettledWith(agent, L)] \in Nat
    BY <1>1, <1>7, <2>1, <2>3, <2>5, SumOverFacts
  <2>9. m \in U <=> e.settled /\ e.counterparty \in L
    BY <1>3, <1>5 DEF SettledWith
  <2>10. t[U] = t[T] + (IF m \in U THEN e.minor ELSE 0)
    <3>1. CASE m \in U
      <4>1. t[U] = agent'.events[m].e.minor + t[U \ {m}]
        <5>1. U \in SUBSET DOMAIN agent'.events
          BY <1>5, <2>2
        <5> HIDE DEF U
        <5>2. \A i \in U : t[U] = agent'.events[i].e.minor + t[U \ {i}]
          BY <1>3, <5>1, EventsSum
        <5> QED
          BY <3>1, <5>2
      <4>2. agent'.events[m].e.minor = e.minor
        BY <1>3
      <4>3. t[T] \in Nat
        BY <2>3, <2>8
      <4>4. t[U] = e.minor + t[T]
        BY <4>1, <4>2
      <4> HIDE DEF U, T, t, m
      <4> QED
        BY <1>6, <3>1, <4>3, <4>4
    <3>2. CASE m \notin U
      <4>1. T = U
        BY <3>2
      <4>2. t[T] \in Nat
        BY <2>3, <2>8
      <4> HIDE DEF U, T, t, m
      <4> QED
        BY <3>2, <4>1, <4>2
    <3> QED
      BY <3>1, <3>2
  <2>11. SumOver(earned', Counterparties)[L] = total + (IF m \in U THEN e.minor ELSE 0)
    BY <1>8, <2>9
  <2> HIDE DEF s, t, U, T, total, m
  <2> QED
    BY <1>6, <2>3, <2>6, <2>7, <2>8, <2>10, <2>11 DEF t, U
<1> QED
  BY <1>9, <1>11, <1>12 DEF ScoreInv

\* Nothing else changes what is remembered of events.
LEMMA ScoreKept ==
    ASSUME S!ScoringAssumption, ScoreInv, S!TypeOK', now <= now', now' <= Horizon,
           earned' = earned, agent'.events = agent.events, agent'.total = agent.total,
           agent'.successes = agent.successes, agent'.violations = agent.violations
    PROVE  ScoreInv'
<1>1. StatsInv'
  <2>1. \A i \in DOMAIN agent.events : agent.events[i].at \in Nat
    BY EventFacts DEF ScoreInv, S!TypeOK
  <2>2. now \in Nat /\ now' \in Nat
    BY DEF ScoreInv, S!TypeOK
  <2> QED
    BY <2>1, <2>2 DEF ScoreInv, StatsInv, Sound
<1>2. \A L : SettledWith(agent', L) = SettledWith(agent, L)
  BY DEF SettledWith
<1>3. S!Minors(agent') = S!Minors(agent)
  BY DEF S!Minors
<1>4. EarnedInv'
  BY <1>2, <1>3 DEF ScoreInv, EarnedInv, S!Minors, SettledWith
<1> QED
  BY <1>1, <1>4 DEF ScoreInv

LEMMA ScoreStep == ASSUME S!ScoringAssumption, ScoreInv, [S!Next]_(S!vars) PROVE ScoreInv'
<1>1. /\ agent \in S!AgentStats /\ Len(agent.events) <= MaxEvents /\ now \in Nat
      /\ now <= Horizon /\ Horizon \in Nat
      /\ earned \in [Counterparty \cup {Unnamed} -> Nat]
  BY DEF ScoreInv, S!TypeOK, StatsInv, S!ScoringAssumption
<1>2. CASE UNCHANGED S!vars
  <2>1. now' = now /\ agent' = agent /\ earned' = earned
    BY <1>2 DEF S!vars
  <2>2. S!TypeOK'
    BY <1>1, <2>1 DEF S!TypeOK
  <2> QED
    BY <1>1, <2>1, <2>2, ScoreKept
<1>3. ASSUME NEW e \in Events, NEW at \in 0 .. now, S!Ingest(e, at) PROVE ScoreInv'
  BY <1>3, ScoreIngest
<1>4. ASSUME NEW c \in Counterparty, S!MarkRelatedCounterparty(c) PROVE ScoreInv'
  <2>1. now' = now /\ earned' = earned /\ agent' = [agent EXCEPT !.related = @ \cup {c}]
    BY <1>4 DEF S!MarkRelatedCounterparty
  <2>2. /\ agent' \in S!AgentStats /\ agent'.events = agent.events
        /\ agent'.total = agent.total /\ agent'.successes = agent.successes
        /\ agent'.violations = agent.violations
    BY <1>1, <2>1 DEF S!AgentStats
  <2>3. S!TypeOK'
    BY <1>1, <2>1, <2>2 DEF S!TypeOK
  <2> QED
    BY <1>1, <2>1, <2>2, <2>3, ScoreKept
<1>5. ASSUME NEW w \in Weights, S!IngestProvenance(w) PROVE ScoreInv'
  <2>1. /\ now' = now /\ earned' = earned /\ agent' = [agent EXCEPT !.provenance = w]
        /\ w \in Nat
    BY <1>5 DEF S!IngestProvenance, S!ScoringAssumption
  <2>2. /\ agent' \in S!AgentStats /\ agent'.events = agent.events
        /\ agent'.total = agent.total /\ agent'.successes = agent.successes
        /\ agent'.violations = agent.violations
    BY <1>1, <2>1 DEF S!AgentStats
  <2>3. S!TypeOK'
    BY <1>1, <2>1, <2>2 DEF S!TypeOK
  <2> QED
    BY <1>1, <2>1, <2>2, <2>3, ScoreKept
<1>6. CASE S!Tick
  <2>1. now' = now + 1 /\ now < Horizon /\ earned' = earned /\ agent' = agent
    BY <1>6 DEF S!Tick
  <2>2. now' \in Nat /\ now <= now' /\ now' <= Horizon
    BY <1>1, <2>1
  <2>3. S!TypeOK'
    BY <1>1, <2>1, <2>2 DEF S!TypeOK
  <2> QED
    BY <1>1, <2>1, <2>2, <2>3, ScoreKept
<1> QED
  BY <1>2, <1>3, <1>4, <1>5, <1>6 DEF S!Next

-----------------------------------------------------------------------------
\* Quotients, by their bounds.
LEMMA QuotientAtMost ==
    ASSUME NEW x \in Nat, NEW m \in Nat \ {0}, NEW c \in Nat, x <= c * m
    PROVE  x \div m \in 0 .. c
<1> DEFINE q == x \div m
<1>1. q \in Nat /\ q * m <= x
  BY DivBelow
<1> HIDE DEF q
<1>2. ~ (c + 1 <= q)
  <2> SUFFICES ASSUME c + 1 <= q PROVE FALSE
    OBVIOUS
  <2>1. (c + 1) * m <= q * m
    BY <1>1, Monotone
  <2>2. (c + 1) * m = c * m + m /\ c * m \in Nat /\ q * m \in Nat
    BY <1>1
  <2> QED
    BY <1>1, <2>1, <2>2
<1>3. q \in 0 .. c
  BY <1>1, <1>2
<1> QED
  BY <1>3 DEF q

LEMMA QuotientAtLeast ==
    ASSUME NEW x \in Nat, NEW m \in Nat \ {0}, NEW c \in Nat, c * m <= x
    PROVE  c <= x \div m
<1> DEFINE q == x \div m
<1>1. q \in Nat /\ x < q * m + m
  BY DivBelow
<1> HIDE DEF q
<1>2. ~ (q + 1 <= c)
  <2> SUFFICES ASSUME q + 1 <= c PROVE FALSE
    OBVIOUS
  <2>1. (q + 1) * m <= c * m
    BY <1>1, Monotone
  <2>2. (q + 1) * m = q * m + m /\ c * m \in Nat /\ q * m \in Nat
    BY <1>1
  <2> QED
    BY <1>1, <2>1, <2>2
<1>3. c <= q
  BY <1>1, <1>2
<1> QED
  BY <1>3 DEF q

LEMMA QuotientGrows ==
    ASSUME NEW x \in Nat, NEW y \in Nat, NEW m \in Nat \ {0}, NEW n \in Nat \ {0},
           x <= y, m <= n
    PROVE  x \div n <= y \div m
<1> DEFINE q == x \div n
<1>1. q \in Nat /\ q * n <= x
  BY DivBelow
<1> HIDE DEF q
<1>2. m * q <= n * q /\ m * q = q * m /\ n * q = q * n /\ q * m \in Nat /\ q * n \in Nat
  BY <1>1, Monotone
<1>3. q * m <= y
  BY <1>1, <1>2
<1>4. q <= y \div m
  BY <1>1, <1>3, QuotientAtLeast
<1> QED
  BY <1>4 DEF q

\* The root of n, squared, is at most n.
LEMMA BitFits ==
    ASSUME NEW n \in Nat, NEW r \in Nat, r * r <= n, NEW bit \in Nat
    PROVE  S!WithBit(n, r, bit) \in Nat /\ S!WithBit(n, r, bit) * S!WithBit(n, r, bit) <= n
BY DEF S!WithBit

LEMMA RootFits ==
    ASSUME NEW n \in Nat PROVE S!Root(n) \in 0 .. 1000 /\ S!Root(n) * S!Root(n) <= n
<1> DEFINE Below(r) == r \in Nat /\ r * r <= n
<1>1. \A r, bit : Below(r) /\ bit \in Nat => Below(S!WithBit(n, r, bit))
  BY BitFits
<1>2. Below(0)
  OBVIOUS
<1> HIDE DEF Below
<1>3. Below(S!Upper(n))
  BY <1>1, <1>2 DEF S!Upper
<1>4. Below(S!Lower(n, S!Upper(n)))
  <2> DEFINE u == S!Upper(n)
  <2>1. Below(u)
    BY <1>3
  <2> HIDE DEF u
  <2>2. Below(S!Lower(n, u))
    BY <1>1, <2>1 DEF S!Lower
  <2> QED
    BY <2>2 DEF u
<1> DEFINE l == S!Lower(n, S!Upper(n))
           m == S!Min({1000, l})
<1>5. l \in Nat /\ l * l <= n
  BY <1>4 DEF Below
<1> HIDE DEF l
<1>6. m \in {1000, l} /\ m <= 1000 /\ m <= l
  <2> DEFINE k == 1000
  <2>1. l \in Int /\ k \in Int
    BY <1>5
  <2>2. m = S!Min({k, l})
    OBVIOUS
  <2> HIDE DEF m, k
  <2>3. S!Min({k, l}) \in {k, l} /\ S!Min({k, l}) <= k /\ S!Min({k, l}) <= l
    BY <2>1, MaxOfTwo
  <2> QED
    BY <2>2, <2>3 DEF k
<1>7. S!Root(n) = m
  BY DEF S!Root, l
<1> HIDE DEF m
<1>8. m \in Nat
  BY <1>5, <1>6
<1>9. m * m <= l * l
  <2>1. m * m <= l * m /\ m * l <= l * l
    BY <1>5, <1>6, <1>8, Monotone
  <2>2. l * m = m * l /\ m * m \in Nat /\ l * m \in Nat /\ l * l \in Nat
    BY <1>5, <1>8
  <2> QED
    BY <2>1, <2>2
<1>10. m * m \in Nat /\ l * l \in Nat
  BY <1>5, <1>8
<1>11. m * m <= n
  BY <1>5, <1>9, <1>10
<1> QED
  BY <1>6, <1>7, <1>8, <1>11

\* What a score is computed from: a compliance, a depth and three penalties.
ScoreOf(c, d, v, p, q) == S!Max({0, (c * d) \div 1000 - v - p - q})
Parts(c, d, v, p, q) == c \in 0 .. 1000 /\ d \in Nat /\ v \in Nat /\ p \in Nat /\ q \in Nat

LEMMA ScoreAtMost ==
    ASSUME NEW c, NEW d, NEW v, NEW p, NEW q, Parts(c, d, v, p, q)
    PROVE  ScoreOf(c, d, v, p, q) \in 0 .. d
<1> DEFINE x == (c * d) \div 1000
<1>1. c \in 0 .. 1000 /\ d \in Nat /\ v \in Nat /\ p \in Nat /\ q \in Nat
  BY DEF Parts
<1>2. c * d <= 1000 * d /\ c * d \in Nat
  BY <1>1, Monotone
<1>3. c * d <= d * 1000
  BY <1>1, <1>2
<1>4. x \in 0 .. d
  BY <1>1, <1>2, <1>3, QuotientAtMost
<1> HIDE DEF x
<1> DEFINE y == x - v - p - q
           z == 0
<1>5. y \in Int /\ y <= d /\ z \in Int
  BY <1>1, <1>4
<1> HIDE DEF y, z
<1>6. S!Max({z, y}) \in {z, y} /\ z <= S!Max({z, y})
  BY <1>5, MaxOfTwo
<1>7. S!Max({z, y}) \in 0 .. d
  BY <1>1, <1>5, <1>6 DEF z
<1> QED
  BY <1>7, Zenon DEF ScoreOf, x, y, z

\* A lower compliance and a higher penalty do not raise a score.
LEMMA ScoreFalls ==
    ASSUME NEW c1, NEW c2, NEW d, NEW v, NEW p1, NEW p2, NEW q,
           Parts(c1, d, v, p1, q), Parts(c2, d, v, p2, q), c2 <= c1, p1 <= p2
    PROVE  ScoreOf(c2, d, v, p2, q) <= ScoreOf(c1, d, v, p1, q)
<1> DEFINE x1 == (c1 * d) \div 1000
           x2 == (c2 * d) \div 1000
<1>1. /\ c1 \in Nat /\ c2 \in Nat /\ d \in Nat /\ v \in Nat /\ p1 \in Nat /\ p2 \in Nat
      /\ q \in Nat
  BY DEF Parts
<1>2. c2 * d <= c1 * d /\ c1 * d \in Nat /\ c2 * d \in Nat
  BY <1>1, Monotone
<1>3. x1 \in Nat /\ x2 \in Nat /\ x2 <= x1
  BY <1>2, DivBelow, QuotientGrows
<1> HIDE DEF x1, x2
<1> DEFINE y1 == x1 - v - p1 - q
           y2 == x2 - v - p2 - q
           z == 0
<1>4. y1 \in Int /\ y2 \in Int /\ y2 <= y1 /\ z \in Int
  BY <1>1, <1>3
<1> HIDE DEF y1, y2, z
<1>5. S!Max({z, y2}) \in {z, y2} /\ z <= S!Max({z, y1}) /\ y1 <= S!Max({z, y1})
      /\ S!Max({z, y1}) \in {z, y1}
  BY <1>4, MaxOfTwo
<1>6. S!Max({z, y2}) <= S!Max({z, y1})
  BY <1>4, <1>5
<1> QED
  BY <1>6, ZenonT(60) DEF ScoreOf, x1, x2, y1, y2, z

-----------------------------------------------------------------------------
\* What Scoring takes from the library, under its name.
LEMMA ScoringNames ==
    /\ \A f, X : S!SumOver(f, X) = SumOver(f, X)
    /\ \A X : S!Cardinality(X) = Cardinality(X)
<1>1. ASSUME NEW f, NEW X PROVE S!SumOver(f, X) = SumOver(f, X)
  BY DEF S!SumOver, SumOver
<1>2. ASSUME NEW X PROVE S!Cardinality(X) = Cardinality(X)
  BY DEF S!Cardinality, Cardinality
<1> QED
  BY <1>1, <1>2

\* An event weighs at most what a new one does.
LEMMA WeightedFacts ==
    ASSUME S!ScoringAssumption, now \in Nat, now <= Horizon, NEW a \in S!AgentStats, Sound(a)
    PROVE  /\ S!Weighted(a) \in [DOMAIN a.events -> Nat]
           /\ Decay[0] \in Nat \ {0}
           /\ \A i \in DOMAIN a.events : S!Weighted(a)[i] <= S!Minors(a)[i] * Decay[0]
<1>1. /\ Horizon \in Nat /\ Decay \in [0 .. Horizon -> Nat \ {0}]
      /\ \A age \in 0 .. Horizon : Decay[age] <= Decay[0]
  BY DEF S!ScoringAssumption
<1>2. Decay[0] \in Nat \ {0}
  BY <1>1
<1>3. ASSUME NEW i \in DOMAIN a.events
      PROVE  /\ S!Weighted(a)[i] \in Nat
             /\ S!Weighted(a)[i] <= S!Minors(a)[i] * Decay[0]
  <2> DEFINE at == a.events[i].at
             v == a.events[i].e.minor
             w == Decay[now - at]
  <2>1. at \in Nat /\ at <= now /\ v \in Nat
    BY EventFacts DEF Sound
  <2>2. now - at \in 0 .. Horizon
    BY <1>1, <2>1
  <2>3. w \in Nat /\ w <= Decay[0]
    BY <1>1, <2>2
  <2>4. S!Weighted(a)[i] = v * w /\ S!Minors(a)[i] = v
    BY DEF S!Weighted, S!Minors, S!DecayWeight
  <2> HIDE DEF at, v, w
  <2> DEFINE d == Decay[0]
  <2>5. d \in Nat /\ w <= d
    BY <1>2, <2>3
  <2> HIDE DEF d
  <2>6. w * v <= d * v /\ w * v = v * w /\ d * v = v * d /\ v * w \in Nat
    BY <2>1, <2>3, <2>5, Monotone
  <2>7. v * w <= v * d
    BY <2>6
  <2> QED
    BY <2>4, <2>6, <2>7 DEF d
<1>4. S!Weighted(a) = [i \in DOMAIN a.events |-> S!Weighted(a)[i]]
  BY DEF S!Weighted
<1> QED
  BY <1>2, <1>3, <1>4

\* The values a score is computed from.
LEMMA ValueFacts ==
    ASSUME S!ScoringAssumption, now \in Nat, now <= Horizon, NEW a \in S!AgentStats, Sound(a)
    PROVE  \A U \in SUBSET DOMAIN a.events :
              /\ S!Value(a, U) = SumOver(S!Weighted(a), DOMAIN a.events)[U]
              /\ S!Value(a, U) \in Nat
              /\ \A T \in SUBSET U : S!Value(a, T) <= S!Value(a, U)
<1> DEFINE X == DOMAIN a.events
           f == S!Weighted(a)
<1>1. IsFiniteSet(X) /\ f \in [X -> Nat]
  BY EventFacts, WeightedFacts
<1>2. \A U : S!Value(a, U) = SumOver(f, X)[U]
  BY ScoringNames DEF S!Value
<1> HIDE DEF X, f
<1>3. \A U \in SUBSET X : SumOver(f, X)[U] \in Nat
  BY <1>1, SumOverFacts
<1>4. ASSUME NEW U \in SUBSET X, NEW T \in SUBSET U
      PROVE  SumOver(f, X)[T] <= SumOver(f, X)[U]
  BY <1>1, SumOverWithin
<1>5. \A U \in SUBSET X : \A T \in SUBSET U : S!Value(a, T) <= S!Value(a, U)
  BY <1>2, <1>4
<1> QED
  BY <1>2, <1>3, <1>5 DEF X, f

\* What is settled is part of the total.
Within(settled, total) == settled \in Nat /\ total \in Nat /\ settled <= total

LEMMA ComplianceFits ==
    ASSUME NEW a \in S!AgentStats, Sound(a), NEW total, NEW settled, Within(settled, total)
    PROVE  S!Compliance(a, total, settled) \in 0 .. 1000
<1>0. settled \in Nat /\ total \in Nat /\ settled <= total
  BY DEF Within
<1>1. ASSUME NEW x \in Nat, NEW y \in Nat \ {0}, x <= y PROVE (x * 1000) \div y \in 0 .. 1000
  <2>1. x * 1000 \in Nat /\ x * 1000 <= 1000 * y
    BY <1>1
  <2> QED
    BY <2>1, QuotientAtMost
<1>2. CASE total > 0
  <2>1. S!Compliance(a, total, settled) = (settled * 1000) \div total
    BY <1>2 DEF S!Compliance
  <2> QED
    BY <1>0, <1>1, <1>2, <2>1
<1>3. CASE ~ (total > 0) /\ a.total > 0
  <2>1. S!Compliance(a, total, settled) = (a.successes * 1000) \div a.total
    BY <1>3 DEF S!Compliance
  <2>2. a.successes \in Nat /\ a.total \in Nat \ {0} /\ a.successes <= a.total
    BY <1>3, EventFacts DEF Sound
  <2> DEFINE x == a.successes
             y == a.total
  <2>3. x \in Nat /\ y \in Nat \ {0} /\ x <= y
    BY <2>2
  <2> HIDE DEF x, y
  <2>4. (x * 1000) \div y \in 0 .. 1000
    BY <1>1, <2>3
  <2> QED
    BY <2>1, <2>4 DEF x, y
<1>4. CASE ~ (total > 0) /\ ~ (a.total > 0)
  BY <1>4 DEF S!Compliance
<1> QED
  BY <1>2, <1>3, <1>4

LEMMA ViolationsFit ==
    ASSUME NEW a \in S!AgentStats, Sound(a), NEW total \in Nat, NEW violated \in Nat
    PROVE  S!Violations(a, total, violated) \in Nat
<1>1. ASSUME NEW x \in Nat, NEW y \in Nat \ {0} PROVE (x * S!ViolationPenalty) \div y \in Nat
  BY DivBelow DEF S!ViolationPenalty
<1>2. a.violations \in Nat /\ a.total \in Nat /\ a.violations <= a.total
  BY EventFacts DEF Sound
<1>3. CASE total > 0 /\ violated > 0
  <2>1. S!Violations(a, total, violated) = (violated * S!ViolationPenalty) \div total
    BY <1>3 DEF S!Violations
  <2> QED
    BY <1>1, <1>3, <2>1
<1>4. CASE ~ (total > 0 /\ violated > 0) /\ a.violations > 0
  <2>1. S!Violations(a, total, violated) = (a.violations * S!ViolationPenalty) \div a.total
    BY <1>4 DEF S!Violations
  <2>2. a.total \in Nat \ {0}
    BY <1>2, <1>4
  <2> QED
    BY <1>1, <1>2, <2>1, <2>2
<1>5. CASE ~ (total > 0 /\ violated > 0) /\ ~ (a.violations > 0)
  BY <1>5 DEF S!Violations
<1> QED
  BY <1>3, <1>4, <1>5

\* What a velocity is computed from.
Before(a) == {i \in DOMAIN a.events : a.events[i].at < now}
Recent(a) == S!Max({0} \cup {a.events[i].e.minor : i \in DOMAIN a.events \ Before(a)})
Earlier(a) == SumOver(S!Minors(a), DOMAIN a.events)[Before(a)]
Excess(n, recent, sum) == (((recent * 1000 * n) \div sum - S!Tolerance * 1000) * 30) \div 1000
Capped(x) == S!Max({0, S!Min({x, S!VelocityPenalty})})

LEMMA VelocityIs ==
    ASSUME NEW a \in S!AgentStats
    PROVE  /\ Cardinality(Before(a)) \in Nat /\ Earlier(a) \in Nat
           /\ Recent(a) \in Nat
           /\ \A i \in DOMAIN a.events \ Before(a) : a.events[i].e.minor <= Recent(a)
           /\ \/ Recent(a) = 0
              \/ \E i \in DOMAIN a.events \ Before(a) : a.events[i].e.minor = Recent(a)
           /\ S!Velocity(a) =
                  IF Cardinality(Before(a)) < 3 \/ Recent(a) = 0 \/ Earlier(a) = 0 THEN 0
                  ELSE Capped(Excess(Cardinality(Before(a)), Recent(a), Earlier(a)))
<1> DEFINE X == DOMAIN a.events
           f == S!Minors(a)
           T == X \ Before(a)
           some == {0} \cup {f[i] : i \in T}
<1>1. /\ IsFiniteSet(X) /\ f \in [X -> Nat] /\ \A i \in X : f[i] = a.events[i].e.minor
  BY EventFacts DEF S!Minors
<1>2. Before(a) \in SUBSET X /\ T \in SUBSET X
  BY DEF Before
<1>3. some = {0} \cup {a.events[i].e.minor : i \in DOMAIN a.events \ Before(a)}
  BY <1>1, <1>2
<1>4. Recent(a) = S!Max(some)
  BY <1>3 DEF Recent
<1>5. Earlier(a) = SumOver(f, X)[Before(a)]
  BY DEF Earlier
<1>6. IsFiniteSet(Before(a))
  BY <1>1, <1>2, FS_Subset
<1>7. Cardinality(Before(a)) \in Nat
  BY <1>6, FS_CardinalityType
<1> HIDE DEF X, f, T
<1>8. S!Max(some) \in some /\ \A v \in some : v <= S!Max(some)
  BY <1>1, <1>2, MaxOfSome
<1>9. Earlier(a) \in Nat
  BY <1>1, <1>2, <1>5, SumOverFacts
<1>10. \A i \in T : f[i] \in Nat /\ f[i] = a.events[i].e.minor
  BY <1>1, <1>2
<1>11. /\ Recent(a) \in Nat
       /\ \A i \in T : a.events[i].e.minor <= Recent(a)
       /\ Recent(a) = 0 \/ \E i \in T : a.events[i].e.minor = Recent(a)
  <2> DEFINE m == S!Max(some)
  <2>1. m \in some /\ \A v \in some : v <= m
    BY <1>8
  <2> HIDE DEF m
  <2>2. m = 0 \/ \E i \in T : m = f[i]
    BY <2>1
  <2>3. \A i \in T : f[i] <= m
    BY <2>1
  <2>4. m \in Nat
    BY <1>10, <2>2
  <2> QED
    BY <1>4, <1>10, <2>2, <2>3, <2>4 DEF m
<1>12. S!Velocity(a) =
           IF Cardinality(Before(a)) < 3 \/ Recent(a) = 0 \/ Earlier(a) = 0 THEN 0
           ELSE Capped(Excess(Cardinality(Before(a)), Recent(a), Earlier(a)))
  <2> DEFINE b == {i \in DOMAIN a.events : a.events[i].at < now}
             c == S!Cardinality(b)
             sum == S!SumOver(S!Minors(a), DOMAIN a.events)[b]
             most == S!Max({0} \cup {a.events[i].e.minor : i \in DOMAIN a.events \ b})
  <2>1. S!Velocity(a) =
            IF c < 3 \/ most = 0 \/ sum = 0 THEN 0
            ELSE S!Max({0, S!Min({(((most * 1000 * c) \div sum - S!Tolerance * 1000) * 30)
                                      \div 1000, S!VelocityPenalty})})
    BY Zenon DEF S!Velocity
  <2>2. b = Before(a)
    BY DEF Before
  <2>3. c = Cardinality(Before(a)) /\ sum = Earlier(a) /\ most = Recent(a)
    BY <2>2, ScoringNames, Zenon DEF Earlier, Recent
  <2> HIDE DEF b, c, sum, most
  <2>4. Capped(Excess(c, most, sum))
            = S!Max({0, S!Min({(((most * 1000 * c) \div sum - S!Tolerance * 1000) * 30)
                                   \div 1000, S!VelocityPenalty})})
    BY Zenon DEF Excess, Capped
  <2>5. S!Velocity(a) = IF c < 3 \/ most = 0 \/ sum = 0 THEN 0 ELSE Capped(Excess(c, most, sum))
    BY <2>1, <2>4
  <2> QED
    BY <2>3, <2>5
<1> QED
  BY <1>7, <1>9, <1>11, <1>12 DEF T, X

\* What exceeds grows with the largest draw, and so does what is capped.
LEMMA ExcessGrows ==
    ASSUME NEW n \in Nat, NEW r1 \in Nat, NEW r2 \in Nat, r1 <= r2, NEW sum \in Nat \ {0}
    PROVE  /\ Excess(n, r1, sum) \in Int /\ Excess(n, r2, sum) \in Int
           /\ Excess(n, r1, sum) <= Excess(n, r2, sum)
<1> DEFINE x == (r1 * 1000 * n) \div sum
           y == (r2 * 1000 * n) \div sum
<1>1. r1 * 1000 * n <= r2 * 1000 * n /\ r1 * 1000 * n \in Nat /\ r2 * 1000 * n \in Nat
  <2>1. r1 * 1000 \in Nat /\ r2 * 1000 \in Nat /\ r1 * 1000 <= r2 * 1000
    OBVIOUS
  <2> QED
    BY <2>1, Monotone
<1>2. x \in Nat /\ y \in Nat /\ x <= y
  BY <1>1, DivBelow, QuotientGrows
<1>3. Excess(n, r1, sum) = ((x - 4000) * 30) \div 1000 /\ Excess(n, r2, sum) = ((y - 4000) * 30) \div 1000
  BY DEF Excess, S!Tolerance
<1> HIDE DEF x, y
<1> QED
  BY <1>2, <1>3

LEMMA CappedGrows ==
    ASSUME NEW x \in Int, NEW y \in Int, x <= y
    PROVE  Capped(x) \in Nat /\ Capped(y) \in Nat /\ Capped(x) <= Capped(y)
<1> DEFINE p == S!VelocityPenalty
           u == S!Min({x, p})
           v == S!Min({y, p})
           z == 0
<1>1. p \in Nat /\ z \in Int
  BY DEF S!VelocityPenalty
<1>2. Capped(x) = S!Max({z, u}) /\ Capped(y) = S!Max({z, v})
  BY DEF Capped
<1> HIDE DEF p, z
<1>3. u \in {x, p} /\ u <= x /\ u <= p /\ v \in {y, p} /\ v <= y /\ v <= p
  BY <1>1, MaxOfTwo
<1> HIDE DEF u, v
<1>4. u \in Int /\ v \in Int /\ u <= v
  BY <1>1, <1>3
<1>5. /\ S!Max({z, u}) \in {z, u} /\ z <= S!Max({z, u}) /\ u <= S!Max({z, u})
      /\ S!Max({z, v}) \in {z, v} /\ z <= S!Max({z, v}) /\ v <= S!Max({z, v})
  BY <1>1, <1>4, MaxOfTwo
<1> QED
  BY <1>2, <1>4, <1>5 DEF z

LEMMA VelocityFits == ASSUME NEW a \in S!AgentStats PROVE S!Velocity(a) \in Nat
<1> DEFINE n == Cardinality(Before(a))
           r == Recent(a)
           s == Earlier(a)
<1>1. n \in Nat /\ r \in Nat /\ s \in Nat
  BY VelocityIs
<1>2. S!Velocity(a) = IF n < 3 \/ r = 0 \/ s = 0 THEN 0 ELSE Capped(Excess(n, r, s))
  BY VelocityIs
<1> HIDE DEF n, r, s
<1>3. s # 0 => Capped(Excess(n, r, s)) \in Nat
  BY <1>1, ExcessGrows, CappedGrows
<1> QED
  BY <1>2, <1>3

\* What settled with c, and the index's squares.
SettledTo(a) == [c \in Counterparty |->
                    S!Value(a, {i \in S!Settled(a) : a.events[i].e.counterparty = c})]
SquaresOf(with) == [c \in Counterparty |-> with[c] * with[c]]
Share(with, settled) ==
    (S!SumOver(SquaresOf(with), Counterparty)[Counterparty] * 1000) \div (settled * settled)

LEMMA ConcentrationIs ==
    \A a, settled :
        S!Concentration(a, settled) =
            IF settled = 0 THEN 0
            ELSE S!Max({0, ((Share(SettledTo(a), settled) - 500) * S!ConcentrationPenalty)
                               \div 500})
BY Zenon DEF S!Concentration, SettledTo, SquaresOf, Share

LEMMA ConcentrationFits ==
    ASSUME S!ScoringAssumption, now \in Nat, now <= Horizon, NEW a \in S!AgentStats, Sound(a),
           NEW settled \in Nat
    PROVE  S!Concentration(a, settled) \in Nat
<1> DEFINE with == SettledTo(a)
           squares == SquaresOf(with)
           sum == SumOver(squares, Counterparty)[Counterparty]
           q == settled * settled
           x == (sum * 1000) \div q
           y == ((x - 500) * S!ConcentrationPenalty) \div 500
           z == 0
<1>1. \A c \in Counterparty : with[c] \in Nat
  <2>1. \A c : {i \in S!Settled(a) : a.events[i].e.counterparty = c} \in SUBSET DOMAIN a.events
    BY DEF S!Settled, S!Counted
  <2> QED
    BY <2>1, ValueFacts DEF SettledTo
<1> HIDE DEF with
<1>2. squares \in [Counterparty -> Nat]
  BY <1>1 DEF SquaresOf
<1>3. IsFiniteSet(Counterparty)
  BY DEF S!ScoringAssumption, S!IsFiniteSet, IsFiniteSet
<1>4. x = Share(with, settled)
  BY ScoringNames DEF Share
<1> HIDE DEF squares
<1>5. sum \in Nat
  <2>1. Counterparty \in SUBSET Counterparty
    OBVIOUS
  <2> QED
    BY <1>2, <1>3, <2>1, SumOverFacts
<1>6. S!Concentration(a, settled) = IF settled = 0 THEN 0 ELSE S!Max({z, y})
  <2> HIDE DEF x
  <2>1. x = Share(SettledTo(a), settled)
    BY <1>4 DEF with
  <2>2. S!Concentration(a, settled) =
            IF settled = 0 THEN 0
            ELSE S!Max({0, ((Share(SettledTo(a), settled) - 500) * S!ConcentrationPenalty)
                               \div 500})
    BY ConcentrationIs
  <2> QED
    BY <2>1, <2>2, Zenon
<1>7. settled # 0 => q \in Nat \ {0}
  OBVIOUS
<1> HIDE DEF sum, q
<1>8. settled # 0 => x \in Nat
  <2>1. sum * 1000 \in Nat
    BY <1>5
  <2> QED
    BY <1>7, <2>1, DivBelow
<1> HIDE DEF x
<1>9. settled # 0 => y \in Int
  BY <1>8 DEF S!ConcentrationPenalty
<1>10. z \in Int
  OBVIOUS
<1> HIDE DEF y, z
<1>11. settled # 0 => S!Max({z, y}) \in {z, y} /\ z <= S!Max({z, y})
  BY <1>9, <1>10, MaxOfTwo
<1>12. settled # 0 => S!Max({z, y}) \in Nat
  BY <1>9, <1>11 DEF z
<1> QED
  BY <1>6, <1>12

\* The score, in its parts.
TotalOf(a) == S!Value(a, S!Counted(a))
SettledOf(a) == S!Value(a, S!Settled(a))
ViolatedOf(a) == S!Value(a, S!Violated(a))

LEMMA ScoreIs ==
    \A a : S!Score(a) =
        ScoreOf(S!Compliance(a, TotalOf(a), SettledOf(a)), S!Depth(a, SettledOf(a)),
                S!Violations(a, TotalOf(a), ViolatedOf(a)), S!Velocity(a),
                S!Concentration(a, SettledOf(a)))
BY Zenon DEF S!Score, ScoreOf, TotalOf, SettledOf, ViolatedOf

LEMMA PartsFacts ==
    ASSUME S!ScoringAssumption, now \in Nat, now <= Horizon, NEW a \in S!AgentStats, Sound(a)
    PROVE  /\ S!Counted(a) \in SUBSET DOMAIN a.events
           /\ S!Settled(a) \in SUBSET S!Counted(a) /\ S!Violated(a) \in SUBSET S!Counted(a)
           /\ TotalOf(a) \in Nat /\ SettledOf(a) \in 0 .. TotalOf(a) /\ ViolatedOf(a) \in Nat
<1>1. /\ S!Counted(a) \in SUBSET DOMAIN a.events
      /\ S!Settled(a) \in SUBSET S!Counted(a) /\ S!Violated(a) \in SUBSET S!Counted(a)
  BY DEF S!Counted, S!Settled, S!Violated
<1>2. S!Settled(a) \in SUBSET DOMAIN a.events /\ S!Violated(a) \in SUBSET DOMAIN a.events
  BY <1>1
<1>3. TotalOf(a) \in Nat /\ SettledOf(a) \in Nat /\ ViolatedOf(a) \in Nat
  BY <1>1, <1>2, ValueFacts DEF TotalOf, SettledOf, ViolatedOf
<1>4. SettledOf(a) <= TotalOf(a)
  BY <1>1, ValueFacts DEF TotalOf, SettledOf
<1> QED
  BY <1>1, <1>3, <1>4

LEMMA BonusFits ==
    ASSUME S!ScoringAssumption, NEW a \in S!AgentStats
    PROVE  S!Bonus(a) \in 0 .. S!ProvenanceBonus
<1> DEFINE n == (a.provenance * 1000000) \div ProvenanceSaturation
           r == S!Root(n)
<1>1. a.provenance * 1000000 \in Nat /\ ProvenanceSaturation \in Nat \ {0}
  BY EventFacts DEF S!ScoringAssumption
<1>2. n \in Nat
  BY <1>1, DivBelow
<1>3. S!Bonus(a) = (r * S!ProvenanceBonus) \div 1000
  BY DEF S!Bonus
<1> HIDE DEF n
<1>4. r \in 0 .. 1000
  BY <1>2, RootFits, SMTT(30)
<1> HIDE DEF r
<1> QED
  BY <1>3, <1>4 DEF S!ProvenanceBonus

LEMMA DepthFits ==
    ASSUME S!ScoringAssumption, NEW a \in S!AgentStats, NEW settled \in Nat, NEW most \in Nat,
           settled <= most * Decay[0], Decay[0] \in Nat \ {0}
    PROVE  /\ S!Depth(a, settled) \in 0 .. 1000
           /\ S!Depth(a, settled) * S!Depth(a, settled) * Saturation
                  <= most * (1000 + S!ProvenanceBonus) * 1000
<1> DEFINE b == S!Bonus(a)
           d == Decay[0]
           p == S!ProvenanceBonus
           x == settled * (1000 + b) * 1000
           m == Saturation * d
           n == x \div m
           r == S!Root(n)
           top == most * (1000 + p) * 1000
<1>1. b \in Nat /\ b <= p /\ p \in Nat /\ d \in Nat \ {0} /\ Saturation \in Nat \ {0}
  <2>1. b \in 0 .. p
    BY BonusFits
  <2>2. p \in Nat /\ Saturation \in Nat \ {0} /\ d \in Nat \ {0}
    BY DEF S!ProvenanceBonus, S!ScoringAssumption
  <2> HIDE DEF b, p
  <2> QED
    BY <2>1, <2>2
<1>2. S!Depth(a, settled) = r
  BY DEF S!Depth
<1>3. settled <= most * d
  OBVIOUS
<1> HIDE DEF b, d, p
<1>4. x \in Nat /\ m \in Nat \ {0} /\ top \in Nat
  BY <1>1
<1>5. x <= top * d
  <2>1. settled * (1000 + b) <= most * d * (1000 + b)
    BY <1>1, <1>3, Monotone
  <2>2. (1000 + b) * (most * d) <= (1000 + p) * (most * d)
    BY <1>1, Monotone
  <2>3. most * d * (1000 + b) = (1000 + b) * (most * d)
    BY <1>1
  <2>4. (1000 + p) * (most * d) = most * (1000 + p) * d
    BY <1>1
  <2>5. /\ settled * (1000 + b) \in Nat /\ (1000 + b) * (most * d) \in Nat
        /\ most * (1000 + p) * d \in Nat
    BY <1>1
  <2>6. settled * (1000 + b) <= most * (1000 + p) * d
    BY <2>1, <2>2, <2>3, <2>4, <2>5
  <2>7. settled * (1000 + b) * 1000 <= most * (1000 + p) * d * 1000
    BY <2>5, <2>6, Monotone
  <2>8. most * (1000 + p) * d * 1000 = most * (1000 + p) * 1000 * d
    BY <1>1
  <2> QED
    BY <2>7, <2>8
<1> HIDE DEF x, top
<1>6. n \in Nat /\ n * m <= x
  <2> HIDE DEF m
  <2> QED
    BY <1>4, DivBelow
<1> HIDE DEF n
<1>7. r \in 0 .. 1000 /\ r * r <= n
  BY <1>6, RootFits
<1> HIDE DEF r
<1>8. n * Saturation <= top
  <2>1. n * Saturation \in Nat
    BY <1>1, <1>6
  <2>2. n * m = n * Saturation * d
    BY <1>1, <1>6
  <2> DEFINE y == n * Saturation
  <2>3. y * d <= top * d
    <3>1. n * m \in Nat /\ top * d \in Nat
      BY <1>1, <1>4, <1>6
    <3> HIDE DEF m
    <3> QED
      BY <1>4, <1>5, <1>6, <2>2, <3>1
  <2> HIDE DEF y, m
  <2>4. y \in Nat
    BY <2>1 DEF y
  <2>5. ~ (top + 1 <= y)
    <3> SUFFICES ASSUME top + 1 <= y PROVE FALSE
      OBVIOUS
    <3>1. (top + 1) * d <= y * d
      BY <1>1, <1>4, <2>4, Monotone
    <3>2. (top + 1) * d = top * d + d /\ top * d \in Nat
      BY <1>1, <1>4
    <3> QED
      BY <1>1, <2>3, <2>4, <3>1, <3>2
  <2>6. y <= top
    BY <1>4, <2>4, <2>5
  <2> QED
    BY <2>6 DEF y
<1>9. r * r * Saturation <= n * Saturation /\ r * r * Saturation \in Nat /\ n * Saturation \in Nat
  <2>1. r * r \in Nat
    BY <1>7
  <2> QED
    BY <1>1, <1>6, <1>7, <2>1, Monotone
<1>10. r * r * Saturation <= top
  BY <1>4, <1>8, <1>9
<1> QED
  BY <1>2, <1>7, <1>10 DEF top, p

LEMMA ScoreParts ==
    ASSUME S!ScoringAssumption, now \in Nat, now <= Horizon, NEW a \in S!AgentStats, Sound(a)
    PROVE  /\ S!Compliance(a, TotalOf(a), SettledOf(a)) \in 0 .. 1000
           /\ S!Violations(a, TotalOf(a), ViolatedOf(a)) \in Nat
           /\ S!Velocity(a) \in Nat /\ S!Concentration(a, SettledOf(a)) \in Nat
<1>1. TotalOf(a) \in Nat /\ SettledOf(a) \in 0 .. TotalOf(a) /\ ViolatedOf(a) \in Nat
      /\ SettledOf(a) \in Nat
  BY PartsFacts
<1>2. S!Compliance(a, TotalOf(a), SettledOf(a)) \in 0 .. 1000
  <2>1. Within(SettledOf(a), TotalOf(a))
    BY <1>1 DEF Within
  <2> QED
    BY <2>1, ComplianceFits
<1>3. S!Violations(a, TotalOf(a), ViolatedOf(a)) \in Nat
  BY <1>1, ViolationsFit
<1>4. S!Concentration(a, SettledOf(a)) \in Nat
  BY <1>1, ConcentrationFits
<1> QED
  BY <1>2, <1>3, <1>4, VelocityFits

\* With what was earned of others, a score is as deep as that.
LEMMA StandingFits == ASSUME S!ScoringAssumption, ScoreInv PROVE S!StandingIsEarned
<1> DEFINE L == Counterparties \ agent.related
           X == DOMAIN agent.events
           f == S!Weighted(agent)
           g == S!Minors(agent)
           T == SettledWith(agent, L)
           d == Decay[0]
           most == SumOver(earned, Counterparties)[L]
<1>1. /\ agent \in S!AgentStats /\ earned \in [Counterparties -> Nat]
      /\ now \in Nat /\ now <= Horizon /\ Sound(agent)
  BY DEF ScoreInv, S!TypeOK, StatsInv, Counterparties
<1>2. S!Settled(agent) = T
  <2>1. \A i \in DOMAIN agent.events : agent.events[i].e.counterparty \in Counterparties
    BY <1>1, EventFacts DEF S!Event, Counterparties
  <2> QED
    BY <2>1 DEF S!Settled, S!Counted, S!IsWash, SettledWith
<1>3. T \in SUBSET X
  BY DEF SettledWith
<1>4. /\ IsFiniteSet(X) /\ g \in [X -> Nat] /\ f \in [X -> Nat] /\ d \in Nat \ {0}
      /\ \A i \in X : f[i] <= g[i] * d
  BY <1>1, EventFacts, WeightedFacts
<1>5. SumOver(g, X)[T] <= most
  BY DEF ScoreInv, EarnedInv
<1>6. SettledOf(agent) = SumOver(f, X)[T]
  BY <1>1, <1>2, <1>3, ValueFacts DEF SettledOf
<1>7. most \in Nat
  <2>1. L \in SUBSET Counterparties
    OBVIOUS
  <2> HIDE DEF L
  <2> QED
    BY <1>1, <2>1, CounterpartiesFinite, SumOverFacts
<1> HIDE DEF X, f, g, T, most
<1>8. SettledOf(agent) <= most * d
  <2> HIDE DEF d
  <2>1. SumOver(f, X)[T] <= SumOver(g, X)[T] * d
    <3>1. \A i \in T : f[i] <= g[i] * d
      BY <1>3, <1>4
    <3> QED
      BY <1>3, <1>4, <3>1, SumOverScaledPart
  <2>2. SumOver(g, X)[T] \in Nat /\ SumOver(f, X)[T] \in Nat
    BY <1>3, <1>4, SumOverFacts
  <2> DEFINE s == SumOver(g, X)[T]
             t == SumOver(f, X)[T]
  <2>3. s \in Nat /\ t \in Nat /\ s <= most /\ t <= s * d /\ SettledOf(agent) = t
    BY <1>5, <1>6, <2>1, <2>2
  <2> HIDE DEF s, t
  <2>4. s * d <= most * d /\ s * d \in Nat /\ most * d \in Nat
    BY <1>4, <1>7, <2>3, Monotone
  <2> QED
    BY <2>3, <2>4
<1> DEFINE depth == S!Depth(agent, SettledOf(agent))
           score == S!Score(agent)
           top == most * (1000 + S!ProvenanceBonus) * 1000
<1>9. SettledOf(agent) \in Nat
  BY <1>1, PartsFacts
<1>10. depth \in 0 .. 1000 /\ depth * depth * Saturation <= top
  <2> DEFINE s == SettledOf(agent)
  <2>1. s \in Nat /\ s <= most * Decay[0] /\ Decay[0] \in Nat \ {0}
    BY <1>4, <1>8, <1>9
  <2> HIDE DEF s
  <2>2. /\ S!Depth(agent, s) \in 0 .. 1000
        /\ S!Depth(agent, s) * S!Depth(agent, s) * Saturation
               <= most * (1000 + S!ProvenanceBonus) * 1000
    BY <1>1, <1>7, <2>1, DepthFits
  <2> QED
    BY <2>2 DEF s
<1>11. score \in 0 .. depth
  <2>1. depth \in Nat
    BY <1>10
  <2> DEFINE c == S!Compliance(agent, TotalOf(agent), SettledOf(agent))
             v == S!Violations(agent, TotalOf(agent), ViolatedOf(agent))
             p == S!Velocity(agent)
             q == S!Concentration(agent, SettledOf(agent))
  <2>2. Parts(c, depth, v, p, q)
    BY <1>1, <2>1, ScoreParts DEF Parts
  <2>3. score = ScoreOf(c, depth, v, p, q)
    BY ScoreIs
  <2> HIDE DEF c, v, p, q, depth, score
  <2> QED
    BY <2>2, <2>3, ScoreAtMost
<1> HIDE DEF depth, score, top
<1>12. score * score * Saturation <= top
  <2>1. Saturation \in Nat /\ score \in Nat /\ depth \in Nat /\ score <= depth
    BY <1>10, <1>11 DEF S!ScoringAssumption
  <2>2. score * score <= depth * score /\ score * depth <= depth * depth
    BY <2>1, Monotone
  <2>3. score * depth = depth * score /\ score * score \in Nat /\ depth * depth \in Nat
        /\ depth * score \in Nat
    BY <2>1
  <2>4. score * score <= depth * depth
    BY <2>2, <2>3
  <2>5. /\ score * score * Saturation <= depth * depth * Saturation
        /\ score * score * Saturation \in Nat /\ depth * depth * Saturation \in Nat
    BY <2>1, <2>3, <2>4, Monotone
  <2>6. top \in Nat
    BY <1>7 DEF top, S!ProvenanceBonus
  <2> QED
    BY <1>10, <2>5, <2>6
<1>13. most = S!SumOver(earned, Counterparty \cup {Unnamed})
                  [(Counterparty \cup {Unnamed}) \ agent.related]
  BY ScoringNames DEF most, Counterparties
<1>14. \A x \in {S!Score(agent)} :
           x * x * Saturation
               <= S!SumOver(earned, Counterparty \cup {Unnamed})
                      [(Counterparty \cup {Unnamed}) \ agent.related]
                  * (1000 + S!ProvenanceBonus) * 1000
  BY <1>12, <1>13 DEF top, score
<1> QED
  BY <1>14, Zenon DEF S!StandingIsEarned

\* b has a's events and one of now that neither settled nor violated.
OneMore(a, b, e) ==
    /\ now \in Nat /\ a \in S!AgentStats /\ b \in S!AgentStats /\ Sound(a) /\ Sound(b)
    /\ Len(b.events) = Len(a.events) + 1
    /\ \A i \in 1 .. Len(a.events) : b.events[i] = a.events[i]
    /\ b.events[Len(b.events)].e = e /\ b.events[Len(b.events)].at = now
    /\ e \in S!Event /\ ~ e.settled /\ ~ e.violated
    /\ b.total = a.total + 1 /\ b.successes = a.successes
    /\ a.violations = 0 /\ b.violations = 0
    /\ b.related = a.related /\ b.provenance = a.provenance

LEMMA OneMoreFacts ==
    ASSUME NEW a, NEW b, NEW e, OneMore(a, b, e)
    PROVE  /\ DOMAIN a.events \in SUBSET DOMAIN b.events
           /\ \A i \in DOMAIN b.events :
                 \/ i \in DOMAIN a.events /\ b.events[i] = a.events[i]
                 \/ i \notin DOMAIN a.events /\ b.events[i].e = e /\ b.events[i].at = now
<1>1. /\ Len(a.events) \in Nat /\ DOMAIN a.events = 1 .. Len(a.events)
      /\ Len(b.events) \in Nat /\ DOMAIN b.events = 1 .. Len(b.events)
  BY EventFacts DEF OneMore
<1>2. /\ Len(b.events) = Len(a.events) + 1
      /\ \A i \in 1 .. Len(a.events) : b.events[i] = a.events[i]
      /\ b.events[Len(b.events)].e = e /\ b.events[Len(b.events)].at = now
  BY DEF OneMore
<1> DEFINE n == Len(a.events)
           m == Len(b.events)
<1>3. n \in Nat /\ m = n + 1 /\ DOMAIN a.events = 1 .. n /\ DOMAIN b.events = 1 .. m
  BY <1>1, <1>2
<1>4. (\A i \in 1 .. n : b.events[i] = a.events[i])
      /\ b.events[m].e = e /\ b.events[m].at = now
  BY <1>2
<1> HIDE DEF n, m
<1>5. (1 .. n) \in SUBSET (1 .. m) /\ \A i \in 1 .. m : i \in 1 .. n \/ (i \notin 1 .. n /\ i = m)
  BY <1>3
<1> QED
  BY <1>3, <1>4, <1>5

LEMMA OneMoreSets ==
    ASSUME NEW a, NEW b, NEW e, OneMore(a, b, e)
    PROVE  /\ S!Settled(b) = S!Settled(a) /\ S!Counted(a) \in SUBSET S!Counted(b)
           /\ S!Violated(a) = {} /\ S!Violated(b) = {}
           /\ Before(b) = Before(a)
<1>1. /\ DOMAIN a.events \in SUBSET DOMAIN b.events
      /\ \A i \in DOMAIN a.events : b.events[i] = a.events[i]
      /\ \A i \in DOMAIN b.events \ DOMAIN a.events : b.events[i].e = e /\ b.events[i].at = now
  <2>1. \A i \in DOMAIN b.events :
            \/ i \in DOMAIN a.events /\ b.events[i] = a.events[i]
            \/ i \notin DOMAIN a.events /\ b.events[i].e = e /\ b.events[i].at = now
    BY OneMoreFacts
  <2>2. DOMAIN a.events \in SUBSET DOMAIN b.events
    BY OneMoreFacts
  <2> QED
    BY <2>1, <2>2
<1>2. b.related = a.related /\ ~ e.settled /\ a \in S!AgentStats /\ b \in S!AgentStats
  BY DEF OneMore
<1>3. S!Settled(b) = S!Settled(a)
  BY <1>1, <1>2 DEF S!Settled, S!Counted, S!IsWash
<1>4. S!Counted(a) \in SUBSET S!Counted(b)
  BY <1>1, <1>2 DEF S!Counted, S!IsWash
<1>5. (\A i \in DOMAIN a.events : ~ a.events[i].e.violated)
      /\ (\A i \in DOMAIN b.events : ~ b.events[i].e.violated)
  BY DEF OneMore, Sound
<1>6. S!Violated(a) = {} /\ S!Violated(b) = {}
  BY <1>5 DEF S!Violated, S!Counted
<1>7. Before(b) = Before(a)
  <2>1. \A i \in DOMAIN b.events \ DOMAIN a.events : ~ (b.events[i].at < now)
    BY <1>1 DEF OneMore
  <2> QED
    BY <1>1, <2>1 DEF Before
<1> QED
  BY <1>3, <1>4, <1>6, <1>7

LEMMA OneMoreValue ==
    ASSUME S!ScoringAssumption, now \in Nat, now <= Horizon,
           NEW a, NEW b, NEW e, OneMore(a, b, e), NEW T \in SUBSET DOMAIN a.events
    PROVE  S!Value(b, T) = S!Value(a, T)
<1> DEFINE X == DOMAIN a.events
           Y == DOMAIN b.events
           f == S!Weighted(a)
           g == S!Weighted(b)
<1>1. /\ a \in S!AgentStats /\ b \in S!AgentStats /\ Sound(a) /\ Sound(b)
      /\ X \in SUBSET Y /\ \A i \in X : b.events[i] = a.events[i]
  BY OneMoreFacts DEF OneMore
<1>2. IsFiniteSet(X) /\ IsFiniteSet(Y) /\ f \in [X -> Nat] /\ g \in [Y -> Nat]
  BY <1>1, EventFacts, WeightedFacts
<1>3. \A i \in X : g[i] = f[i]
  BY <1>1 DEF S!Weighted, S!Minors
<1>4. T \in SUBSET Y /\ T \in SUBSET X
  BY <1>1
<1>5. S!Value(a, T) = SumOver(f, X)[T] /\ S!Value(b, T) = SumOver(g, Y)[T]
  BY ScoringNames DEF S!Value
<1> HIDE DEF X, Y, f, g
<1>6. T \in SUBSET (Y \cap X) /\ \A i \in T : g[i] = f[i]
  BY <1>3, <1>4
<1>7. SumOver(g, Y)[T] = SumOver(f, X)[T]
  BY <1>2, <1>6, SumOverAlike
<1> QED
  BY <1>5, <1>7

LEMMA ComplianceFalls ==
    ASSUME NEW a, NEW b, NEW e, OneMore(a, b, e), NEW s, NEW t1, NEW t2,
           Within(s, t1), Within(s, t2), t1 <= t2
    PROVE  S!Compliance(b, t2, s) <= S!Compliance(a, t1, s)
<1>1. /\ a \in S!AgentStats /\ Sound(a) /\ Sound(b) /\ b \in S!AgentStats
      /\ b.total = a.total + 1 /\ b.successes = a.successes
  BY DEF OneMore
<1> DEFINE n == a.total
           c == a.successes
<1>2. n \in Nat /\ c \in Nat /\ c <= n /\ b.total = n + 1 /\ b.successes = c
  BY <1>1, EventFacts DEF Sound
<1>3. s \in Nat /\ t1 \in Nat /\ t2 \in Nat /\ s <= t1
  BY DEF Within
<1>4. S!Compliance(b, t2, s) =
          IF t2 > 0 THEN (s * 1000) \div t2 ELSE IF n + 1 > 0 THEN (c * 1000) \div (n + 1) ELSE 0
  BY <1>2 DEF S!Compliance
<1>5. S!Compliance(a, t1, s) =
          IF t1 > 0 THEN (s * 1000) \div t1 ELSE IF n > 0 THEN (c * 1000) \div n ELSE 0
  BY DEF S!Compliance
<1> HIDE DEF n, c
<1>6. s * 1000 \in Nat /\ c * 1000 \in Nat
  BY <1>2, <1>3
<1>7. CASE t1 > 0
  <2>1. t1 \in Nat \ {0} /\ t2 \in Nat \ {0}
    BY <1>3, <1>7
  <2>2. (s * 1000) \div t2 <= (s * 1000) \div t1
    BY <1>6, <2>1, QuotientGrows
  <2> QED
    BY <1>4, <1>5, <1>7, <2>1, <2>2
<1>8. CASE ~ (t1 > 0) /\ t2 > 0
  <2>1. s = 0
    BY <1>3, <1>8
  <2>2. (s * 1000) \div t2 = 0
    BY <1>3, <1>8, <2>1
  <2>3. n > 0 => (c * 1000) \div n \in Nat
    BY <1>2, <1>6, DivBelow
  <2> QED
    BY <1>4, <1>5, <1>8, <2>2, <2>3
<1>9. CASE ~ (t1 > 0) /\ ~ (t2 > 0)
  <2>1. CASE n > 0
    <3>1. n \in Nat \ {0} /\ n + 1 \in Nat \ {0}
      BY <1>2, <2>1
    <3>2. (c * 1000) \div (n + 1) <= (c * 1000) \div n
      BY <1>6, <3>1, QuotientGrows
    <3> QED
      BY <1>4, <1>5, <1>9, <2>1, <3>1, <3>2
  <2>2. CASE ~ (n > 0)
    <3>1. n = 0 /\ c = 0
      BY <1>2, <2>2
    <3>2. (c * 1000) \div (n + 1) = 0
      BY <3>1
    <3> QED
      BY <1>4, <1>5, <1>9, <3>1, <3>2
  <2> QED
    BY <2>1, <2>2
<1> QED
  BY <1>3, <1>7, <1>8, <1>9

LEMMA VelocityGrows ==
    ASSUME NEW a, NEW b, NEW e, OneMore(a, b, e)
    PROVE  S!Velocity(a) <= S!Velocity(b)
<1>1. /\ a \in S!AgentStats /\ b \in S!AgentStats
      /\ DOMAIN a.events \in SUBSET DOMAIN b.events
      /\ \A i \in DOMAIN a.events : b.events[i] = a.events[i]
  BY OneMoreFacts DEF OneMore
<1>2. Before(b) = Before(a)
  BY OneMoreSets
<1>3. Earlier(b) = Earlier(a)
  <2> DEFINE X == DOMAIN a.events
             Y == DOMAIN b.events
             f == S!Minors(a)
             g == S!Minors(b)
             T == Before(a)
  <2>1. IsFiniteSet(X) /\ IsFiniteSet(Y) /\ f \in [X -> Nat] /\ g \in [Y -> Nat]
    BY <1>1, EventFacts
  <2>2. T \in SUBSET (Y \cap X) /\ \A i \in T : g[i] = f[i]
    BY <1>1 DEF Before, S!Minors
  <2> HIDE DEF X, Y, f, g, T
  <2>3. SumOver(g, Y)[T] = SumOver(f, X)[T]
    BY <2>1, <2>2, SumOverAlike
  <2> QED
    BY <1>2, <2>3 DEF Earlier, X, Y, f, g, T
<1>4. Recent(a) <= Recent(b)
  <2>1. \A i \in DOMAIN b.events \ Before(b) : b.events[i].e.minor <= Recent(b)
    BY <1>1, VelocityIs
  <2>2. Recent(a) = 0 \/ \E i \in DOMAIN a.events \ Before(a) : a.events[i].e.minor = Recent(a)
    BY <1>1, VelocityIs
  <2>3. Recent(b) \in Nat
    BY <1>1, VelocityIs
  <2> QED
    BY <1>1, <1>2, <2>1, <2>2, <2>3
<1> DEFINE n == Cardinality(Before(a))
           s == Earlier(a)
           r1 == Recent(a)
           r2 == Recent(b)
<1>5. n \in Nat /\ s \in Nat /\ r1 \in Nat /\ r2 \in Nat /\ r1 <= r2
  BY <1>1, <1>4, VelocityIs
<1>6. S!Velocity(a) = IF n < 3 \/ r1 = 0 \/ s = 0 THEN 0 ELSE Capped(Excess(n, r1, s))
  BY <1>1, VelocityIs
<1>7. S!Velocity(b) = IF n < 3 \/ r2 = 0 \/ s = 0 THEN 0 ELSE Capped(Excess(n, r2, s))
  BY <1>1, <1>2, <1>3, VelocityIs
<1>8. S!Velocity(b) \in Nat
  BY <1>1, VelocityFits
<1> HIDE DEF n, s, r1, r2
<1>9. s # 0 => Capped(Excess(n, r1, s)) <= Capped(Excess(n, r2, s))
  <2> SUFFICES ASSUME s # 0 PROVE Capped(Excess(n, r1, s)) <= Capped(Excess(n, r2, s))
    OBVIOUS
  <2> DEFINE x == Excess(n, r1, s)
             y == Excess(n, r2, s)
  <2>1. x \in Int /\ y \in Int /\ x <= y
    BY <1>5, ExcessGrows
  <2> HIDE DEF x, y
  <2>2. Capped(x) <= Capped(y)
    BY <2>1, CappedGrows
  <2> QED
    BY <2>2 DEF x, y
<1>10. CASE n < 3 \/ r1 = 0 \/ s = 0
  BY <1>6, <1>8, <1>10
<1>11. CASE ~ (n < 3 \/ r1 = 0 \/ s = 0)
  <2>1. ~ (n < 3 \/ r2 = 0 \/ s = 0)
    BY <1>5, <1>11
  <2> QED
    BY <1>6, <1>7, <1>9, <1>11, <2>1
<1> QED
  BY <1>10, <1>11

LEMMA ConcentrationKept ==
    ASSUME S!ScoringAssumption, now \in Nat, now <= Horizon,
           NEW a, NEW b, NEW e, OneMore(a, b, e), NEW settled
    PROVE  S!Concentration(b, settled) = S!Concentration(a, settled)
<1>1. /\ \A i \in DOMAIN a.events : b.events[i] = a.events[i]
      /\ S!Settled(b) = S!Settled(a)
  BY OneMoreFacts, OneMoreSets
<1>2. S!Settled(a) \in SUBSET DOMAIN a.events
  BY DEF S!Settled, S!Counted
<1>3. ASSUME NEW c
      PROVE  S!Value(b, {i \in S!Settled(b) : b.events[i].e.counterparty = c})
                 = S!Value(a, {i \in S!Settled(a) : a.events[i].e.counterparty = c})
  <2> DEFINE T == {i \in S!Settled(a) : a.events[i].e.counterparty = c}
  <2>1. {i \in S!Settled(b) : b.events[i].e.counterparty = c} = T
    BY <1>1, <1>2
  <2>2. T \in SUBSET DOMAIN a.events
    BY <1>2
  <2> HIDE DEF T
  <2>3. S!Value(b, T) = S!Value(a, T)
    BY <2>2, OneMoreValue
  <2> QED
    BY <2>1, <2>3 DEF T
<1>4. SettledTo(b) = SettledTo(a)
  BY <1>3, Zenon DEF SettledTo
<1> QED
  <2> DEFINE of(with) ==
                 IF settled = 0 THEN 0
                 ELSE S!Max({0, ((Share(with, settled) - 500) * S!ConcentrationPenalty) \div 500})
  <2>1. S!Concentration(a, settled) = of(SettledTo(a))
    BY ConcentrationIs, Zenon
  <2>2. S!Concentration(b, settled) = of(SettledTo(b))
    BY ConcentrationIs, Zenon
  <2> HIDE DEF of
  <2> QED
    BY <1>4, <2>1, <2>2

\* One more failure of now, of an agent that never violated, and its score.
LEMMA FailureLowers ==
    ASSUME S!ScoringAssumption, now <= Horizon, NEW a, NEW b, NEW e, OneMore(a, b, e)
    PROVE  S!Score(b) <= S!Score(a)
<1>1. /\ a \in S!AgentStats /\ b \in S!AgentStats /\ Sound(a) /\ Sound(b) /\ now \in Nat
      /\ a.violations = 0 /\ b.violations = 0 /\ b.provenance = a.provenance
  BY DEF OneMore
<1>2. /\ S!Settled(b) = S!Settled(a) /\ S!Counted(a) \in SUBSET S!Counted(b)
      /\ S!Violated(a) = {} /\ S!Violated(b) = {}
  BY OneMoreSets
<1>3. /\ S!Counted(a) \in SUBSET DOMAIN a.events /\ S!Counted(b) \in SUBSET DOMAIN b.events
      /\ S!Settled(a) \in SUBSET DOMAIN a.events
  BY DEF S!Counted, S!Settled
<1> DEFINE s == SettledOf(a)
           t1 == TotalOf(a)
           t2 == TotalOf(b)
<1>4. SettledOf(b) = s
  BY <1>1, <1>2, <1>3, OneMoreValue DEF SettledOf
<1>5. t1 <= t2
  <2>1. S!Value(b, S!Counted(a)) = S!Value(a, S!Counted(a))
    BY <1>1, <1>3, OneMoreValue
  <2>2. S!Value(b, S!Counted(a)) <= S!Value(b, S!Counted(b))
    BY <1>1, <1>2, <1>3, ValueFacts
  <2> QED
    BY <2>1, <2>2 DEF TotalOf
<1>6. /\ t1 \in Nat /\ s \in 0 .. t1 /\ t2 \in Nat /\ SettledOf(b) \in 0 .. t2
  BY <1>1, PartsFacts
<1>7. Within(s, t1) /\ Within(s, t2)
  BY <1>4, <1>6 DEF Within
<1>8. ViolatedOf(a) = 0 /\ ViolatedOf(b) = 0
  <2>1. ASSUME NEW c \in S!AgentStats, Sound(c) PROVE S!Value(c, {}) = 0
    <3> DEFINE X == DOMAIN c.events
               f == S!Weighted(c)
    <3>1. IsFiniteSet(X) /\ f \in [X -> Nat]
      BY <1>1, <2>1, EventFacts, WeightedFacts
    <3>2. S!Value(c, {}) = SumOver(f, X)[{}]
      BY ScoringNames DEF S!Value
    <3> HIDE DEF X, f
    <3> QED
      BY <3>1, <3>2, SumOverEmpty
  <2> QED
    BY <1>1, <1>2, <2>1 DEF ViolatedOf
<1> DEFINE c1 == S!Compliance(a, t1, s)
           c2 == S!Compliance(b, t2, s)
           d == S!Depth(a, s)
           p1 == S!Velocity(a)
           p2 == S!Velocity(b)
           q == S!Concentration(a, s)
<1>9. c2 <= c1
  <2> HIDE DEF s, t1, t2
  <2> QED
    BY <1>5, <1>7, ComplianceFalls
<1>10. S!Depth(b, s) = d
  BY <1>1 DEF S!Depth, S!Bonus
<1>11. \A t \in Nat : S!Violations(a, t, 0) = 0 /\ S!Violations(b, t, 0) = 0
  BY <1>1 DEF S!Violations
<1>12. p1 <= p2
  BY VelocityGrows
<1>13. S!Concentration(b, s) = q
  BY <1>1, ConcentrationKept
<1>14. d \in Nat
  <2>1. s \in Nat
    BY <1>6
  <2> HIDE DEF s
  <2> DEFINE n == (s * (1000 + S!Bonus(a)) * 1000) \div (Saturation * Decay[0])
  <2>2. S!Bonus(a) \in Nat
    <3>1. S!Bonus(a) \in 0 .. S!ProvenanceBonus
      BY <1>1, BonusFits
    <3> QED
      BY <3>1 DEF S!ProvenanceBonus
  <2>3. Saturation \in Nat \ {0} /\ Decay[0] \in Nat \ {0}
    BY DEF S!ScoringAssumption
  <2>4. s * (1000 + S!Bonus(a)) * 1000 \in Nat /\ Saturation * Decay[0] \in Nat \ {0}
    BY <2>1, <2>2, <2>3
  <2>5. n \in Nat
    BY <2>4, DivBelow
  <2>6. d = S!Root(n)
    BY DEF S!Depth
  <2> HIDE DEF n, d
  <2>7. S!Root(n) \in 0 .. 1000
    BY <2>5, RootFits, Zenon
  <2> QED
    BY <2>6, <2>7
<1>15. /\ c1 \in 0 .. 1000 /\ p1 \in Nat /\ q \in Nat
  BY <1>1, ScoreParts
<1>16. /\ c2 \in 0 .. 1000 /\ p2 \in Nat
  BY <1>1, <1>4, ScoreParts
<1>17. S!Score(a) = ScoreOf(c1, d, 0, p1, q)
  BY <1>6, <1>8, <1>11, ScoreIs
<1>18. S!Score(b) = ScoreOf(c2, d, 0, p2, q)
  BY <1>4, <1>6, <1>8, <1>10, <1>11, <1>13, ScoreIs
<1> HIDE DEF c1, c2, d, p1, p2, q, s, t1, t2
<1>19. Parts(c1, d, 0, p1, q) /\ Parts(c2, d, 0, p2, q)
  BY <1>14, <1>15, <1>16 DEF Parts
<1>20. ScoreOf(c2, d, 0, p2, q) <= ScoreOf(c1, d, 0, p1, q)
  BY <1>9, <1>12, <1>19, ScoreFalls
<1> QED
  BY <1>17, <1>18, <1>20

LEMMA FailureFits == ASSUME S!ScoringAssumption, ScoreInv PROVE S!FailureNeverRaises
<1> SUFFICES ASSUME NEW e \in Events, ~ e.settled, ~ e.violated, agent.violations = 0,
                    Len(agent.events) < MaxEvents
             PROVE  S!Score(S!Ingested(agent, e, now)) <= S!Score(agent)
  BY DEF S!FailureNeverRaises, S!ScoreAfter
<1> DEFINE b == S!Ingested(agent, e, now)
           n == Len(agent.events)
           m == Len(b.events)
<1>1. /\ agent \in S!AgentStats /\ n <= MaxEvents /\ now \in Nat /\ now <= Horizon
      /\ Sound(agent) /\ e \in S!Event
  BY DEF ScoreInv, S!TypeOK, StatsInv, S!ScoringAssumption
<1>2. /\ b \in S!AgentStats /\ m \in Nat \ {0} /\ Continues(b, agent)
      /\ b.events[m] = [e |-> e, at |-> now]
      /\ b.total = agent.total + 1
      /\ b.successes = agent.successes + (IF e.settled THEN 1 ELSE 0)
      /\ b.violations = agent.violations + (IF e.violated THEN 1 ELSE 0)
      /\ b.related = agent.related /\ b.provenance = agent.provenance
  BY <1>1, IngestedFacts
<1>3. Sound(b)
  BY <1>1, IngestedSound
<1> HIDE DEF b
<1>4. Remembers(b, agent, 0)
  BY <1>2 DEF Continues
<1>5. n \in Nat /\ agent.successes \in Nat
  BY <1>1, EventFacts
<1>6. m = n + 1 /\ \A i \in 1 .. n : b.events[i] = agent.events[i]
  <2>1. m = n + 1 - 0 /\ \A i \in 1 .. m - 1 : b.events[i] = agent.events[i + 0]
    BY <1>4 DEF Remembers
  <2> HIDE DEF n, m
  <2> QED
    BY <1>5, <2>1
<1>7. OneMore(agent, b, e)
  BY <1>1, <1>2, <1>3, <1>5, <1>6 DEF OneMore
<1>8. S!Score(b) <= S!Score(agent)
  BY <1>1, <1>7, FailureLowers
<1> QED
  BY <1>8 DEF b

\* A score is of well-typed records.
THEOREM ScoringTypeCorrect == EdgeSpec => [](part = "scoring" => S!TypeOK)
<1> DEFINE Inv == part = "scoring" => ScoreInv
<1>1. EdgeInit => Inv
  BY Starts, ScoreInit, EdgeAssumption
<1>2. Inv /\ [EdgeNext]_edgeVars => Inv'
  BY Steps, ScoreStep, EdgeAssumption
<1>3. Inv => (part = "scoring" => S!TypeOK)
  BY DEF ScoreInv
<1> QED
  BY <1>1, <1>2, <1>3, PTL DEF EdgeSpec

\* Whatever events are ingested, in whatever order and however they are dated, with
\* whomever, and whatever the decay: an agent's score is at most what it settled with
\* others than its own principal's is worth (detail, scorer.rs).
THEOREM StandingIsAlwaysEarned == EdgeSpec => []StandingIsEarned
<1> DEFINE Inv == part = "scoring" => ScoreInv
<1>1. EdgeInit => Inv
  BY Starts, ScoreInit, EdgeAssumption
<1>2. Inv /\ [EdgeNext]_edgeVars => Inv'
  BY Steps, ScoreStep, EdgeAssumption
<1>3. Inv => StandingIsEarned
  BY StandingFits, EdgeAssumption DEF StandingIsEarned
<1> QED
  BY <1>1, <1>2, <1>3, PTL DEF EdgeSpec

\* A failure of now does not raise the score of an agent that never violated.
THEOREM FailuresNeverRaise == EdgeSpec => []FailureNeverRaises
<1> DEFINE Inv == part = "scoring" => ScoreInv
<1>1. EdgeInit => Inv
  BY Starts, ScoreInit, EdgeAssumption
<1>2. Inv /\ [EdgeNext]_edgeVars => Inv'
  BY Steps, ScoreStep, EdgeAssumption
<1>3. Inv => FailureNeverRaises
  BY FailureFits, EdgeAssumption DEF FailureNeverRaises
<1> QED
  BY <1>1, <1>2, <1>3, PTL DEF EdgeSpec

-----------------------------------------------------------------------------
(* The Merkle tree.                                                         *)

\* A set of heights that has the lowest, and with each the next, has them all.
LEMMA Upwards ==
    ASSUME NEW N \in Nat, NEW G, 0 \in G, \A k \in 0 .. N - 1 : k \in G => k + 1 \in G
    PROVE  \A k \in 0 .. N : k \in G
<1> DEFINE Bad == {k \in 0 .. N : k \notin G}
<1> SUFFICES ASSUME Bad # {} PROVE FALSE
  OBVIOUS
<1>1. PICK k \in Bad : \A j \in Bad : k <= j
  <2>1. Bad \in SUBSET Nat
    OBVIOUS
  <2> HIDE DEF Bad
  <2> QED
    BY <2>1, LeastNumber
<1>2. k \in 0 .. N /\ k \notin G /\ k # 0
  OBVIOUS
<1>3. k - 1 \in 0 .. N - 1 /\ (k - 1) + 1 = k /\ ~ (k <= k - 1)
  BY <1>2
<1>4. k - 1 \notin Bad
  <2> HIDE DEF Bad
  <2> QED
    BY <1>1, <1>3
<1>5. k - 1 \in G
  BY <1>3, <1>4
<1> QED
  BY <1>2, <1>3, <1>5

\* And one that has the highest, and with each the one below.
LEMMA Downwards ==
    ASSUME NEW N \in Nat, NEW G, N \in G, \A k \in 0 .. N - 1 : k + 1 \in G => k \in G
    PROVE  0 \in G
<1> DEFINE H == {k \in 0 .. N : N - k \in G}
<1>1. 0 \in H
  OBVIOUS
<1>2. \A k \in 0 .. N - 1 : k \in H => k + 1 \in H
  <2> TAKE k \in 0 .. N - 1
  <2>1. N - k - 1 \in 0 .. N - 1 /\ (N - k - 1) + 1 = N - k /\ N - (k + 1) = N - k - 1
    OBVIOUS
  <2> QED
    BY <2>1
<1>3. N \in H
  <2> HIDE DEF H
  <2> QED
    BY <1>1, <1>2, Upwards
<1> QED
  BY <1>3

\* The leaves, and what pairing makes of each level, as equations of Level.
LEMMA LevelDef ==
    ASSUME NEW batch, Len(batch) \in Nat
    PROVE  \A k \in 0 .. Len(batch) :
               Level(batch)[k] = IF k = 0 THEN [i \in 1 .. Len(batch) |-> LeafHash(batch[i])]
                                          ELSE Paired(Level(batch)[k - 1])
<1> DEFINE N == Len(batch)
           leaves == [i \in 1 .. Len(batch) |-> LeafHash(batch[i])]
           Unfold(f) == [k \in 0 .. N |-> IF k = 0 THEN leaves ELSE Paired(f[k - 1])]
           sol == CHOOSE f : f = Unfold(f)
           Good(f, n) == \A i \in 0 .. n : f[i] = IF i = 0 THEN leaves ELSE Paired(f[i - 1])
           Bad == {n \in 0 .. N : ~ \E f : Good(f, n)}
<1>1. Level(batch) = sol
  BY DEF Level
<1> HIDE DEF leaves
<1>2. 0 \notin Bad
  <2>1. Good([i \in 0 .. N |-> leaves], 0)
    OBVIOUS
  <2> QED
    BY <2>1
<1>3. ASSUME NEW n \in Nat, n + 1 <= N, NEW f, Good(f, n)
      PROVE  \E h : Good(h, n + 1)
  <2> DEFINE h == [i \in 0 .. N |-> IF i <= n THEN f[i] ELSE Paired(f[n])]
  <2>1. ASSUME NEW i \in 0 .. n + 1
        PROVE  h[i] = IF i = 0 THEN leaves ELSE Paired(h[i - 1])
    <3>1. CASE i <= n
      <4>1. h[i] = f[i] /\ (i # 0 => h[i - 1] = f[i - 1])
        BY <1>3, <3>1
      <4> QED
        BY <1>3, <3>1, <4>1
    <3>2. CASE i = n + 1
      <4>1. h[i] = Paired(f[n]) /\ h[i - 1] = f[n]
        BY <1>3, <3>2
      <4> QED
        BY <1>3, <3>2, <4>1
    <3> QED
      BY <1>3, <3>1, <3>2
  <2> QED
    BY <2>1
<1>4. Bad = {}
  <2> SUFFICES ASSUME Bad # {} PROVE FALSE
    OBVIOUS
  <2>1. PICK n \in Bad : \A m \in Bad : n <= m
    <3>1. Bad \in SUBSET Nat
      OBVIOUS
    <3> HIDE DEF Bad
    <3> QED
      BY <3>1, LeastNumber
  <2>2. n \in 0 .. N /\ n # 0
    BY <1>2
  <2>3. n - 1 \in Nat /\ n - 1 \in 0 .. N /\ (n - 1) + 1 = n
    BY <2>2
  <2>4. n - 1 \notin Bad
    <3>1. ~ (n <= n - 1)
      BY <2>2
    <3> HIDE DEF Bad
    <3> QED
      BY <2>1, <3>1
  <2>5. PICK f : Good(f, n - 1)
    BY <2>3, <2>4
  <2>6. \E h : Good(h, (n - 1) + 1)
    <3> HIDE DEF Good
    <3> QED
      BY <1>3, <2>2, <2>3, <2>5
  <2> QED
    BY <2>1, <2>3, <2>6
<1>5. PICK f : Good(f, N)
  <2>1. N \in 0 .. N
    OBVIOUS
  <2> HIDE DEF Good
  <2> QED
    BY <1>4, <2>1
<1>6. [i \in 0 .. N |-> f[i]] = Unfold([i \in 0 .. N |-> f[i]])
  BY <1>5
<1>7. sol = Unfold(sol)
  BY <1>6
<1> HIDE DEF sol
<1>8. \A k \in 0 .. N : sol[k] = IF k = 0 THEN leaves ELSE Paired(sol[k - 1])
  BY <1>7
<1> QED
  BY <1>1, <1>8 DEF leaves

\* Halving, as equations of WayUp.
LEMMA WayUpDef ==
    ASSUME NEW index, NEW height \in Nat
    PROVE  \A k \in 0 .. height :
               WayUp(index, height)[k] = IF k = 0 THEN index
                                                  ELSE WayUp(index, height)[k - 1] \div 2
<1> DEFINE N == height
           Unfold(f) == [k \in 0 .. N |-> IF k = 0 THEN index ELSE f[k - 1] \div 2]
           sol == CHOOSE f : f = Unfold(f)
           Good(f, n) == \A i \in 0 .. n : f[i] = IF i = 0 THEN index ELSE f[i - 1] \div 2
           Bad == {n \in 0 .. N : ~ \E f : Good(f, n)}
<1>1. WayUp(index, height) = sol
  BY DEF WayUp
<1>2. 0 \notin Bad
  <2>1. Good([i \in 0 .. N |-> index], 0)
    OBVIOUS
  <2> QED
    BY <2>1
<1>3. ASSUME NEW n \in Nat, n + 1 <= N, NEW f, Good(f, n)
      PROVE  \E h : Good(h, n + 1)
  <2> DEFINE h == [i \in 0 .. N |-> IF i <= n THEN f[i] ELSE f[n] \div 2]
  <2>1. ASSUME NEW i \in 0 .. n + 1
        PROVE  h[i] = IF i = 0 THEN index ELSE h[i - 1] \div 2
    <3>1. CASE i <= n
      <4>1. h[i] = f[i] /\ (i # 0 => h[i - 1] = f[i - 1])
        BY <1>3, <3>1
      <4> QED
        BY <1>3, <3>1, <4>1
    <3>2. CASE i = n + 1
      <4>1. h[i] = f[n] \div 2 /\ h[i - 1] = f[n]
        BY <1>3, <3>2
      <4> QED
        BY <1>3, <3>2, <4>1
    <3> QED
      BY <1>3, <3>1, <3>2
  <2> QED
    BY <2>1
<1>4. Bad = {}
  <2> SUFFICES ASSUME Bad # {} PROVE FALSE
    OBVIOUS
  <2>1. PICK n \in Bad : \A m \in Bad : n <= m
    <3>1. Bad \in SUBSET Nat
      OBVIOUS
    <3> HIDE DEF Bad
    <3> QED
      BY <3>1, LeastNumber
  <2>2. n \in 0 .. N /\ n # 0
    BY <1>2
  <2>3. n - 1 \in Nat /\ n - 1 \in 0 .. N /\ (n - 1) + 1 = n
    BY <2>2
  <2>4. n - 1 \notin Bad
    <3>1. ~ (n <= n - 1)
      BY <2>2
    <3> HIDE DEF Bad
    <3> QED
      BY <2>1, <3>1
  <2>5. PICK f : Good(f, n - 1)
    BY <2>3, <2>4
  <2>6. \E h : Good(h, (n - 1) + 1)
    <3> HIDE DEF Good
    <3> QED
      BY <1>3, <2>2, <2>3, <2>5
  <2> QED
    BY <2>1, <2>3, <2>6
<1>5. PICK f : Good(f, N)
  <2>1. N \in 0 .. N
    OBVIOUS
  <2> HIDE DEF Good
  <2> QED
    BY <1>4, <2>1
<1>6. [i \in 0 .. N |-> f[i]] = Unfold([i \in 0 .. N |-> f[i]])
  BY <1>5
<1>7. sol = Unfold(sol)
  BY <1>6
<1> HIDE DEF sol
<1>8. \A k \in 0 .. N : sol[k] = IF k = 0 THEN index ELSE sol[k - 1] \div 2
  BY <1>7
<1> QED
  BY <1>1, <1>8

\* Folding a path, as equations of Climb.
LEMMA ClimbDef ==
    ASSUME NEW start, NEW path, Len(path) \in Nat
    PROVE  \A k \in 0 .. Len(path) :
               Climb(start, path)[k] = IF k = 0 THEN start
                                       ELSE Joined(Climb(start, path)[k - 1], path[k])
<1> DEFINE N == Len(path)
           Unfold(f) == [k \in 0 .. N |-> IF k = 0 THEN start ELSE Joined(f[k - 1], path[k])]
           sol == CHOOSE f : f = Unfold(f)
           Good(f, n) == \A i \in 0 .. n : f[i] = IF i = 0 THEN start
                                                         ELSE Joined(f[i - 1], path[i])
           Bad == {n \in 0 .. N : ~ \E f : Good(f, n)}
<1>1. Climb(start, path) = sol
  BY DEF Climb
<1>2. 0 \notin Bad
  <2>1. Good([i \in 0 .. N |-> start], 0)
    OBVIOUS
  <2> QED
    BY <2>1
<1>3. ASSUME NEW n \in Nat, n + 1 <= N, NEW f, Good(f, n)
      PROVE  \E h : Good(h, n + 1)
  <2> DEFINE h == [i \in 0 .. N |-> IF i <= n THEN f[i] ELSE Joined(f[n], path[n + 1])]
  <2>1. ASSUME NEW i \in 0 .. n + 1
        PROVE  h[i] = IF i = 0 THEN start ELSE Joined(h[i - 1], path[i])
    <3>1. CASE i <= n
      <4>1. h[i] = f[i] /\ (i # 0 => h[i - 1] = f[i - 1])
        BY <1>3, <3>1
      <4> QED
        BY <1>3, <3>1, <4>1
    <3>2. CASE i = n + 1
      <4>1. h[i] = Joined(f[n], path[n + 1]) /\ h[i - 1] = f[n]
        BY <1>3, <3>2
      <4> QED
        BY <1>3, <3>2, <4>1
    <3> QED
      BY <1>3, <3>1, <3>2
  <2> QED
    BY <2>1
<1>4. Bad = {}
  <2> SUFFICES ASSUME Bad # {} PROVE FALSE
    OBVIOUS
  <2>1. PICK n \in Bad : \A m \in Bad : n <= m
    <3>1. Bad \in SUBSET Nat
      OBVIOUS
    <3> HIDE DEF Bad
    <3> QED
      BY <3>1, LeastNumber
  <2>2. n \in 0 .. N /\ n # 0
    BY <1>2
  <2>3. n - 1 \in Nat /\ n - 1 \in 0 .. N /\ (n - 1) + 1 = n
    BY <2>2
  <2>4. n - 1 \notin Bad
    <3>1. ~ (n <= n - 1)
      BY <2>2
    <3> HIDE DEF Bad
    <3> QED
      BY <2>1, <3>1
  <2>5. PICK f : Good(f, n - 1)
    BY <2>3, <2>4
  <2>6. \E h : Good(h, (n - 1) + 1)
    <3> HIDE DEF Good
    <3> QED
      BY <1>3, <2>2, <2>3, <2>5
  <2> QED
    BY <2>1, <2>3, <2>6
<1>5. PICK f : Good(f, N)
  <2>1. N \in 0 .. N
    OBVIOUS
  <2> HIDE DEF Good
  <2> QED
    BY <1>4, <2>1
<1>6. [i \in 0 .. N |-> f[i]] = Unfold([i \in 0 .. N |-> f[i]])
  BY <1>5
<1>7. sol = Unfold(sol)
  BY <1>6
<1> HIDE DEF sol
<1>8. \A k \in 0 .. N : sol[k] = IF k = 0 THEN start ELSE Joined(sol[k - 1], path[k])
  BY <1>7
<1> QED
  BY <1>1, <1>8

\* A level of n nodes.
Wide(level, n) == n \in Nat \ {0} /\ level = [i \in 1 .. n |-> level[i]]

LEMMA WideLen ==
    ASSUME NEW level, NEW n, Wide(level, n)
    PROVE  Len(level) = n /\ DOMAIN level = 1 .. n /\ n \in Nat \ {0}
<1> DEFINE nodes == {level[i] : i \in 1 .. n}
<1>1. n \in Nat \ {0} /\ level = [i \in 1 .. n |-> level[i]]
  BY DEF Wide
<1>2. level \in [1 .. n -> nodes]
  BY <1>1
<1> HIDE DEF nodes
<1> QED
  BY <1>1, <1>2

\* Two levels with the same nodes are the same.
LEMMA WideAlike ==
    ASSUME NEW n, NEW f, NEW g, Wide(f, n), Wide(g, n), \A i \in 1 .. n : f[i] = g[i]
    PROVE  f = g
<1>1. f = [i \in 1 .. n |-> f[i]] /\ g = [i \in 1 .. n |-> g[i]]
  BY DEF Wide
<1>2. [i \in 1 .. n |-> f[i]] = [i \in 1 .. n |-> g[i]]
  OBVIOUS
<1> QED
  BY <1>1, <1>2

\* Pairing makes a level of half as many nodes, and each of its nodes of two.
LEMMA PairedFacts ==
    ASSUME NEW level, NEW n, Wide(level, n)
    PROVE  /\ Wide(Paired(level), (n + 1) \div 2)
           /\ \A i \in 1 .. (n + 1) \div 2 :
                  Paired(level)[i] = Combine(level[2 * i - 1],
                                             level[IF 2 * i <= n THEN 2 * i ELSE 2 * i - 1])
<1>1. Len(level) = n /\ n \in Nat \ {0}
  BY WideLen
<1>2. (n + 1) \div 2 \in Nat \ {0}
  BY <1>1
<1> DEFINE m == (n + 1) \div 2
           node(i) == Combine(level[2 * i - 1], level[IF 2 * i <= n THEN 2 * i ELSE 2 * i - 1])
<1>3. Paired(level) = [i \in 1 .. m |-> node(i)]
  BY <1>1 DEF Paired
<1> HIDE DEF node, m
<1>4. \A i \in 1 .. m : Paired(level)[i] = node(i)
  BY <1>3
<1>5. Paired(level) = [i \in 1 .. m |-> Paired(level)[i]]
  BY <1>3, <1>4
<1> QED
  BY <1>2, <1>4, <1>5 DEF Wide, m, node

\* Each level has half as many nodes as the one below, rounded up, until one is left.
LEMMA LevelFacts ==
    ASSUME NEW X, NEW batch \in Seq(X), batch # <<>>
    PROVE  /\ Len(batch) \in Nat \ {0}
           /\ Wide(Level(batch)[0], Len(batch))
           /\ \A i \in 1 .. Len(batch) : Level(batch)[0][i] = LeafHash(batch[i])
           /\ \A k \in 1 .. Len(batch) : Level(batch)[k] = Paired(Level(batch)[k - 1])
           /\ \A k \in 0 .. Len(batch) : Wide(Level(batch)[k], Len(Level(batch)[k]))
           /\ \A k \in 0 .. Len(batch) :
                  Len(Level(batch)[k]) = 1 \/ Len(Level(batch)[k]) + k <= Len(batch)
<1> DEFINE n == Len(batch)
           level(k) == Level(batch)[k]
<1>1. n \in Nat \ {0}
  OBVIOUS
<1> DEFINE leaves == [i \in 1 .. n |-> LeafHash(batch[i])]
<1>2. level(0) = leaves /\ \A k \in 1 .. n : level(k) = Paired(level(k - 1))
  <2>1. \A k \in 0 .. n : level(k) = IF k = 0 THEN leaves ELSE Paired(level(k - 1))
    BY <1>1, LevelDef, Zenon
  <2> HIDE DEF level, leaves, n
  <2>2. 0 \in 0 .. n /\ \A k \in 1 .. n : k \in 0 .. n /\ k # 0
    BY <1>1
  <2> QED
    BY <2>1, <2>2, Zenon
<1>3. \A i \in 1 .. n : level(0)[i] = LeafHash(batch[i])
  BY <1>2
<1>4. Wide(level(0), n)
  BY <1>1, <1>2 DEF Wide
<1> DEFINE G == {k \in 0 .. n : /\ Wide(level(k), Len(level(k)))
                                /\ Len(level(k)) = 1 \/ Len(level(k)) + k <= n}
<1>5. 0 \in G
  BY <1>1, <1>4, WideLen
<1>6. ASSUME NEW k \in 0 .. n - 1, k \in G
      PROVE  k + 1 \in G
  <2> DEFINE m == Len(level(k))
             half == (m + 1) \div 2
  <2>1. Wide(level(k), m) /\ (m = 1 \/ m + k <= n)
    BY <1>6
  <2>2. m \in Nat \ {0}
    BY <2>1, WideLen
  <2>3. level(k + 1) = Paired(level(k))
    BY <1>1, <1>2
  <2>4. Wide(level(k + 1), half) /\ Len(level(k + 1)) = half
    <3>1. Wide(level(k + 1), half)
      BY <2>1, <2>3, PairedFacts
    <3> QED
      BY <3>1, WideLen
  <2> HIDE DEF level, m
  <2>5. half = 1 \/ half + (k + 1) <= n
    BY <1>1, <2>1, <2>2
  <2> HIDE DEF half
  <2>6. k + 1 \in 0 .. n
    BY <1>1
  <2> QED
    BY <2>4, <2>5, <2>6
<1>7. \A k \in 0 .. n : k \in G
  <2> HIDE DEF G
  <2> QED
    BY <1>1, <1>5, <1>6, Upwards
<1> HIDE DEF n
<1> QED
  BY <1>1, <1>2, <1>3, <1>4, <1>7 DEF n

\* The tree ends in one node.
LEMMA HeightFacts ==
    ASSUME NEW X, NEW batch \in Seq(X), batch # <<>>
    PROVE  /\ Height(batch) \in 0 .. Len(batch)
           /\ Len(Level(batch)[Height(batch)]) = 1
           /\ \A k \in 0 .. Height(batch) - 1 : Len(Level(batch)[k]) > 1
<1> DEFINE n == Len(batch)
           size(k) == Len(Level(batch)[k])
           Done == {k \in 0 .. n : size(k) = 1}
<1>1. n \in Nat \ {0}
  OBVIOUS
<1>2. \A k \in 0 .. n : size(k) \in Nat \ {0} /\ (size(k) = 1 \/ size(k) + k <= n)
  BY LevelFacts, WideLen
<1> HIDE DEF n, size
<1>3. n \in Done
  BY <1>1, <1>2
<1>4. PICK h \in Done : \A k \in Done : h <= k
  <2>1. Done \in SUBSET Nat
    BY <1>1
  <2> HIDE DEF Done
  <2> QED
    BY <1>3, <2>1, LeastNumber
<1>5. h \in 0 .. n /\ size(h) = 1
  BY <1>4
<1>6. \A k \in 0 .. h - 1 : size(k) > 1
  <2> TAKE k \in 0 .. h - 1
  <2>1. k \in 0 .. n /\ ~ (h <= k)
    BY <1>1, <1>5
  <2>2. k \notin Done
    <3> HIDE DEF Done
    <3> QED
      BY <1>4, <2>1
  <2>3. size(k) # 1
    BY <2>1, <2>2
  <2> QED
    BY <1>2, <2>1, <2>3
<1>7. \E k \in 0 .. n : size(k) = 1 /\ \A j \in 0 .. k - 1 : size(j) > 1
  BY <1>5, <1>6
<1>8. Height(batch) = CHOOSE k \in 0 .. n : size(k) = 1 /\ \A j \in 0 .. k - 1 : size(j) > 1
  BY DEF Height, n, size
<1>9. /\ Height(batch) \in 0 .. n /\ size(Height(batch)) = 1
      /\ \A j \in 0 .. Height(batch) - 1 : size(j) > 1
  BY <1>7, <1>8
<1> QED
  BY <1>9 DEF n, size

\* Hashes do not collide.
LEMMA Injective ==
    /\ \A a, b, c, d : Combine(a, b) = Combine(c, d) <=> a = c /\ b = d
    /\ \A a, b : LeafHash(a) = LeafHash(b) <=> a = b
<1>1. ASSUME NEW a, NEW b, NEW c, NEW d, Combine(a, b) = Combine(c, d)
      PROVE  a = c /\ b = d
  BY <1>1 DEF Combine
<1>2. ASSUME NEW a, NEW b, LeafHash(a) = LeafHash(b)
      PROVE  a = b
  BY <1>2 DEF LeafHash
<1> QED
  BY <1>1, <1>2

\* One step up: what is joined with the sibling of node i is the node above exactly if
\* it is node i, at the end of an odd level too.
LEMMA OneUp ==
    ASSUME NEW level, NEW n, Wide(level, n), NEW i \in 0 .. n - 1, NEW current, NEW step,
           step.hash = level[SiblingIndex(i, n) + 1], step.right <=> i % 2 = 0
    PROVE  /\ i \div 2 \in 0 .. (n + 1) \div 2 - 1
           /\ Joined(current, step) = Paired(level)[i \div 2 + 1] <=> current = level[i + 1]
<1>1. n \in Nat \ {0}
  BY DEF Wide
<1> DEFINE j == i \div 2 + 1
<1>2. j \in 1 .. (n + 1) \div 2
  BY <1>1
<1>3. Paired(level)[j] = Combine(level[2 * j - 1],
                                 level[IF 2 * j <= n THEN 2 * j ELSE 2 * j - 1])
  BY <1>2, PairedFacts
<1>4. CASE i % 2 = 0
  <2>1. 2 * j - 1 = i + 1
    BY <1>1, <1>4
  <2>2. SiblingIndex(i, n) + 1 = IF 2 * j <= n THEN 2 * j ELSE 2 * j - 1
    BY <1>1, <1>4, <2>1 DEF SiblingIndex
  <2>3. Joined(current, step) = Combine(current, step.hash)
    BY <1>4 DEF Joined
  <2>4. Paired(level)[j] = Combine(level[i + 1], step.hash)
    BY <1>3, <2>1, <2>2
  <2>5. Joined(current, step) = Paired(level)[j] <=> current = level[i + 1]
    BY <2>3, <2>4, Injective
  <2> QED
    BY <1>1, <1>2, <2>5
<1>5. CASE i % 2 # 0
  <2>1. i % 2 = 1 /\ 2 * j - 1 = i /\ 2 * j = i + 1 /\ 2 * j <= n
    BY <1>1, <1>5
  <2>2. SiblingIndex(i, n) + 1 = 2 * j - 1
    BY <1>1, <2>1 DEF SiblingIndex
  <2>3. Joined(current, step) = Combine(step.hash, current)
    BY <1>5 DEF Joined
  <2>4. Paired(level)[j] = Combine(step.hash, level[i + 1])
    BY <1>3, <2>1, <2>2
  <2>5. Joined(current, step) = Paired(level)[j] <=> current = level[i + 1]
    BY <2>3, <2>4, Injective
  <2> QED
    BY <1>1, <1>2, <2>5
<1> QED
  BY <1>4, <1>5

\* The way up stays within the levels.
LEMMA WayUpFits ==
    ASSUME NEW X, NEW batch \in Seq(X), batch # <<>>, NEW index \in 0 .. Len(batch) - 1
    PROVE  \A k \in 0 .. Height(batch) :
               WayUp(index, Height(batch))[k] \in 0 .. Len(Level(batch)[k]) - 1
<1> DEFINE n == Len(batch)
           h == Height(batch)
           size(k) == Len(Level(batch)[k])
           at(k) == WayUp(index, h)[k]
           G == {k \in 0 .. h : at(k) \in 0 .. size(k) - 1}
<1>1. n \in Nat \ {0} /\ h \in 0 .. n /\ size(0) = n
  BY LevelFacts, HeightFacts, WideLen
<1>2. \A k \in 0 .. h : at(k) = IF k = 0 THEN index ELSE at(k - 1) \div 2
  BY <1>1, WayUpDef
<1>3. \A k \in 0 .. h - 1 : size(k) \in Nat \ {0} /\ size(k + 1) = (size(k) + 1) \div 2
  <2> TAKE k \in 0 .. h - 1
  <2>1. k \in 0 .. n /\ k + 1 \in 1 .. n /\ (k + 1) - 1 = k
    BY <1>1
  <2>2. Wide(Level(batch)[k], size(k)) /\ Level(batch)[k + 1] = Paired(Level(batch)[k])
    BY <2>1, LevelFacts
  <2>3. Wide(Level(batch)[k + 1], (size(k) + 1) \div 2)
    BY <2>2, PairedFacts
  <2> QED
    BY <2>2, <2>3, WideLen
<1> HIDE DEF n, h, size, at
<1>4. 0 \in G
  BY <1>1, <1>2 DEF n
<1>5. \A k \in 0 .. h - 1 : k \in G => k + 1 \in G
  <2> TAKE k \in 0 .. h - 1
  <2> SUFFICES ASSUME k \in G PROVE k + 1 \in G
    OBVIOUS
  <2>1. k \in 0 .. h /\ k + 1 \in 0 .. h /\ k + 1 # 0 /\ (k + 1) - 1 = k
    BY <1>1
  <2>2. at(k + 1) = at(k) \div 2
    BY <1>2, <2>1
  <2>3. at(k) \in 0 .. size(k) - 1
    OBVIOUS
  <2>4. size(k) \in Nat \ {0} /\ size(k + 1) = (size(k) + 1) \div 2
    BY <1>3
  <2>5. at(k + 1) \in 0 .. size(k + 1) - 1
    BY <2>2, <2>3, <2>4
  <2> QED
    BY <2>1, <2>5
<1>6. \A k \in 0 .. h : k \in G
  <2>1. h \in Nat
    BY <1>1
  <2> HIDE DEF G
  <2> QED
    BY <1>4, <1>5, <2>1, Upwards
<1> QED
  BY <1>6 DEF at, h, size

\* The length of what is indexed from 1.
LEMMA LenOf ==
    ASSUME NEW n \in Nat, NEW f, DOMAIN f = 1 .. n, f = [i \in 1 .. n |-> f[i]]
    PROVE  Len(f) = n
<1> DEFINE values == {f[i] : i \in 1 .. n}
<1>1. f \in [1 .. n -> values]
  OBVIOUS
<1> HIDE DEF values
<1> QED
  BY <1>1

\* What MerkleTree::proof puts at each height.
LEMMA PathFacts ==
    ASSUME NEW batch, NEW index, Height(batch) \in Nat
    PROVE  LET h == Height(batch)
               proof == MerkleProof(batch, index)
               at(k) == WayUp(index, h)[k - 1]
           IN  /\ DOMAIN proof.siblings = 1 .. h /\ Len(proof.siblings) = h
               /\ Len(PathOf(proof)) = h
               /\ proof.leaf_hash = Level(batch)[0][index + 1]
               /\ \A k \in 1 .. h :
                     LET level == Level(batch)[k - 1]
                     IN  /\ proof.siblings[k].position \in {"left", "right"}
                         /\ PathOf(proof)[k].hash = level[SiblingIndex(at(k), Len(level)) + 1]
                         /\ PathOf(proof)[k].right <=> at(k) % 2 = 0
<1> DEFINE h == Height(batch)
           at(k) == WayUp(index, h)[k - 1]
           level(k) == Level(batch)[k - 1]
           sibling(k) == [hash |-> level(k)[SiblingIndex(at(k), Len(level(k))) + 1],
                          position |-> IF at(k) % 2 = 0 THEN "right" ELSE "left"]
           proof == MerkleProof(batch, index)
           path == PathOf(proof)
<1>1. proof = [leaf_hash |-> Level(batch)[0][index + 1],
               siblings |-> [k \in 1 .. h |-> sibling(k)]]
  BY DEF MerkleProof
<1>2. proof.leaf_hash = Level(batch)[0][index + 1]
  BY <1>1
<1>3. proof.siblings = [k \in 1 .. h |-> sibling(k)]
  BY <1>1
<1> HIDE DEF proof
<1>4. \A k \in 1 .. h : /\ sibling(k).hash = level(k)[SiblingIndex(at(k), Len(level(k))) + 1]
                        /\ sibling(k).position = "right" <=> at(k) % 2 = 0
                        /\ sibling(k).position \in {"left", "right"}
  OBVIOUS
<1> HIDE DEF sibling, level, at
<1>5. DOMAIN proof.siblings = 1 .. h /\ \A k \in 1 .. h : proof.siblings[k] = sibling(k)
  BY <1>3
<1>6. path = [k \in 1 .. h |-> [hash |-> proof.siblings[k].hash,
                                right |-> proof.siblings[k].position = "right"]]
  BY <1>5 DEF PathOf
<1> HIDE DEF path, h
<1>7. \A k \in 1 .. h : /\ path[k].hash = sibling(k).hash
                        /\ path[k].right = (sibling(k).position = "right")
  BY <1>5, <1>6
<1>8. h \in Nat
  BY DEF h
<1>9. Len(path) = h
  <2>1. DOMAIN path = 1 .. h /\ path = [k \in 1 .. h |-> path[k]]
    BY <1>6
  <2> QED
    BY <1>8, <2>1, LenOf
<1>10. Len(proof.siblings) = h
  <2>1. proof.siblings = [k \in 1 .. h |-> proof.siblings[k]]
    BY <1>3, <1>5
  <2> QED
    BY <1>5, <1>8, <2>1, LenOf
<1>11. \A k \in 1 .. h : /\ proof.siblings[k].position \in {"left", "right"}
                         /\ path[k].hash = level(k)[SiblingIndex(at(k), Len(level(k))) + 1]
                         /\ path[k].right <=> at(k) % 2 = 0
  BY <1>4, <1>5, <1>7
<1> QED
  BY <1>2, <1>5, <1>9, <1>10, <1>11 DEF path, h, level, at, proof

\* Along the path of the item at index, its leaf becomes the node of each level it
\* passes, and nothing else becomes any of them.
LEMMA ClimbFinds ==
    ASSUME NEW X, NEW batch \in Seq(X), batch # <<>>, NEW index \in 0 .. Len(batch) - 1,
           NEW leaf, NEW path, path = PathOf(MerkleProof(batch, index))
    PROVE  Folded(leaf, path) = MerkleRoot(batch) <=> leaf = Level(batch)[0][index + 1]
<1> DEFINE n == Len(batch)
           h == Height(batch)
           level(k) == Level(batch)[k]
           size(k) == Len(Level(batch)[k])
           at(k) == WayUp(index, h)[k]
           climb(k) == Climb(leaf, path)[k]
           node(k) == level(k)[at(k) + 1]
           G == {k \in 0 .. h : climb(k) = node(k) <=> leaf = node(0)}
<1>1. n \in Nat \ {0} /\ h \in 0 .. n /\ h \in Nat
  BY HeightFacts
<1>2. Len(path) = h /\ \A k \in 1 .. h :
          /\ path[k].hash = level(k - 1)[SiblingIndex(at(k - 1), size(k - 1)) + 1]
          /\ path[k].right <=> at(k - 1) % 2 = 0
  BY <1>1, PathFacts
<1>3. \A k \in 0 .. h : at(k) \in 0 .. size(k) - 1
  BY WayUpFits
<1>4. \A k \in 0 .. h : at(k) = IF k = 0 THEN index ELSE at(k - 1) \div 2
  BY <1>1, WayUpDef
<1>5. \A k \in 0 .. h : climb(k) = IF k = 0 THEN leaf ELSE Joined(climb(k - 1), path[k])
  <2>1. Len(path) \in Nat
    BY <1>1, <1>2
  <2> QED
    BY <1>2, <2>1, ClimbDef
<1>6. \A k \in 0 .. n : Wide(level(k), size(k))
  BY LevelFacts
<1>7. \A k \in 1 .. n : level(k) = Paired(level(k - 1))
  BY LevelFacts
<1>8. size(h) = 1 /\ MerkleRoot(batch) = level(h)[1]
  BY HeightFacts DEF MerkleRoot
<1>9. Folded(leaf, path) = climb(h)
  BY <1>2 DEF Folded
<1> HIDE DEF n, h, level, size, at, climb
<1>10. 0 \in G
  BY <1>1, <1>5
<1>11. \A k \in 0 .. h - 1 : k \in G => k + 1 \in G
  <2> TAKE k \in 0 .. h - 1
  <2> SUFFICES ASSUME k \in G PROVE k + 1 \in G
    OBVIOUS
  <2>1. k \in 0 .. h /\ k + 1 \in 1 .. h /\ k + 1 \in 0 .. h /\ k \in 0 .. n /\ k + 1 \in 1 .. n
        /\ k + 1 # 0 /\ (k + 1) - 1 = k
    BY <1>1
  <2>2. climb(k + 1) = Joined(climb(k), path[k + 1]) /\ at(k + 1) = at(k) \div 2
    BY <1>4, <1>5, <2>1
  <2>3. Wide(level(k), size(k)) /\ at(k) \in 0 .. size(k) - 1
    BY <1>3, <1>6, <2>1
  <2>4. /\ path[k + 1].hash = level(k)[SiblingIndex(at(k), size(k)) + 1]
        /\ path[k + 1].right <=> at(k) % 2 = 0
    BY <1>2, <2>1
  <2>5. level(k + 1) = Paired(level(k))
    BY <1>7, <2>1
  <2>6. Joined(climb(k), path[k + 1]) = Paired(level(k))[at(k) \div 2 + 1]
            <=> climb(k) = level(k)[at(k) + 1]
    BY <2>3, <2>4, OneUp
  <2>7. climb(k + 1) = node(k + 1) <=> climb(k) = node(k)
    BY <2>2, <2>5, <2>6
  <2> QED
    BY <2>1, <2>7
<1>12. h \in G
  <2>1. \A k \in 0 .. h : k \in G
    <3> HIDE DEF G
    <3> QED
      BY <1>1, <1>10, <1>11, Upwards
  <2> QED
    BY <1>1, <2>1
<1>13. at(h) = 0
  BY <1>1, <1>3, <1>8
<1>14. at(0) = index
  BY <1>1, <1>4
<1>15. climb(h) = level(h)[1] <=> leaf = level(0)[index + 1]
  BY <1>12, <1>13, <1>14
<1> QED
  BY <1>8, <1>9, <1>15 DEF level

\* Every item's proof is its own.
LEMMA ItemProved ==
    ASSUME NEW X, NEW batch \in Seq(X), batch # <<>>, NEW index \in 0 .. Len(batch) - 1
    PROVE  ProvesItsItem(batch, index)
<1> DEFINE proof == MerkleProof(batch, index)
           root == MerkleRoot(batch)
           path == PathOf(proof)
           with(leaf) == [proof EXCEPT !.leaf_hash = leaf]
<1>1. proof = [leaf_hash |-> proof.leaf_hash, siblings |-> proof.siblings]
  BY DEF MerkleProof
<1> HIDE DEF proof
<1>2. ASSUME NEW leaf
      PROVE  Verifies(with(leaf), root) <=> leaf = Level(batch)[0][index + 1]
  <2>1. with(leaf).leaf_hash = leaf /\ with(leaf).siblings = proof.siblings
    BY <1>1
  <2> HIDE DEF with
  <2>2. PathOf(with(leaf)) = path
    BY <2>1 DEF PathOf
  <2>3. Verifies(with(leaf), root) <=> Folded(leaf, path) = root
    BY <2>1, <2>2 DEF Verifies
  <2>4. Folded(leaf, path) = root <=> leaf = Level(batch)[0][index + 1]
    BY ClimbFinds DEF proof
  <2> QED
    BY <2>3, <2>4
<1>3. Level(batch)[0][index + 1] = LeafHash(batch[index + 1])
  BY LevelFacts
<1>4. \A i \in DOMAIN batch : Verifies(with(LeafHash(batch[i])), root)
                                  <=> batch[i] = batch[index + 1]
  <2> TAKE i \in DOMAIN batch
  <2>1. Verifies(with(LeafHash(batch[i])), root) <=> LeafHash(batch[i]) = LeafHash(batch[index + 1])
    BY <1>2, <1>3
  <2> QED
    BY <2>1, Injective
<1> QED
  BY <1>4 DEF ProvesItsItem, proof

\* The tree of several items has several levels.
LEMMA SeveralAreHigher ==
    ASSUME NEW X, NEW batch \in Seq(X), batch # <<>>, Len(batch) > 1
    PROVE  Height(batch) # 0
<1>1. Len(Level(batch)[Height(batch)]) = 1
  BY HeightFacts
<1>2. Len(Level(batch)[0]) = Len(batch)
  BY LevelFacts, WideLen
<1>3. Len(batch) # 1
  <2> DEFINE n == Len(batch)
  <2>1. n \in Nat
    BY LevelFacts
  <2>2. n > 1
    OBVIOUS
  <2> HIDE DEF n
  <2>3. n # 1
    BY <2>1, <2>2
  <2> QED
    BY <2>3 DEF n
<1>4. ASSUME Height(batch) = 0 PROVE FALSE
  BY <1>1, <1>2, <1>3, <1>4, Zenon
<1> QED
  BY <1>4

\* So it is in a block, whichever way its path is written.
LEMMA BlockProved ==
    ASSUME NEW X, NEW batch \in Seq(X), batch # <<>>, NEW index \in 0 .. Len(batch) - 1
    PROVE  ProvesItsBlock(batch, index)
<1> DEFINE proof == MerkleProof(batch, index)
           root == MerkleRoot(batch)
           path == PathOf(proof)
           h == Height(batch)
           sibling(k) == proof.siblings[k]
           sides == [k \in DOMAIN proof.siblings |->
                       [sibling |-> proof.siblings[k].hash,
                        side |-> IF proof.siblings[k].position = "left" THEN "L" ELSE "R"]]
           pairs == [k \in DOMAIN proof.siblings |->
                       <<proof.siblings[k].hash, proof.siblings[k].position = "right">>]
<1> SUFFICES ASSUME Len(batch) > 1, NEW i \in DOMAIN batch
             PROVE  LET txid == LeafHash(batch[i])
                    IN  /\ VerifiesSpv(proof, root, txid, sides, root)
                               <=> batch[i] = batch[index + 1]
                        /\ FoldBitcoin(txid, pairs) = root <=> batch[i] = batch[index + 1]
  BY DEF ProvesItsBlock
<1> DEFINE txid == LeafHash(batch[i])
<1>1. h \in Nat
  BY HeightFacts
<1>2. DOMAIN proof.siblings = 1 .. h /\ \A k \in 1 .. h : sibling(k).position \in {"left", "right"}
  BY <1>1, PathFacts
<1>3. h # 0
  BY SeveralAreHigher
<1>4. proof.leaf_hash = LeafHash(batch[index + 1])
  <2>1. proof.leaf_hash = Level(batch)[0][index + 1]
    BY <1>1, PathFacts
  <2> QED
    BY <2>1, LevelFacts
<1>5. \A leaf : Folded(leaf, path) = root <=> leaf = LeafHash(batch[index + 1])
  <2> TAKE leaf
  <2>1. Folded(leaf, path) = root <=> leaf = Level(batch)[0][index + 1]
    BY ClimbFinds
  <2> QED
    BY <2>1, LevelFacts
<1> HIDE DEF proof, h
<1>6. path = [k \in 1 .. h |-> [hash |-> sibling(k).hash, right |-> sibling(k).position = "right"]]
  BY <1>2 DEF PathOf
<1>7. FoldTxPath(txid, sides) = Folded(txid, path)
  <2>1. DOMAIN sides = 1 .. h
        /\ \A k \in 1 .. h :
              /\ sides[k].sibling = sibling(k).hash
              /\ sides[k].side = IF sibling(k).position = "left" THEN "L" ELSE "R"
    BY <1>2
  <2> HIDE DEF sides
  <2>2. ASSUME NEW k \in 1 .. h
        PROVE  [hash |-> sides[k].sibling, right |-> sides[k].side # "L"]
                   = [hash |-> sibling(k).hash, right |-> sibling(k).position = "right"]
    <3>1. CASE sibling(k).position = "left"
      BY <2>1, <3>1
    <3>2. CASE sibling(k).position = "right"
      BY <2>1, <3>2
    <3> QED
      BY <1>2, <3>1, <3>2
  <2>3. [k \in DOMAIN sides |-> [hash |-> sides[k].sibling, right |-> sides[k].side # "L"]] = path
    BY <1>6, <2>1, <2>2
  <2> HIDE DEF path
  <2> QED
    BY <2>3 DEF FoldTxPath
<1>8. FoldBitcoin(txid, pairs) = Folded(txid, path)
  <2>1. DOMAIN pairs = 1 .. h
        /\ \A k \in 1 .. h : pairs[k] = <<sibling(k).hash, sibling(k).position = "right">>
    BY <1>2
  <2> HIDE DEF pairs
  <2>2. ASSUME NEW k \in 1 .. h
        PROVE  [hash |-> pairs[k][1], right |-> pairs[k][2]]
                   = [hash |-> sibling(k).hash, right |-> sibling(k).position = "right"]
    <3>1. CASE sibling(k).position = "left"
      BY <2>1, <3>1
    <3>2. CASE sibling(k).position = "right"
      BY <2>1, <3>2
    <3> QED
      BY <1>2, <3>1, <3>2
  <2>3. [k \in DOMAIN pairs |-> [hash |-> pairs[k][1], right |-> pairs[k][2]]] = path
    BY <1>6, <2>1, <2>2
  <2> HIDE DEF path
  <2> QED
    BY <2>3 DEF FoldBitcoin
<1>9. sides # <<>>
  <2>1. 1 \in DOMAIN sides
    BY <1>1, <1>2, <1>3
  <2>2. DOMAIN <<>> = {}
    OBVIOUS
  <2> QED
    BY <2>1, <2>2
<1> HIDE DEF sides, pairs, path, root
<1>10. Verifies(proof, root)
  BY <1>4, <1>5 DEF Verifies, path
<1>11. VerifiesSpv(proof, root, txid, sides, root) <=> FoldTxPath(txid, sides) = root
  BY <1>9, <1>10 DEF VerifiesSpv
<1>12. Folded(txid, path) = root <=> batch[i] = batch[index + 1]
  BY <1>5, Injective
<1> QED
  BY <1>7, <1>8, <1>11, <1>12

\* Levels with the same pairs are the same.
LEMMA PairedAlike ==
    ASSUME NEW n, NEW a, NEW b, Wide(a, n), Wide(b, n), Paired(a) = Paired(b)
    PROVE  a = b
<1>1. n \in Nat \ {0}
  BY DEF Wide
<1>2. ASSUME NEW i \in 1 .. n
      PROVE  a[i] = b[i]
  <2>1. CASE i % 2 = 1
    <3> DEFINE j == (i + 1) \div 2
    <3>1. j \in 1 .. (n + 1) \div 2 /\ 2 * j - 1 = i
      BY <1>1, <2>1
    <3> HIDE DEF j
    <3>2. /\ Paired(a)[j] = Combine(a[i], a[IF 2 * j <= n THEN 2 * j ELSE 2 * j - 1])
          /\ Paired(b)[j] = Combine(b[i], b[IF 2 * j <= n THEN 2 * j ELSE 2 * j - 1])
      BY <3>1, PairedFacts
    <3> QED
      BY <3>2, Injective
  <2>2. CASE i % 2 # 1
    <3> DEFINE j == i \div 2
    <3>1. j \in 1 .. (n + 1) \div 2 /\ 2 * j = i /\ 2 * j <= n
      BY <1>1, <2>2
    <3> HIDE DEF j
    <3>2. /\ Paired(a)[j] = Combine(a[2 * j - 1], a[i])
          /\ Paired(b)[j] = Combine(b[2 * j - 1], b[i])
      BY <3>1, PairedFacts
    <3> QED
      BY <3>2, Injective
  <2> QED
    BY <2>1, <2>2
<1> QED
  BY <1>2, WideAlike

\* A root commits to its items: of two batches of one size with one root, each is the
\* other.
LEMMA RootCommits ==
    ASSUME NEW X, NEW s \in Seq(X), NEW t \in Seq(X), s # <<>>, t # <<>>,
           Len(s) = Len(t), MerkleRoot(s) = MerkleRoot(t)
    PROVE  s = t
<1> DEFINE n == Len(s)
           h == Height(s)
           g == Height(t)
           of(k) == Level(s)[k]
           ot(k) == Level(t)[k]
           size(k) == Len(of(k))
           alike(k) == Len(ot(k)) = size(k)
           Sized == {k \in 0 .. n : alike(k)}
           Same == {k \in 0 .. h : of(k) = ot(k)}
<1>1. n \in Nat \ {0} /\ Len(t) = n /\ Wide(of(0), n) /\ Wide(ot(0), n)
  BY LevelFacts
<1>2. \A k \in 0 .. n : Wide(of(k), size(k)) /\ Wide(ot(k), Len(ot(k)))
  BY LevelFacts
<1>3. \A k \in 1 .. n : of(k) = Paired(of(k - 1)) /\ ot(k) = Paired(ot(k - 1))
  BY LevelFacts
<1>4. \A i \in 1 .. n : of(0)[i] = LeafHash(s[i]) /\ ot(0)[i] = LeafHash(t[i])
  BY LevelFacts
<1>5. /\ h \in 0 .. n /\ g \in 0 .. n
      /\ size(h) = 1 /\ Len(ot(g)) = 1
      /\ \A k \in 0 .. h - 1 : size(k) > 1
      /\ \A k \in 0 .. g - 1 : Len(ot(k)) > 1
  BY HeightFacts
<1>6. of(h)[1] = ot(g)[1]
  BY DEF MerkleRoot
<1> HIDE DEF n, h, g, of, ot
<1>7. \A k \in 0 .. n : Len(ot(k)) = size(k)
  <2>1. 0 \in Sized
    BY <1>1, WideLen
  <2>2. \A k \in 0 .. n - 1 : k \in Sized => k + 1 \in Sized
    <3> TAKE k \in 0 .. n - 1
    <3> SUFFICES ASSUME alike(k) PROVE alike(k + 1)
      BY <1>1
    <3>1. k \in 0 .. n /\ k + 1 \in 1 .. n /\ (k + 1) - 1 = k
      BY <1>1
    <3>2. Wide(of(k), size(k)) /\ Wide(ot(k), size(k))
      BY <1>2, <3>1
    <3>3. of(k + 1) = Paired(of(k)) /\ ot(k + 1) = Paired(ot(k))
      BY <1>3, <3>1
    <3>4. Wide(of(k + 1), (size(k) + 1) \div 2) /\ Wide(ot(k + 1), (size(k) + 1) \div 2)
      BY <3>2, <3>3, PairedFacts
    <3> QED
      BY <3>4, WideLen
  <2>3. \A k \in 0 .. n : k \in Sized
    <3> HIDE DEF Sized
    <3> QED
      BY <1>1, <2>1, <2>2, Upwards
  <2> QED
    BY <2>3
<1> HIDE DEF size
<1>8. g = h
  <2>1. size(g) = 1 /\ Len(ot(h)) = 1
    BY <1>5, <1>7, Zenon
  <2>2. g \in 0 .. n /\ h \in 0 .. n
    BY <1>5
  <2>3. g \in 0 .. h - 1 => ~ (size(g) = 1)
    <3>1. g \in 0 .. h - 1 => size(g) > 1
      BY <1>5, Zenon
    <3> HIDE DEF size
    <3> QED
      BY <3>1
  <2>4. h \in 0 .. g - 1 => ~ (Len(ot(h)) = 1)
    <3> DEFINE other == Len(ot(h))
    <3>1. h \in 0 .. g - 1 => other > 1
      BY <1>5, Zenon
    <3> HIDE DEF other
    <3>2. h \in 0 .. g - 1 => ~ (other = 1)
      BY <3>1
    <3> QED
      BY <3>2 DEF other
  <2>5. g \notin 0 .. h - 1 /\ h \notin 0 .. g - 1
    BY <2>1, <2>3, <2>4, Zenon
  <2> QED
    BY <1>1, <2>2, <2>5
<1>9. \A k \in 0 .. n : Wide(of(k), size(k)) /\ Wide(ot(k), size(k))
  BY <1>2, <1>7
<1>10. h \in Same
  <2>1. Wide(of(h), 1) /\ Wide(ot(h), 1)
    BY <1>5, <1>9
  <2>2. \A i \in 1 .. 1 : of(h)[i] = ot(h)[i]
    BY <1>6, <1>8
  <2>3. of(h) = ot(h)
    BY <2>1, <2>2, WideAlike
  <2> QED
    BY <1>5, <2>3
<1>11. \A k \in 0 .. h - 1 : k + 1 \in Same => k \in Same
  <2> TAKE k \in 0 .. h - 1
  <2> SUFFICES ASSUME of(k + 1) = ot(k + 1) PROVE of(k) = ot(k)
    BY <1>5
  <2>1. k \in 0 .. n /\ k + 1 \in 1 .. n /\ (k + 1) - 1 = k
    BY <1>1, <1>5
  <2>2. Paired(of(k)) = Paired(ot(k))
    BY <1>3, <2>1
  <2> QED
    BY <1>9, <2>1, <2>2, PairedAlike
<1>12. 0 \in Same
  <2>1. h \in Nat
    BY <1>5
  <2> HIDE DEF Same
  <2> QED
    BY <1>10, <1>11, <2>1, Downwards
<1>13. \A i \in 1 .. n : s[i] = t[i]
  <2> TAKE i \in 1 .. n
  <2>1. LeafHash(s[i]) = LeafHash(t[i])
    BY <1>4, <1>12
  <2> QED
    BY <2>1, Injective
<1> QED
  BY <1>1, <1>13 DEF n

\* Two runs of bytes that are one when joined are the same if their last parts are as long.
LEMMA JoinedApart ==
    ASSUME NEW B, NEW s \in Seq(B), NEW t \in Seq(B), NEW u \in Seq(B), NEW v \in Seq(B),
           s \o t = u \o v, Len(t) = Len(v)
    PROVE  s = u
<1>1. Len(s) = Len(u)
  BY Len(s \o t) = Len(s) + Len(t), Len(u \o v) = Len(u) + Len(v)
<1>2. \A i \in 1 .. Len(s) : (s \o t)[i] = s[i] /\ (u \o v)[i] = u[i]
  BY <1>1
<1>3. \A i \in 1 .. Len(s) : s[i] = u[i]
  BY <1>2
<1> QED
  BY <1>1, <1>3

LEMMA JoinedAfter ==
    ASSUME NEW B, NEW s \in Seq(B), NEW t \in Seq(B), NEW v \in Seq(B), s \o t = s \o v
    PROVE  t = v
<1>1. Len(t) = Len(v)
  BY Len(s \o t) = Len(s) + Len(t), Len(s \o v) = Len(s) + Len(v)
<1>2. \A i \in 1 .. Len(t) : (s \o t)[Len(s) + i] = t[i] /\ (s \o v)[Len(s) + i] = v[i]
  BY <1>1
<1>3. \A i \in 1 .. Len(t) : t[i] = v[i]
  BY <1>2
<1> QED
  BY <1>1, <1>3

\* The attributes that are hashed: of bytes, of which a colon is one.
AttributeOf(B) == [name : Seq(B), value : Seq(B), salt : Seq(B)]

\* The bytes that are hashed tell the value, to who knows how long the salt is.
LEMMA LeafTellsValue ==
    ASSUME NEW B, ":" \in B, NEW a \in AttributeOf(B), NEW b \in AttributeOf(B),
           LeafBytes(a) = LeafBytes(b), a.name = b.name, Len(a.salt) = Len(b.salt)
    PROVE  a.value = b.value
<1> DEFINE key == a.name \o <<":">>
<1>1. /\ a.name \in Seq(B) /\ a.value \in Seq(B) /\ a.salt \in Seq(B)
      /\ b.value \in Seq(B) /\ b.salt \in Seq(B)
  BY DEF AttributeOf
<1>2. key \in Seq(B)
  BY <1>1
<1>3. (key \o a.value) \o a.salt = (key \o b.value) \o b.salt
  BY DEF LeafBytes
<1> HIDE DEF key
<1>4. key \o a.value \in Seq(B) /\ key \o b.value \in Seq(B)
  BY <1>1, <1>2
<1>5. key \o a.value = key \o b.value
  BY <1>1, <1>3, <1>4, JoinedApart
<1> QED
  BY <1>1, <1>2, <1>5, JoinedAfter

\* The attributes up to the number-th have their numbers for names.
Numbered(list, n, number) ==
    /\ n \in Nat /\ DOMAIN list = 1 .. n /\ number \in 1 .. n
    /\ \A k \in 1 .. number : list[k].name = <<k>>

LEMMA NamesDiffer == ASSUME NEW i, NEW j, <<i>> = <<j>> PROVE i = j
  BY <<i>>[1] = <<j>>[1]

\* disclose shows the attribute of the number it is asked for.
LEMMA PositionOf ==
    ASSUME NEW c, NEW n, NEW number, Numbered(c.attributes, n, number)
    PROVE  /\ Position(c, <<number>>) = number
           /\ Attribute(c, <<number>>) = c.attributes[number]
<1> DEFINE list == c.attributes
           found == {k \in DOMAIN list : list[k].name = <<number>>}
           first == Min(found)
<1> HIDE DEF list
<1>1. Numbered(list, n, number)
  BY DEF list
<1>2. number \in found /\ \A k \in found : number <= k
  <2>1. number \in found
    BY <1>1 DEF Numbered
  <2>2. ASSUME NEW k \in found, ~ (number <= k) PROVE FALSE
    <3>1. k \in 1 .. number /\ k # number /\ list[k].name = <<number>>
      BY <1>1, <2>2 DEF Numbered
    <3>2. list[k].name = <<k>>
      BY <1>1, <3>1 DEF Numbered
    <3> QED
      BY <3>1, <3>2, NamesDiffer
  <2> QED
    BY <2>1, <2>2
<1>3. found \in SUBSET Nat
  BY <1>1 DEF Numbered
<1> HIDE DEF found
<1>4. first \in found /\ \A k \in found : first <= k
  BY <1>2 DEF Min
<1> HIDE DEF first
<1>5. first = number
  <2>1. first \in Nat /\ number \in Nat
    BY <1>2, <1>3, <1>4
  <2>2. first <= number /\ number <= first
    BY <1>2, <1>4
  <2> QED
    BY <2>1, <2>2
<1>6. Position(c, <<number>>) = number
  BY <1>5 DEF Position, first, found, list
<1> QED
  BY <1>6 DEF Attribute

\* What is hashed of each attribute of a list.
LEMMA LeavesFacts ==
    ASSUME NEW B, ":" \in B, NEW list \in Seq(AttributeOf(B)), list # <<>>
    PROVE  /\ Leaves(list) \in Seq(Seq(B)) /\ Leaves(list) # <<>>
           /\ Len(Leaves(list)) = Len(list) /\ Len(list) \in Nat \ {0}
           /\ \A k \in 1 .. Len(list) : Leaves(list)[k] = LeafBytes(list[k])
<1> DEFINE n == Len(list)
           leaves == Leaves(list)
<1>1. n \in Nat \ {0} /\ DOMAIN list = 1 .. n /\ \A k \in 1 .. n : list[k] \in AttributeOf(B)
  OBVIOUS
<1>2. leaves = [k \in 1 .. n |-> LeafBytes(list[k])]
  BY <1>1 DEF Leaves
<1>3. \A k \in 1 .. n : LeafBytes(list[k]) \in Seq(B)
  <2> SUFFICES ASSUME NEW k \in 1 .. n PROVE LeafBytes(list[k]) \in Seq(B)
    OBVIOUS
  <2> DEFINE a == list[k]
  <2>1. a.name \in Seq(B) /\ a.value \in Seq(B) /\ a.salt \in Seq(B)
    BY <1>1 DEF AttributeOf
  <2> HIDE DEF a
  <2>2. a.name \o <<":">> \in Seq(B)
    BY <2>1
  <2>3. (a.name \o <<":">>) \o a.value \in Seq(B)
    BY <2>1, <2>2
  <2>4. LeafBytes(a) \in Seq(B)
    BY <2>1, <2>3 DEF LeafBytes
  <2> QED
    BY <2>4 DEF a
<1> HIDE DEF n, leaves
<1>4. leaves \in [1 .. n -> Seq(B)]
  BY <1>2, <1>3
<1>5. leaves \in Seq(Seq(B)) /\ Len(leaves) = n
  <2> DEFINE Run == Seq(B)
  <2>1. leaves \in [1 .. n -> Run] /\ n \in Nat
    BY <1>1, <1>4
  <2> HIDE DEF Run
  <2>2. leaves \in Seq(Run) /\ Len(leaves) = n
    BY <2>1
  <2> QED
    BY <2>2 DEF Run
<1>6. leaves # <<>>
  BY <1>1, <1>5
<1>7. \A k \in 1 .. n : leaves[k] = LeafBytes(list[k])
  BY <1>2
<1> QED
  BY <1>1, <1>5, <1>6, <1>7 DEF n, leaves

\* A list of as many attributes under the same names, of which one verifies against the
\* root of another, has what is hashed of every attribute of that one.
LEMMA RootTellsLeaves ==
    ASSUME NEW B, ":" \in B, NEW list \in Seq(AttributeOf(B)), NEW other \in Seq(AttributeOf(B)),
           list # <<>>, other # <<>>, Len(list) = Len(other), NEW number \in 1 .. Len(list),
           Verifies(MerkleProof(Leaves(list), number - 1), MerkleRoot(Leaves(other)))
    PROVE  \A k \in 1 .. Len(list) : LeafBytes(list[k]) = LeafBytes(other[k])
<1> DEFINE mine == Leaves(list)
           theirs == Leaves(other)
           proof == MerkleProof(mine, number - 1)
           Run == Seq(B)
<1>1. /\ mine \in Seq(Run) /\ mine # <<>> /\ theirs \in Seq(Run) /\ theirs # <<>>
      /\ Len(mine) = Len(list) /\ Len(theirs) = Len(list) /\ Len(list) \in Nat \ {0}
      /\ \A k \in 1 .. Len(list) : mine[k] = LeafBytes(list[k]) /\ theirs[k] = LeafBytes(other[k])
  BY LeavesFacts
<1>2. Verifies(proof, MerkleRoot(theirs))
  OBVIOUS
<1> HIDE DEF mine, theirs, Run
<1>3. proof.leaf_hash = Level(mine)[0][(number - 1) + 1]
  BY DEF MerkleProof
<1>4. Folded(proof.leaf_hash, PathOf(proof)) = MerkleRoot(theirs)
  BY <1>2 DEF Verifies
<1>5. number - 1 \in 0 .. Len(mine) - 1
  BY <1>1
<1>6. Folded(proof.leaf_hash, PathOf(proof)) = MerkleRoot(mine)
  <2> HIDE DEF proof
  <2>1. \A leaf, path : path = PathOf(MerkleProof(mine, number - 1)) =>
            (Folded(leaf, path) = MerkleRoot(mine) <=> leaf = Level(mine)[0][(number - 1) + 1])
    BY <1>1, <1>5, ClimbFinds
  <2> QED
    BY <1>3, <2>1 DEF proof
<1>7. mine = theirs
  BY <1>1, <1>4, <1>6, RootCommits
<1> QED
  BY <1>1, <1>7

\* A credential that was changed shows the bytes it was issued with, or nothing.
LEMMA DisclosedAsIssued ==
    ASSUME NEW B, ":" \in B, NEW attributes \in Seq(AttributeOf(B)), attributes # <<>>,
           \A k \in 1 .. Len(attributes) : attributes[k].name = <<k>>,
           NEW values \in SUBSET Seq(B)
    PROVE  DisclosesAsIssued(attributes, values)
<1> DEFINE n == Len(attributes)
           credential == Credential(attributes)
           Y == AttributeOf(B)
           shown(list) == [credential EXCEPT !.attributes = list]
           alike(a, b) == /\ LeafBytes(a) = LeafBytes(b)
                          /\ Len(a.salt) = Len(b.salt) => a.value = b.value
<1> SUFFICES ASSUME NEW list \in Altered(attributes, values), NEW name \in Names(credential),
                    VerifiesAttribute(shown(list), name)
             PROVE  alike(Attribute(shown(list), name), Attribute(credential, name))
  BY Zenon DEF DisclosesAsIssued
<1>1. /\ n \in Nat \ {0} /\ DOMAIN attributes = 1 .. n
      /\ \A k \in 1 .. n : attributes[k].name = <<k>> /\ attributes[k] \in Y
  <2> HIDE DEF Y
  <2> QED
    BY DEF Y
<1> HIDE DEF n
<1>2. credential = [attributes |-> attributes, merkle_root |-> MerkleRoot(Leaves(attributes)),
                    issuer_signature |-> MerkleRoot(Leaves(attributes))]
  BY DEF Credential
<1>3. credential.attributes = attributes
  BY <1>2
<1>4. /\ shown(list).attributes = list
      /\ shown(list).merkle_root = MerkleRoot(Leaves(attributes))
  BY <1>2
<1> HIDE DEF credential, shown
<1>5. PICK number \in 1 .. n : name = <<number>>
  <2>1. Names(credential) = {attributes[k].name : k \in 1 .. n}
    BY <1>1, <1>3 DEF Names, Range
  <2> QED
    BY <1>1, <2>1
<1>6. Attribute(credential, name) = attributes[number]
  <2>1. Numbered(credential.attributes, n, number)
    BY <1>1, <1>3, <1>5 DEF Numbered
  <2> QED
    BY <1>3, <1>5, <2>1, PositionOf, Zenon
\* As many attributes, under the same names.
<1>7. ASSUME list \in Seq(Y), Len(list) = n, \A k \in 1 .. n : list[k].name = <<k>>
      PROVE  alike(Attribute(shown(list), name), Attribute(credential, name))
  <2>1. list # <<>> /\ DOMAIN list = 1 .. n /\ list[number] \in Y
    <3> HIDE DEF Y
    <3> QED
      BY <1>1, <1>5, <1>7
  <2>2. Numbered(shown(list).attributes, n, number)
    BY <1>1, <1>4, <1>5, <1>7, <2>1 DEF Numbered
  <2>3. Position(shown(list), name) = number /\ Attribute(shown(list), name) = list[number]
    BY <1>4, <1>5, <2>2, PositionOf, Zenon
  <2>4. Verifies(MerkleProof(Leaves(list), number - 1), MerkleRoot(Leaves(attributes)))
    BY <1>4, <2>3 DEF VerifiesAttribute
  <2>5. LeafBytes(list[number]) = LeafBytes(attributes[number])
    BY <1>5, <1>7, <2>1, <2>4, RootTellsLeaves DEF n
  <2>6. list[number].name = attributes[number].name
    BY <1>1, <1>5, <1>7
  <2>7. Len(list[number].salt) = Len(attributes[number].salt)
            => list[number].value = attributes[number].value
    BY <1>1, <1>5, <2>1, <2>5, <2>6, LeafTellsValue
  <2>8. alike(list[number], attributes[number])
    BY <2>5, <2>7
  <2> QED
    BY <1>6, <2>3, <2>8
\* One of them is another.
<1>8. ASSUME NEW i \in DOMAIN attributes, NEW other \in Y, other.name = attributes[i].name,
             list = [attributes EXCEPT ![i] = other]
      PROVE  alike(Attribute(shown(list), name), Attribute(credential, name))
  <2> HIDE DEF Y
  <2>1. /\ list \in Seq(Y) /\ Len(list) = n
        /\ \A k \in 1 .. n : list[k] = IF k = i THEN other ELSE attributes[k]
    BY <1>1, <1>8 DEF n, Y
  <2>2. \A k \in 1 .. n : list[k].name = <<k>>
    BY <1>1, <1>8, <2>1
  <2> QED
    BY <1>7, <2>1, <2>2
<1>9. ASSUME NEW i \in DOMAIN attributes, NEW other \in Others(attributes[i], values)
      PROVE  other \in Y /\ other.name = attributes[i].name
  <2> DEFINE a == attributes[i]
             bytes == a.value \o a.salt
  <2>1. a \in AttributeOf(B)
    BY <1>1
  <2> HIDE DEF a
  <2>2. a.value \in Seq(B) /\ a.salt \in Seq(B)
    BY <2>1 DEF AttributeOf
  <2>3. bytes \in Seq(B)
    BY <2>2
  <2>4. ASSUME NEW v \in values, other = [a EXCEPT !.value = v]
        PROVE  other \in AttributeOf(B) /\ other.name = a.name
    BY <2>1, <2>4 DEF AttributeOf
  <2>5. ASSUME NEW k \in 0 .. Len(bytes), other = Resplit(a, k)
        PROVE  other \in AttributeOf(B) /\ other.name = a.name
    <3>1. other = [a EXCEPT !.value = SubSeq(bytes, 1, k), !.salt = SubSeq(bytes, k + 1, Len(bytes))]
      BY <2>5 DEF Resplit
    <3> HIDE DEF bytes
    <3>2. SubSeq(bytes, 1, k) \in Seq(B) /\ SubSeq(bytes, k + 1, Len(bytes)) \in Seq(B)
      BY <2>3, <2>5
    <3> QED
      BY <2>1, <3>1, <3>2 DEF AttributeOf
  <2>6. \/ \E v \in values : other = [a EXCEPT !.value = v]
        \/ \E k \in 0 .. Len(bytes) : other = Resplit(a, k)
    BY DEF Others, a
  <2> QED
    BY <2>4, <2>5, <2>6 DEF a
<1>10. ASSUME NEW i \in DOMAIN attributes, list \in Changed(attributes, i, values)
       PROVE  alike(Attribute(shown(list), name), Attribute(credential, name))
  <2>1. PICK other \in Others(attributes[i], values) : list = [attributes EXCEPT ![i] = other]
    BY <1>10 DEF Changed
  <2> HIDE DEF Y
  <2>2. other \in Y /\ other.name = attributes[i].name
    BY <1>9
  <2> QED
    BY <1>8, <2>1, <2>2
\* One attribute twice, or one less: what stays is where it was.
<1>11. ASSUME NEW m \in Nat, list \in Seq(Y), Len(list) = m,
              \A k \in 1 .. n : k <= m => list[k] = attributes[k],
              number <= m
       PROVE  alike(Attribute(shown(list), name), Attribute(credential, name))
  <2> HIDE DEF Y
  <2>1. DOMAIN list = 1 .. m /\ number \in 1 .. m
    BY <1>5, <1>11
  <2>2. \A k \in 1 .. number : list[k] = attributes[k] /\ attributes[k].name = <<k>>
    BY <1>1, <1>5, <1>11
  <2>3. Attribute(shown(list), name) = list[number]
    <3>1. Numbered(shown(list).attributes, m, number)
      BY <1>4, <1>11, <2>1, <2>2 DEF Numbered
    <3> QED
      BY <1>4, <1>5, <3>1, PositionOf, Zenon
  <2>4. list[number] = attributes[number]
    BY <1>5, <2>2
  <2> QED
    BY <1>6, <2>3, <2>4
<1>12. ASSUME NEW a \in Range(attributes), list = Append(attributes, a)
       PROVE  alike(Attribute(shown(list), name), Attribute(credential, name))
  <2> HIDE DEF Y
  <2>1. a \in Y
    <3>1. PICK k \in 1 .. n : a = attributes[k]
      BY <1>1, <1>12 DEF Range
    <3> QED
      BY <1>1, <3>1
  <2>2. list \in Seq(Y) /\ Len(list) = n + 1 /\ \A k \in 1 .. n : list[k] = attributes[k]
    BY <1>1, <1>12, <2>1 DEF n, Y
  <2>3. n + 1 \in Nat /\ number <= n + 1
    BY <1>1, <1>5
  <2> QED
    BY <1>11, <2>2, <2>3
<1>13. ASSUME list = SubSeq(attributes, 1, n - 1)
       PROVE  alike(Attribute(shown(list), name), Attribute(credential, name))
  <2> HIDE DEF Y
  <2>1. /\ list \in Seq(Y) /\ Len(list) = n - 1 /\ DOMAIN list = 1 .. n - 1
        /\ \A k \in 1 .. n - 1 : list[k] = attributes[k]
    BY <1>1, <1>13 DEF n, Y
  <2>2. name \in Names(shown(list))
    BY DEF VerifiesAttribute
  <2>3. PICK k \in 1 .. n - 1 : list[k].name = name
    BY <1>4, <2>1, <2>2 DEF Names, Range
  <2>4. k \in 1 .. n /\ list[k].name = <<k>>
    BY <1>1, <2>1
  <2>5. k = number
    BY <1>5, <2>3, <2>4, NamesDiffer
  <2>6. n - 1 \in Nat /\ number <= n - 1
    BY <1>1, <2>5
  <2> QED
    BY <1>1, <1>11, <2>1, <2>6
<1>14. \/ \E i \in DOMAIN attributes : list \in Changed(attributes, i, values)
       \/ \E a \in Range(attributes) : list = Append(attributes, a)
       \/ list = SubSeq(attributes, 1, n - 1)
  BY DEF Altered, n
<1> QED
  BY <1>10, <1>12, <1>13, <1>14

-----------------------------------------------------------------------------
(* What is in the tree.                                                     *)

ItemsInv == items \in Seq(Item)

LEMMA ItemsStep == ASSUME ItemsInv, [EdgeNext]_edgeVars PROVE ItemsInv'
<1>1. CASE UNCHANGED items
  BY <1>1 DEF ItemsInv
<1>2. CASE TreeNext
  <2>1. PICK i \in Item : items' = Append(items, i)
    BY <1>2 DEF TreeNext
  <2> QED
    BY <2>1 DEF ItemsInv
<1> QED
  BY <1>1, <1>2 DEF EdgeNext, edgeVars

\* What the items are as attributes.
LEMMA AttributesFacts ==
    ASSUME NEW batch \in Seq(Item), batch # <<>>, NEW B, B = Nat \cup Item \cup {":"}
    PROVE  LET attributes == AttributesOf(batch)
           IN  /\ attributes \in Seq(AttributeOf(B)) /\ attributes # <<>>
               /\ \A k \in 1 .. Len(attributes) : attributes[k].name = <<k>>
<1> DEFINE n == Len(batch)
           attributes == AttributesOf(batch)
           Y == AttributeOf(B)
<1>1. n \in Nat \ {0} /\ DOMAIN batch = 1 .. n /\ \A k \in 1 .. n : batch[k] \in Item
  OBVIOUS
<1>2. attributes = [k \in 1 .. n |->
          [name |-> <<k>>, value |-> <<batch[k], batch[1]>>, salt |-> <<batch[n]>>]]
  BY <1>1 DEF AttributesOf
<1>3. ASSUME NEW k \in 1 .. n
      PROVE  [name |-> <<k>>, value |-> <<batch[k], batch[1]>>, salt |-> <<batch[n]>>] \in Y
  <2>1. k \in B /\ batch[k] \in B /\ batch[1] \in B /\ batch[n] \in B
    BY <1>1
  <2>2. <<k>> \in Seq(B) /\ <<batch[k], batch[1]>> \in Seq(B) /\ <<batch[n]>> \in Seq(B)
    BY <2>1
  <2> QED
    BY <2>2 DEF AttributeOf
<1> HIDE DEF attributes, Y, n
<1>4. attributes \in [1 .. n -> Y]
  BY <1>2, <1>3
<1>5. attributes \in Seq(Y) /\ Len(attributes) = n /\ attributes # <<>>
  BY <1>1, <1>4
<1>6. \A k \in 1 .. n : attributes[k].name = <<k>>
  BY <1>2
<1> QED
  BY <1>5, <1>6 DEF attributes, Y

\* Of any number of items, in a batch, a credential or a block, each has a proof that
\* leads to the root and is no other's (MerkleTree::proof, MerkleProof::verify, both
\* folds of inclusion.rs), and a credential that was changed shows the bytes that were
\* issued, and their value if the salt is as long as it was (CredentialIssuer::issue,
\* verify_attribute_predicate).
THEOREM ProofsAlwaysVerify == EdgeSpec => []ProofsVerify
<1>1. EdgeInit => ItemsInv
  BY DEF EdgeInit, ItemsInv
<1>2. ItemsInv /\ [EdgeNext]_edgeVars => ItemsInv'
  BY ItemsStep
<1>3. ItemsInv => ProofsVerify
  <2> SUFFICES ASSUME items \in Seq(Item), items # <<>> PROVE ProofsVerify
    BY DEF ItemsInv, ProofsVerify
  <2>1. \A i \in DOMAIN items : i - 1 \in 0 .. Len(items) - 1
    OBVIOUS
  <2>2. \A i \in DOMAIN items : ProvesItsItem(items, i - 1) /\ ProvesItsBlock(items, i - 1)
    BY <2>1, ItemProved, BlockProved
  <2> DEFINE B == Nat \cup Item \cup {":"}
             values == {<<x, x>> : x \in Item}
  <2>3. \A x \in Item : <<x, x>> \in Seq(B)
    OBVIOUS
  <2>4. values \in SUBSET Seq(B) /\ ":" \in B
    BY <2>3
  <2> HIDE DEF values
  <2>5. DisclosesAsIssued(AttributesOf(items), values)
    BY <2>4, AttributesFacts, DisclosedAsIssued
  <2> QED
    BY <2>2, <2>5, Zenon DEF ProofsVerify, values
<1> QED
  BY <1>1, <1>2, <1>3, PTL DEF EdgeSpec
=============================================================================
