---------------------------- MODULE Revocations ----------------------------
(***************************************************************************)
(* The revocation registry (byz-underwrite/src/revocation.rs), the handler *)
(* that fills it (revoke_limits), and the rows that bring it back.         *)
(*                                                                         *)
(* A cutoff kills what was issued to a subject, an agent or a principal,   *)
(* before it.  Handlers set both cutoffs of a request in memory under one  *)
(* lock, and then write the rows, one await each: handlers overlap, a      *)
(* write may fail, which is only logged, and a handler whose client has    *)
(* gone is dropped where it waits.                                         *)
(***************************************************************************)
EXTENDS Integers

CONSTANTS
    Agent, Principal,
    None,                   \* the request does not name one
    NoCutoff,               \* no entry, no row
    Life,                   \* of an attestation
    MaxRevokes, MaxTime     \* bounds

Subject == Agent \cup Principal
Instant == 0 .. MaxTime
Cutoffs == [Subject -> Instant \cup {NoCutoff}]

RevocationsAssumption ==
    /\ Agent \cap Principal = {} /\ None \notin Subject /\ NoCutoff \notin Int
    /\ {Life, MaxRevokes, MaxTime} \subseteq Nat

VARIABLES
    now,
    serving, loaded,    \* the process serves; it could load the rows
    registry, rows,     \* RevocationRegistry, revocation_cutoffs
    unwritten,          \* handlers: what is still to be written, and when it is for
    issued,             \* attestations
    stored,             \* history: cutoffs that a row was written for
    revokes

vars == <<now, serving, loaded, registry, rows, unwritten, issued, stored, revokes>>

TypeOK ==
    /\ now \in Instant /\ serving \in BOOLEAN /\ loaded \in BOOLEAN
    /\ registry \in Cutoffs /\ rows \in Cutoffs
    /\ unwritten \in [1 .. MaxRevokes -> [subjects : SUBSET Subject, at : Instant]]
    /\ issued \subseteq [sub : Agent, prn : Principal, nbf : Instant]
    /\ stored \subseteq [subject : Subject, at : Instant]
    /\ revokes \in 0 .. MaxRevokes

Empty == [s \in Subject |-> NoCutoff]
Idle == [h \in 1 .. MaxRevokes |-> [subjects |-> {}, at |-> 0]]

Init ==
    /\ now = 0
    /\ serving = TRUE /\ loaded = TRUE
    /\ registry = Empty /\ rows = Empty
    /\ unwritten = Idle
    /\ issued = {} /\ stored = {}
    /\ revokes = 0

-----------------------------------------------------------------------------
\* A wrong update: the latest write counts, whenever it is for.
Overwritten(cutoff, at) == at

\* revoke_agent, revoke_principal; and GREATEST of set_revocation_cutoff.
Forward(cutoff, at) == IF cutoff = NoCutoff \/ at > cutoff THEN at ELSE cutoff

\* set_revocation_cutoff.
StoredRow(row, at) == Forward(row, at)

\* revoke_limits, up to its first await.  The instant is the caller's: past, present,
\* or to come.
Revoke(agent, principal, at) ==
    LET named == {agent, principal} \ {None}
    IN  /\ serving /\ named # {}
        /\ revokes < MaxRevokes /\ revokes' = revokes + 1
        /\ registry' = [s \in Subject |-> IF s \in named THEN Forward(registry[s], at)
                                                         ELSE registry[s]]
        /\ unwritten' = [unwritten EXCEPT ![revokes'] = [subjects |-> named, at |-> at]]
        /\ UNCHANGED <<now, serving, loaded, rows, issued, stored>>

\* persist_revocation: of the agent, and then of the principal.
Persist(h) ==
    \E s \in unwritten[h].subjects :
        /\ s \in Principal => unwritten[h].subjects \subseteq Principal
        /\ unwritten' = [unwritten EXCEPT ![h].subjects = @ \ {s}]
        /\ \/ /\ rows' = [rows EXCEPT ![s] = StoredRow(@, unwritten[h].at)]
              /\ stored' = stored \cup {[subject |-> s, at |-> unwritten[h].at]}
           \/ UNCHANGED <<rows, stored>>
        /\ UNCHANGED <<now, serving, loaded, registry, issued, revokes>>

Drop(h) ==
    /\ unwritten[h].subjects # {}
    /\ unwritten' = [unwritten EXCEPT ![h].subjects = {}]
    /\ UNCHANGED <<now, serving, loaded, registry, rows, issued, stored, revokes>>

\* What is pruned is older than any attestation that is still alive.
Prune ==
    /\ serving
    /\ registry' = [s \in Subject |->
                        IF registry[s] # NoCutoff /\ registry[s] < now - Life THEN NoCutoff
                                                                              ELSE registry[s]]
    /\ UNCHANGED <<now, serving, loaded, rows, unwritten, issued, stored, revokes>>

\* AttestationIssuer::issue.
Issue(agent, principal) ==
    /\ serving
    /\ issued' = issued \cup {[sub |-> agent, prn |-> principal, nbf |-> now]}
    /\ UNCHANGED <<now, serving, loaded, registry, rows, unwritten, stored, revokes>>

Stop ==
    /\ serving
    /\ serving' = FALSE /\ loaded' = FALSE /\ registry' = Empty /\ unwritten' = Idle
    /\ UNCHANGED <<now, rows, issued, stored, revokes>>

\* hydrate: each row into an empty registry, before the first request is served.
\* Without the rows, the gateway serves with none.
Start ==
    /\ ~serving /\ serving' = TRUE
    /\ loaded' \in BOOLEAN
    /\ registry' = IF loaded' THEN rows ELSE Empty
    /\ UNCHANGED <<now, rows, unwritten, issued, stored, revokes>>

Tick ==
    /\ now < MaxTime /\ now' = now + 1
    /\ UNCHANGED <<serving, loaded, registry, rows, unwritten, issued, stored, revokes>>

Next ==
    \/ \E agent \in Agent \cup {None}, principal \in Principal \cup {None}, at \in Instant :
          Revoke(agent, principal, at)
    \/ \E h \in 1 .. MaxRevokes : Persist(h) \/ Drop(h)
    \/ \E agent \in Agent, principal \in Principal : Issue(agent, principal)
    \/ Prune \/ Stop \/ Start \/ Tick

Spec == Init /\ [][Next]_vars

-----------------------------------------------------------------------------
(* Properties.                                                              *)

\* check, of one subject.
CutOff(s, nbf) == registry[s] # NoCutoff /\ registry[s] <= now /\ nbf < registry[s]

\* A scheduled cutoff takes the place of the one in effect until its time has come.
Scheduled(s) == registry[s] # NoCutoff /\ registry[s] > now

Outstanding == {a \in issued : now <= a.nbf + Life}

\* However handlers overlapped, whichever of their writes failed, and through prunes
\* and restarts: a cutoff that was ever stored, and has come, refuses each outstanding
\* attestation issued before it, unless a later one is scheduled for its subject.
StoredCutoffHolds ==
    serving /\ loaded =>
        \A a \in Outstanding, c \in stored :
            /\ c.subject \in {a.sub, a.prn} /\ c.at <= now /\ a.nbf < c.at
            /\ ~Scheduled(c.subject)
            => CutOff(a.sub, a.nbf) \/ CutOff(a.prn, a.nbf)
=============================================================================
