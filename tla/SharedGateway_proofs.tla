------------------------- MODULE SharedGateway_proofs -------------------------
(***************************************************************************)
(* What holds of draws decided in Redis, for any gateways, agents,         *)
(* requests and keys, whatever calls fail, before or after they took       *)
(* effect, and however handlers interleave, are dropped or lost with a     *)
(* gateway that restarts.                                                  *)
(*                                                                         *)
(* Nothing here depends on a gateway's own ledger or on its rows: what     *)
(* `windows` and `saved` hold is not in the invariant.                     *)
(***************************************************************************)
EXTENDS SharedGateway, TLAPS

Place == InFlight \cup {"idle", "done", "dropped"}

\* The part of the type that the argument needs.
Typed ==
    /\ now \in Nat
    /\ hash \in [Agent -> Hash \cup {NoHash}]
    /\ cache \in [Gateway -> [Key -> Answer \cup {NoEntry}]]
    /\ pc \in [Request -> Place]
    /\ answer \in [Request -> Answer]
    /\ reserved \subseteq Request /\ held \subseteq reserved

\* Where a handler stands tells which body it serves.
PlaceInv ==
    \A r \in Request :
        /\ pc[r] \in {"check", "commit", "rollback"} => req[r].kind = "verify"
        /\ pc[r] \in {"resolve", "record", "persist"} => req[r].kind = "settle"

\* A hash with value at risk has an expiry, whether it is over or not.
HashInv == \A a \in Agent : hash[a] # NoHash /\ hash[a].at_risk > 0 => hash[a].expires # NoTtl

\* Request r may be told "permitted".
Vouched(r) ==
    \E s \in reserved : \/ s = r
                        \/ req[s].key = req[r].key /\ req[r].key # NoKey

AnswerInv ==
    /\ \A r \in Request : answer[r] = "permitted" => Vouched(r)
    /\ \A g \in Gateway, k \in Key :
          cache[g][k] = "permitted" => \E s \in reserved : req[s].key = k

\* A reservation is its own handler's, which commits once.
HeldInv ==
    \A r \in held :
        /\ pc[r] \in {"rollback", "put", "done", "dropped"}
        /\ pc[r] \in {"put", "done"} /\ answer[r] = "refused" => r \in faulted

Inv == Typed /\ PlaceInv /\ HashInv /\ AnswerInv /\ HeldInv

-----------------------------------------------------------------------------
(* The scripts.                                                             *)

\* What a request carries.
LEMMA RequestBody ==
    ASSUME NEW r \in Request
    PROVE  /\ req[r].agent \in Agent /\ req[r].gateway \in Gateway
           /\ req[r].key \in Key \cup {NoKey} /\ req[r].amount \in Nat
           /\ req[r].kind \in {"verify", "settle"}
           /\ req[r].kind = "verify" =>
                 /\ req[r].lim_single \in Nat /\ req[r].lim_window \in Nat
                 /\ req[r].window_secs \in Nat \ {0}
  BY SharedGatewayAssumption DEF VerifyBody, SettleBody

\* What a command reads is a hash, and one whose risk expires if the hash's does.
LEMMA FieldsOfHash ==
    ASSUME NEW h \in Hash \cup {NoHash}, NEW t \in Nat
    PROVE  /\ Fields(h, t) \in Hash
           /\ (h # NoHash /\ h.at_risk > 0 => h.expires # NoTtl)
                 => (Fields(h, t).at_risk > 0 => Fields(h, t).expires # NoTtl)
  BY SharedWindowAssumption DEF Fields, Seen, Hash

\* A reservation adds the amount, and its hash always expires.
LEMMA ReserveHash ==
    ASSUME NEW h \in Hash \cup {NoHash}, NEW t \in Nat, NEW r \in Request,
           req[r].kind = "verify", NEW n, n = Reserve(h, req[r], t)
    PROVE  /\ n \in Hash /\ n.expires # NoTtl
           /\ n.at_risk + n.window_used = HashTotal(h, t) + req[r].amount
<1>1. Fields(h, t) \in Hash
  BY FieldsOfHash
<1>2. t + req[r].window_secs \in Nat /\ req[r].amount \in Nat
  BY RequestBody
<1> DEFINE f == Fields(h, t)
<1>3. n = [f EXCEPT !.at_risk = @ + req[r].amount, !.open_draws = @ + 1,
                    !.expires = IF @ = NoTtl THEN t + req[r].window_secs ELSE @]
  BY DEF Reserve
<1>4. HashTotal(h, t) = f.at_risk + f.window_used
  BY DEF HashTotal
<1>5. f \in Hash
  BY <1>1
<1> HIDE DEF f
<1>6. /\ n.at_risk = f.at_risk + req[r].amount /\ n.open_draws = f.open_draws + 1
      /\ n.window_used = f.window_used
      /\ n.expires = IF f.expires = NoTtl THEN t + req[r].window_secs ELSE f.expires
  BY <1>3, <1>5 DEF Hash
<1>7. /\ n.at_risk \in Nat /\ n.open_draws \in Nat /\ n.window_used \in Nat
      /\ n.expires \in Nat /\ n.expires # NoTtl
  BY <1>2, <1>5, <1>6, SharedWindowAssumption DEF Hash
<1>8. n \in Hash
  BY <1>3, <1>5, <1>7 DEF Hash
<1> QED
  BY <1>2, <1>4, <1>5, <1>6, <1>7, <1>8 DEF Hash

\* A resolution never puts value at risk.
LEMMA ResolveHash ==
    ASSUME NEW h \in Hash \cup {NoHash}, NEW t \in Nat, NEW amount \in Nat,
           NEW settled, NEW n, n = ResolveScript(h, amount, settled, t)
    PROVE  /\ n \in Hash
           /\ (h # NoHash /\ h.at_risk > 0 => h.expires # NoTtl)
                 => (n.at_risk > 0 => n.expires # NoTtl)
<1> DEFINE f == Fields(h, t)
<1>1. /\ f \in Hash
      /\ (h # NoHash /\ h.at_risk > 0 => h.expires # NoTtl)
            => (f.at_risk > 0 => f.expires # NoTtl)
  BY FieldsOfHash
<1>2. n = [f EXCEPT !.at_risk = @ - (IF amount < @ THEN amount ELSE @),
                    !.open_draws = IF @ > 0 THEN @ - 1 ELSE 0,
                    !.window_used = IF settled THEN @ + amount ELSE @]
  BY DEF ResolveScript
<1> HIDE DEF f
<1>3. /\ n.at_risk \in Nat /\ n.at_risk <= f.at_risk
      /\ n.open_draws \in Nat /\ n.window_used \in Nat /\ n.expires = f.expires
  BY <1>1, <1>2 DEF Hash
<1>4. n \in Hash
  BY <1>1, <1>2, <1>3 DEF Hash
<1> QED
  BY <1>1, <1>3, <1>4 DEF Hash

-----------------------------------------------------------------------------
(* What a step leaves of the invariant.                                     *)

\* A handler that moves on: its place and answer change, nobody else's do.
LEMMA Moves ==
    ASSUME Typed, NEW r \in Request, NEW where \in Place, NEW what \in Answer,
           Goto(r, where, what)
    PROVE  /\ pc' \in [Request -> Place] /\ answer' \in [Request -> Answer]
           /\ pc'[r] = where /\ answer'[r] = what
           /\ \A q \in Request : q # r => pc'[q] = pc[q] /\ answer'[q] = answer[q]
  BY DEF Typed, Goto

\* Who was vouched for stays so.
LEMMA VouchedStays ==
    ASSUME reserved \subseteq reserved', NEW r \in Request
    PROVE  Vouched(r) => Vouched(r)'
  BY DEF Vouched

\* A handler's place and answer fit, if they do for the one that moved.
LEMMA HandlerKeeps ==
    ASSUME Inv, NEW r \in Request, NEW where \in Place, NEW what \in Answer,
           Goto(r, where, what),
           reserved \subseteq reserved', faulted \subseteq faulted',
           where \in {"check", "commit", "rollback"} => req[r].kind = "verify",
           where \in {"resolve", "record", "persist"} => req[r].kind = "settle",
           what = "permitted" => Vouched(r)',
           \A q \in held' : q # r => q \in held,
           r \in held' =>
               /\ where \in {"rollback", "put", "done", "dropped"}
               /\ where \in {"put", "done"} /\ what = "refused" => r \in faulted'
    PROVE  PlaceInv' /\ HeldInv' /\ \A q \in Request : answer'[q] = "permitted" => Vouched(q)'
<1>1. /\ pc'[r] = where /\ answer'[r] = what
      /\ \A q \in Request : q # r => pc'[q] = pc[q] /\ answer'[q] = answer[q]
  BY Moves DEF Inv
<1>2. PlaceInv'
  BY <1>1 DEF Inv, PlaceInv
<1>3. HeldInv'
  <2> SUFFICES ASSUME NEW q \in held'
               PROVE  /\ pc'[q] \in {"rollback", "put", "done", "dropped"}
                      /\ pc'[q] \in {"put", "done"} /\ answer'[q] = "refused"
                            => q \in faulted'
    BY DEF HeldInv
  <2>1. CASE q = r
    BY <1>1, <2>1
  <2>2. CASE q # r
    <3>1. q \in held /\ q \in Request
      BY <2>2 DEF Inv, Typed
    <3> QED
      BY <1>1, <2>2, <3>1 DEF Inv, HeldInv
  <2> QED
    BY <2>1, <2>2
<1>4. ASSUME NEW q \in Request, answer'[q] = "permitted" PROVE Vouched(q)'
  <2>1. CASE q = r
    BY <1>1, <1>4, <2>1
  <2>2. CASE q # r
    BY <1>1, <1>4, <2>2, VouchedStays DEF Inv, AnswerInv
  <2> QED
    BY <2>1, <2>2
<1> QED
  BY <1>2, <1>3, <1>4

\* What the caches hold fits, unless an entry is made.
LEMMA CacheKeeps ==
    ASSUME Inv, reserved \subseteq reserved', cache' = cache
    PROVE  \A g \in Gateway, k \in Key :
              cache'[g][k] = "permitted" => \E s \in reserved' : req[s].key = k
  BY DEF Inv, AnswerInv

\* Most steps leave the stores, the reservations and the caches alone.
LEMMA QuietStep ==
    ASSUME Inv, NEW r \in Request, NEW where \in Place, NEW what \in Answer,
           Goto(r, where, what), UNCHANGED <<now, hash, cache, reserved, held>>,
           faulted \subseteq faulted',
           where \in {"check", "commit", "rollback"} => req[r].kind = "verify",
           where \in {"resolve", "record", "persist"} => req[r].kind = "settle",
           what = "permitted" => Vouched(r),
           r \in held =>
               /\ where \in {"rollback", "put", "done", "dropped"}
               /\ where \in {"put", "done"} /\ what = "refused" => r \in faulted'
    PROVE  Inv'
<1>1. Typed'
  BY Moves DEF Inv, Typed
<1>2. HashInv'
  BY DEF Inv, HashInv
<1>3. Vouched(r) => Vouched(r)'
  BY VouchedStays
<1>4. PlaceInv' /\ HeldInv' /\ \A q \in Request : answer'[q] = "permitted" => Vouched(q)'
  BY <1>3, HandlerKeeps
<1>5. AnswerInv'
  BY <1>4, CacheKeeps DEF AnswerInv
<1> QED
  BY <1>1, <1>2, <1>4, <1>5 DEF Inv

-----------------------------------------------------------------------------
(* The steps of a handler.                                                  *)

LEMMA LookupInv == ASSUME Inv, NEW r \in Request, Lookup(r), now' = now PROVE Inv'
<1>1. /\ pc[r] = "idle" /\ UNCHANGED <<hash, cache, reserved, held, faulted>>
      /\ r \notin held
  <2>1. pc[r] = "idle" /\ UNCHANGED <<hash, cache, reserved, held, faulted>>
    BY DEF Lookup, NoFault, NoReserve, stores, local
  <2> QED
    BY <2>1 DEF Inv, HeldInv
<1>2. /\ req[r].kind \in {"verify", "settle"} /\ req[r].gateway \in Gateway
      /\ req[r].key \in Key \cup {NoKey}
  BY RequestBody
<1>3. CASE Found(r) # NoEntry
  <2> DEFINE what == IF req[r].kind = "verify" /\ Found(r) = "resolved" THEN "error" ELSE Found(r)
  <2>1. /\ req[r].key # NoKey /\ req[r].key \in Key
        /\ Found(r) = cache[req[r].gateway][req[r].key]
    BY <1>2, <1>3 DEF Found
  <2>2. Found(r) \in Answer
    BY <1>2, <1>3, <2>1 DEF Inv, Typed
  <2>3. what \in Answer
    BY <2>2 DEF Answer
  <2>4. ASSUME Found(r) = "permitted" PROVE Vouched(r)
    <3>1. cache[req[r].gateway][req[r].key] = "permitted"
      BY <2>1, <2>4
    <3>2. \A g \in Gateway, k \in Key :
             cache[g][k] = "permitted" => \E s \in reserved : req[s].key = k
      BY DEF Inv, AnswerInv
    <3>3. PICK s \in reserved : req[s].key = req[r].key
      BY <1>2, <2>1, <3>1, <3>2
    <3> QED
      BY <2>1, <3>3 DEF Vouched
  <2>5. Goto(r, "done", what)
    BY <1>3 DEF Lookup
  <2> QED
    BY <1>1, <2>3, <2>4, <2>5, QuietStep DEF Place
<1>4. CASE Found(r) = NoEntry
  <2>1. \/ req[r].kind = "verify" /\ Goto(r, "check", "none")
        \/ req[r].kind = "settle" /\ Goto(r, "resolve", "none")
    BY <1>2, <1>4 DEF Lookup
  <2>2. "none" \in Answer /\ "check" \in Place /\ "resolve" \in Place
    BY DEF Answer, Place, InFlight
  <2> QED
    BY <1>1, <2>1, <2>2, QuietStep
<1> QED
  BY <1>3, <1>4

LEMMA CheckInv == ASSUME Inv, NEW r \in Request, Check(r), now' = now PROVE Inv'
<1>1. /\ pc[r] = "check" /\ UNCHANGED <<hash, cache, reserved, held, faulted>>
      /\ Goto(r, "commit", "none") \/ Goto(r, "done", "unauthorised")
  BY DEF Check, NoFault, NoReserve, stores, local
<1>3. req[r].kind = "verify" /\ r \notin held
  BY <1>1 DEF Inv, HeldInv, PlaceInv
<1>2. {"commit", "done"} \subseteq Place /\ {"none", "unauthorised"} \subseteq Answer
  BY DEF Answer, Place, InFlight
<1> QED
  BY <1>1, <1>2, <1>3, QuietStep

\* The script reserves for r, or it changes nothing.
LEMMA RunCommitInv ==
    ASSUME Inv, NEW r \in Request, pc[r] = "commit", RunCommit(r), now' = now
    PROVE  /\ req[r].kind = "verify" /\ r \notin held
           /\ hash' \in [Agent -> Hash \cup {NoHash}] /\ HashInv'
           /\ reserved \subseteq reserved' /\ reserved' \subseteq reserved \cup {r}
           /\ held' \subseteq held \cup {r} /\ held' \subseteq reserved'
           /\ Outcome(hash[req[r].agent], req[r], now) = "reserved" =>
                 /\ r \in reserved'
                 /\ HashTotal(hash'[req[r].agent], now) <= req[r].lim_window
           /\ Outcome(hash[req[r].agent], req[r], now) # "reserved" =>
                 reserved' = reserved /\ held' = held
<1> DEFINE a == req[r].agent
           n == Reserve(hash[a], req[r], now)
<1>1. /\ req[r].kind = "verify" /\ r \notin held /\ a \in Agent
      /\ hash \in [Agent -> Hash \cup {NoHash}] /\ now \in Nat /\ held \subseteq reserved
  BY RequestBody DEF Inv, PlaceInv, HeldInv, Typed
<1>2. CASE Outcome(hash[a], req[r], now) = "reserved"
  <2>1. /\ hash' = [hash EXCEPT ![a] = n]
        /\ reserved' = reserved \cup {r} /\ held' = held \cup {r}
    BY <1>2 DEF RunCommit
  <2>2. /\ n \in Hash /\ n.expires # NoTtl
        /\ n.at_risk + n.window_used = HashTotal(hash[a], now) + req[r].amount
    BY <1>1, ReserveHash
  <2>3. HashTotal(hash[a], now) + req[r].amount <= req[r].lim_window
    <3>1. Fields(hash[a], now) \in Hash /\ req[r].amount \in Nat /\ req[r].lim_window \in Nat
      BY <1>1, FieldsOfHash, RequestBody
    <3>2. HashTotal(hash[a], now) \in Nat
      BY <3>1 DEF HashTotal, Hash
    <3> QED
      BY <1>2, <3>1, <3>2 DEF Outcome
  <2>4. hash'[a] = n /\ \A b \in Agent : b # a => hash'[b] = hash[b]
    BY <1>1, <2>1
  <2>5. HashTotal(n, now) <= req[r].lim_window
    <3>1. req[r].lim_window \in Nat
      BY <1>1, RequestBody
    <3>2. n.at_risk + n.window_used <= req[r].lim_window
      BY <2>2, <2>3
    <3> HIDE DEF n
    <3> QED
      BY <3>1, <3>2 DEF HashTotal, Fields
  <2>6. hash' \in [Agent -> Hash \cup {NoHash}]
    BY <1>1, <2>1, <2>2
  <2>7. HashInv'
    BY <2>2, <2>4 DEF Inv, HashInv
  <2> QED
    BY <1>1, <1>2, <2>1, <2>4, <2>5, <2>6, <2>7
<1>3. CASE Outcome(hash[a], req[r], now) # "reserved"
  <2>1. hash' = hash /\ reserved' = reserved /\ held' = held
    BY <1>3 DEF RunCommit, NoReserve
  <2> QED
    BY <1>1, <1>3, <2>1 DEF Inv, HashInv
<1> QED
  BY <1>2, <1>3

LEMMA CommitInv == ASSUME Inv, NEW r \in Request, Commit(r), now' = now PROVE Inv'
<1> DEFINE permitted == Outcome(hash[req[r].agent], req[r], now) = "reserved"
<1>1. pc[r] = "commit" /\ cache' = cache /\ faulted \subseteq faulted'
  BY DEF Commit, local, NoFault, Fault
<1>2. /\ {"put", "rollback", "done"} \subseteq Place
      /\ {"permitted", "refused", "unavailable"} \subseteq Answer
  BY DEF Answer, Place, InFlight
<1>3. ASSUME RunCommit(r), NEW where \in Place, NEW what \in Answer, Goto(r, where, what),
             where \in {"put", "rollback", "done"},
             what = "permitted" => permitted,
             permitted /\ where \in {"put", "done"} => what # "refused"
      PROVE  Inv'
  <2>1. /\ req[r].kind = "verify" /\ r \notin held
        /\ hash' \in [Agent -> Hash \cup {NoHash}] /\ HashInv'
        /\ reserved \subseteq reserved' /\ reserved' \subseteq reserved \cup {r}
        /\ held' \subseteq held \cup {r} /\ held' \subseteq reserved'
        /\ permitted => r \in reserved'
        /\ ~permitted => reserved' = reserved /\ held' = held
    BY <1>1, <1>3, RunCommitInv
  <2>2. Typed'
    BY <1>1, <1>3, <2>1, Moves DEF Inv, Typed
  <2>3. ASSUME what = "permitted" PROVE Vouched(r)'
    <3>1. r \in reserved'
      BY <1>3, <2>1, <2>3
    <3> QED
      BY <3>1 DEF Vouched
  <2>4. PlaceInv' /\ HeldInv' /\ \A q \in Request : answer'[q] = "permitted" => Vouched(q)'
    BY <1>1, <1>3, <2>1, <2>3, HandlerKeeps
  <2>5. AnswerInv'
    BY <1>1, <2>1, <2>4, CacheKeeps DEF AnswerInv
  <2> QED
    BY <2>1, <2>2, <2>4, <2>5 DEF Inv
<1>4. CASE /\ RunCommit(r)
           /\ CASE permitted /\ InScope(r) -> Goto(r, "put", "permitted")
                [] permitted /\ ~ InScope(r) -> Goto(r, "rollback", "refused")
                [] ~ permitted -> Goto(r, "put", "refused")
  <2>1. CASE permitted /\ InScope(r)
    BY <1>2, <1>3, <1>4, <2>1
  <2>2. CASE permitted /\ ~ InScope(r)
    BY <1>2, <1>3, <1>4, <2>2
  <2>3. CASE ~ permitted
    BY <1>2, <1>3, <1>4, <2>3
  <2> QED
    BY <2>1, <2>2, <2>3
<1>5. CASE RunCommit(r) /\ Goto(r, "done", "unavailable")
  BY <1>2, <1>3, <1>5
<1>6. CASE Goto(r, "done", "unavailable") /\ NoReserve /\ UNCHANGED hash
  <2>1. r \notin held
    BY <1>1 DEF Inv, HeldInv
  <2> QED
    BY <1>1, <1>2, <1>6, <2>1, QuietStep DEF NoReserve
<1> QED
  BY <1>4, <1>5, <1>6 DEF Commit

LEMMA RollbackInv == ASSUME Inv, NEW r \in Request, Rollback(r), now' = now PROVE Inv'
<1> DEFINE a == req[r].agent
           n == ResolveScript(hash[a], req[r].amount, FALSE, now)
<1>1. /\ pc[r] = "rollback" /\ cache' = cache /\ reserved' = reserved
      /\ Goto(r, "put", answer[r])
  BY DEF Rollback, local, NoReserve
<1>2. /\ a \in Agent /\ req[r].amount \in Nat /\ answer[r] \in Answer /\ "put" \in Place
      /\ now \in Nat /\ hash \in [Agent -> Hash \cup {NoHash}]
  BY RequestBody DEF Inv, Typed, Place, InFlight
<1>3. answer[r] = "permitted" => Vouched(r)
  BY DEF Inv, AnswerInv
<1>4. CASE /\ hash' = [hash EXCEPT ![a] = n] /\ held' = held \ {r} /\ NoFault
  <2>1. faulted' = faulted /\ hash'[a] = n /\ \A b \in Agent : b # a => hash'[b] = hash[b]
    BY <1>2, <1>4 DEF NoFault
  <2>2. /\ n \in Hash
        /\ (hash[a] # NoHash /\ hash[a].at_risk > 0 => hash[a].expires # NoTtl)
              => (n.at_risk > 0 => n.expires # NoTtl)
    BY ZenonT(40), <1>2, ResolveHash
  <2> HIDE DEF n
  <2>3. HashInv'
    BY <1>2, <2>1, <2>2 DEF Inv, HashInv
  <2>4. Typed'
    BY <1>1, <1>2, <1>4, <2>2, Moves DEF Inv, Typed
  <2>5. PlaceInv' /\ HeldInv' /\ \A q \in Request : answer'[q] = "permitted" => Vouched(q)'
    BY <1>1, <1>2, <1>3, <1>4, <2>1, VouchedStays, HandlerKeeps
  <2>6. AnswerInv'
    BY <1>1, <2>5, CacheKeeps DEF AnswerInv
  <2> QED
    BY <2>3, <2>4, <2>5, <2>6 DEF Inv
<1>5. CASE Fault(r) /\ NoReserve /\ UNCHANGED hash
  BY <1>1, <1>2, <1>3, <1>5, QuietStep DEF Fault, NoReserve
<1> QED
  BY <1>4, <1>5 DEF Rollback

LEMMA ResolveInv == ASSUME Inv, NEW r \in Request, Resolve(r), now' = now PROVE Inv'
<1> DEFINE a == req[r].agent
           n == ResolveScript(hash[a], req[r].amount, req[r].settled, now)
<1>1. /\ pc[r] = "resolve" /\ cache' = cache /\ reserved' = reserved /\ held' = held
      /\ Goto(r, "record", "none") /\ faulted \subseteq faulted'
  BY DEF Resolve, local, NoReserve, NoFault, Fault
<1>2. /\ a \in Agent /\ req[r].amount \in Nat /\ "none" \in Answer /\ "record" \in Place
      /\ now \in Nat /\ hash \in [Agent -> Hash \cup {NoHash}]
  BY RequestBody DEF Inv, Typed, Place, InFlight, Answer
<1>3. req[r].kind = "settle" /\ r \notin held
  BY <1>1 DEF Inv, PlaceInv, HeldInv
<1>4. CASE hash' = [hash EXCEPT ![a] = n]
  <2>1. hash'[a] = n /\ \A b \in Agent : b # a => hash'[b] = hash[b]
    BY <1>2, <1>4
  <2>2. /\ n \in Hash
        /\ (hash[a] # NoHash /\ hash[a].at_risk > 0 => hash[a].expires # NoTtl)
              => (n.at_risk > 0 => n.expires # NoTtl)
    BY <1>2, ResolveHash, SMTT(30)
  <2> HIDE DEF n
  <2>3. HashInv'
    BY <1>2, <2>1, <2>2 DEF Inv, HashInv
  <2>4. Typed'
    BY <1>1, <1>2, <1>4, <2>2, Moves DEF Inv, Typed
  <2>5. PlaceInv' /\ HeldInv' /\ \A q \in Request : answer'[q] = "permitted" => Vouched(q)'
    BY <1>1, <1>2, <1>3, HandlerKeeps
  <2>6. AnswerInv'
    BY <1>1, <2>5, CacheKeeps DEF AnswerInv
  <2> QED
    BY <2>3, <2>4, <2>5, <2>6 DEF Inv
<1>5. CASE UNCHANGED hash
  BY <1>1, <1>2, <1>3, <1>5, QuietStep
<1> QED
  BY <1>4, <1>5 DEF Resolve

LEMMA RecordInv == ASSUME Inv, NEW r \in Request, Record(r), now' = now PROVE Inv'
<1>1. /\ pc[r] = "record" /\ UNCHANGED <<hash, cache, reserved, held, faulted>>
      /\ Goto(r, "persist", "none")
  BY DEF Record, stores, NoFault, NoReserve
<1>2. req[r].kind = "settle" /\ r \notin held /\ "persist" \in Place /\ "none" \in Answer
  BY <1>1 DEF Inv, PlaceInv, HeldInv, Place, InFlight, Answer
<1> QED
  BY <1>1, <1>2, QuietStep

LEMMA PersistInv == ASSUME Inv, NEW r \in Request, Persist(r), now' = now PROVE Inv'
<1>1. /\ pc[r] = "persist" /\ UNCHANGED <<hash, cache, reserved, held>>
      /\ Goto(r, "put", "resolved") /\ faulted \subseteq faulted'
  BY DEF Persist, local, NoFault, Fault, NoReserve
<1>2. r \notin held /\ "put" \in Place /\ "resolved" \in Answer
  BY <1>1 DEF Inv, HeldInv, Place, InFlight, Answer
<1> QED
  BY <1>1, <1>2, QuietStep

LEMMA PutInv == ASSUME Inv, NEW r \in Request, Put(r), now' = now PROVE Inv'
<1>1. /\ pc[r] = "put" /\ UNCHANGED <<hash, reserved, held, faulted>>
      /\ Goto(r, "done", answer[r])
  BY DEF Put, stores, NoFault, NoReserve
<1>2. /\ answer[r] \in Answer /\ "done" \in Place
      /\ req[r].gateway \in Gateway /\ req[r].key \in Key \cup {NoKey}
  BY RequestBody DEF Inv, Typed, Place
<1>3. answer[r] = "permitted" => Vouched(r)
  BY DEF Inv, AnswerInv
<1>4. PlaceInv' /\ HeldInv' /\ \A q \in Request : answer'[q] = "permitted" => Vouched(q)'
  BY <1>1, <1>2, <1>3, VouchedStays, HandlerKeeps DEF Inv, HeldInv
<1>5. \/ cache' = cache
      \/ /\ req[r].key # NoKey
         /\ cache' = [cache EXCEPT ![req[r].gateway][req[r].key] = answer[r]]
  BY DEF Put
<1>6. Typed'
  <2>1. cache' \in [Gateway -> [Key -> Answer \cup {NoEntry}]]
    <3>1. cache \in [Gateway -> [Key -> Answer \cup {NoEntry}]]
      BY DEF Inv, Typed
    <3>2. ASSUME req[r].key # NoKey,
                 cache' = [cache EXCEPT ![req[r].gateway][req[r].key] = answer[r]]
          PROVE  cache' \in [Gateway -> [Key -> Answer \cup {NoEntry}]]
      <4>1. [cache[req[r].gateway] EXCEPT ![req[r].key] = answer[r]]
              \in [Key -> Answer \cup {NoEntry}]
        BY <1>2, <3>1
      <4> QED
        BY <1>2, <3>1, <3>2, <4>1
    <3> QED
      BY <1>5, <3>1, <3>2
  <2> QED
    BY <1>1, <1>2, <2>1, Moves DEF Inv, Typed
<1>7. ASSUME NEW g \in Gateway, NEW k \in Key, cache'[g][k] = "permitted"
      PROVE  \E s \in reserved' : req[s].key = k
  <2>1. CASE cache'[g][k] = cache[g][k]
    BY <1>1, <1>7, <2>1 DEF Inv, AnswerInv
  <2>2. CASE cache'[g][k] # cache[g][k]
    <3>1. k = req[r].key /\ cache'[g][k] = answer[r]
      BY <1>2, <1>5, <2>2 DEF Inv, Typed
    <3>2. Vouched(r)
      BY <1>3, <1>7, <3>1
    <3> QED
      BY <1>1, <3>1, <3>2 DEF Vouched
  <2> QED
    BY <2>1, <2>2
<1>8. HashInv'
  BY <1>1 DEF Inv, HashInv
<1> QED
  BY <1>4, <1>6, <1>7, <1>8 DEF Inv, AnswerInv

LEMMA DropInv == ASSUME Inv, NEW r \in Request, Drop(r), now' = now PROVE Inv'
<1>1. /\ UNCHANGED <<hash, cache, reserved, held>> /\ faulted \subseteq faulted'
      /\ Goto(r, "dropped", "none") /\ "dropped" \in Place /\ "none" \in Answer
  BY DEF Drop, stores, local, NoReserve, Place, Answer
<1> QED
  BY <1>1, QuietStep

LEMMA RestartInv == ASSUME Inv, NEW g \in Gateway, Restart(g) PROVE Inv'
<1> DEFINE cut == {r \in Request : req[r].gateway = g /\ pc[r] \in InFlight}
<1>1. /\ UNCHANGED <<now, hash, reserved, held>> /\ faulted \subseteq faulted'
      /\ cache' = [cache EXCEPT ![g] = [k \in Key |-> NoEntry]]
      /\ pc' = [r \in Request |-> IF r \in cut THEN "dropped" ELSE pc[r]]
      /\ answer' = [r \in Request |-> IF r \in cut THEN "none" ELSE answer[r]]
  BY DEF Restart, stores
<1> HIDE DEF cut
<1>2. Typed'
  BY <1>1 DEF Inv, Typed, Place, Answer
<1>3. PlaceInv' /\ HashInv'
  BY <1>1 DEF Inv, PlaceInv, HashInv
<1>4. HeldInv'
  BY <1>1 DEF Inv, Typed, HeldInv
<1>5. \A q \in Request : answer'[q] = "permitted" => Vouched(q)'
  BY <1>1, VouchedStays DEF Inv, AnswerInv
<1>6. ASSUME NEW h \in Gateway, NEW k \in Key, cache'[h][k] = "permitted"
      PROVE  \E s \in reserved' : req[s].key = k
  <2>1. cache'[h][k] = cache[h][k] \/ cache'[h][k] = NoEntry
    BY <1>1 DEF Inv, Typed
  <2>2. NoEntry # "permitted"
    BY NoEntryAssumption DEF Answer
  <2> QED
    BY <1>1, <1>6, <2>1, <2>2 DEF Inv, AnswerInv
<1> QED
  BY <1>2, <1>3, <1>4, <1>5, <1>6 DEF Inv, AnswerInv

-----------------------------------------------------------------------------
(* The theorems.                                                            *)

LEMMA InitInv == Init => Inv
<1> SUFFICES ASSUME Init PROVE Inv
  OBVIOUS
<1>1. Typed
  BY DEF Init, Typed, Place, Answer
<1>2. PlaceInv /\ HashInv /\ HeldInv
  BY DEF Init, PlaceInv, HashInv, HeldInv
<1>3. AnswerInv
  BY NoEntryAssumption DEF Init, AnswerInv, Answer
<1> QED
  BY <1>1, <1>2, <1>3 DEF Inv

LEMMA HandleInv == ASSUME Inv, NEW r \in Request, Handle(r) PROVE Inv'
<1>1. now' = now
  BY DEF Handle
<1> QED
  BY <1>1, LookupInv, CheckInv, CommitInv, RollbackInv, ResolveInv, RecordInv, PersistInv,
     PutInv, DropInv DEF Handle

LEMMA InvInductive == Inv /\ [Next]_vars => Inv'
<1> SUFFICES ASSUME Inv, [Next]_vars PROVE Inv'
  OBVIOUS
<1>1. CASE UNCHANGED vars
  BY <1>1 DEF vars, stores, local, handlers, history, Inv, Typed, PlaceInv, HashInv,
              AnswerInv, HeldInv, Vouched
<1>2. CASE Tick
  BY <1>2 DEF Tick, stores, local, handlers, history, Inv, Typed, PlaceInv, HashInv,
              AnswerInv, HeldInv, Vouched
<1> QED
  BY <1>1, <1>2, HandleInv, RestartInv DEF Next

\* What is at risk in Redis is not there for ever: its window ends, however late a
\* settlement came and whatever calls were lost (exposure.rs:100-134).
THEOREM RiskEnds == Spec => []RiskAlwaysExpires
<1>1. Inv => RiskAlwaysExpires
  BY DEF Inv, HashInv, RiskAlwaysExpires, Seen
<1> QED
  BY <1>1, InitInv, InvInductive, PTL DEF Spec

\* No client is told "permitted" without a reservation in Redis, whatever fails
\* (limits.rs:397-413).
THEOREM OutagesRefuse == Spec => []OutageFailsClosed
<1>1. Inv => OutageFailsClosed
  BY DEF Inv, AnswerInv, Vouched, OutageFailsClosed
<1> QED
  BY <1>1, InitInv, InvInductive, PTL DEF Spec

\* A draw that is refused for its scope has given its reservation back, unless the
\* call that does so failed (limits.rs:453-460).
THEOREM RefusedHoldNothing == Spec => []RefusalHoldsNothing
<1>1. Inv => RefusalHoldsNothing
  BY DEF Inv, HeldInv, RefusalHoldsNothing
<1> QED
  BY <1>1, InitInv, InvInductive, PTL DEF Spec

\* A reservation is made only within the limit that its draw presented, whoever
\* else reserves, settles or rolls back meanwhile (COMMIT_SCRIPT, exposure.rs:82-109).
THEOREM ReservationsFit == Spec => ReservesWithinLimit
<1>1. ASSUME Inv, [Next]_vars, NEW r \in NewlyReserved
      PROVE  HashTotal(hash[req[r].agent], now)' <= req[r].lim_window
  <2>1. r \in reserved' /\ r \notin reserved
    BY <1>1, SMTT(30) DEF NewlyReserved
  <2>2. PICK q \in Request : Commit(q) /\ now' = now
    BY <1>1, <2>1 DEF Next, Handle, Lookup, Check, Rollback, Resolve, Record, Persist, Put,
                      Drop, Restart, Tick, NoReserve, history, vars
  <2>3. RunCommit(q) /\ pc[q] = "commit"
    BY <2>1, <2>2 DEF Commit, NoReserve
  <2>4. r = q /\ Outcome(hash[req[q].agent], req[q], now) = "reserved"
    BY <1>1, <2>1, <2>2, <2>3, RunCommitInv
  <2>5. HashTotal(hash'[req[q].agent], now) <= req[q].lim_window
    BY <1>1, <2>2, <2>3, <2>4, RunCommitInv
  <2> QED
    BY <2>2, <2>4, <2>5 DEF HashTotal, Fields, Seen
<1>2. Inv /\ [Next]_vars => \A r \in NewlyReserved :
          HashTotal(hash[req[r].agent], now)' <= req[r].lim_window
  BY <1>1
<1> QED
  BY <1>2, InitInv, InvInductive, PTL DEF Spec, ReservesWithinLimit

-----------------------------------------------------------------------------
(* The store implements ForgetfulAccount.                                   *)

\* A handler gives back only what it holds.
BackInv == \A r \in Request : pc[r] = "rollback" => r \in held

LEMMA BackMoves ==
    ASSUME Inv, BackInv, NEW r \in Request, NEW where \in Place, NEW what \in Answer,
           Goto(r, where, what), held \ {r} \subseteq held',
           where = "rollback" => r \in held'
    PROVE  BackInv'
  BY Moves DEF Inv, Typed, BackInv

LEMMA BackCommit ==
    ASSUME Inv, BackInv, NEW r \in Request, Commit(r), now' = now
    PROVE  BackInv'
<1> DEFINE permitted == Outcome(hash[req[r].agent], req[r], now) = "reserved"
<1>1. pc[r] = "commit" /\ r \notin held
  BY DEF Commit, Inv, HeldInv
<1>2. /\ {"put", "rollback", "done"} \subseteq Place
      /\ {"permitted", "refused", "unavailable"} \subseteq Answer
  BY DEF Answer, Place, InFlight
<1>3. /\ held' = held \/ held' = held \cup {r}
      /\ RunCommit(r) /\ permitted => r \in held'
  BY DEF Commit, RunCommit, NoReserve
<1>4. \/ Goto(r, "put", "permitted")
      \/ permitted /\ RunCommit(r) /\ Goto(r, "rollback", "refused")
      \/ Goto(r, "put", "refused")
      \/ Goto(r, "done", "unavailable")
  <2>1. CASE /\ RunCommit(r)
             /\ CASE permitted /\ InScope(r) -> Goto(r, "put", "permitted")
                  [] permitted /\ ~ InScope(r) -> Goto(r, "rollback", "refused")
                  [] ~ permitted -> Goto(r, "put", "refused")
    <3>1. CASE permitted /\ InScope(r)
      BY <2>1, <3>1
    <3>2. CASE permitted /\ ~ InScope(r)
      BY <2>1, <3>2
    <3>3. CASE ~ permitted
      BY <2>1, <3>3
    <3> QED
      BY <3>1, <3>2, <3>3
  <2>2. CASE Goto(r, "done", "unavailable")
    BY <2>2
  <2> QED
    BY <2>1, <2>2 DEF Commit
<1> QED
  BY <1>2, <1>3, <1>4, BackMoves

LEMMA BackStep == Inv /\ BackInv /\ [Next]_vars => BackInv'
<1> SUFFICES ASSUME Inv, BackInv, [Next]_vars PROVE BackInv'
  OBVIOUS
<1>1. ASSUME NEW r \in Request, Handle(r) PROVE BackInv'
  <2>1. CASE Commit(r)
    BY <1>1, <2>1, BackCommit DEF Handle
  <2>2. CASE Rollback(r)
    <3>1. /\ Goto(r, "put", answer[r]) /\ held \ {r} \subseteq held'
          /\ answer[r] \in Answer /\ "put" \in Place
      BY <2>2 DEF Rollback, NoReserve, Inv, Typed, Place, InFlight
    <3> QED
      BY <3>1, BackMoves
  <2>3. ASSUME UNCHANGED held, NEW where \in Place \ {"rollback"},
               pc' = [pc EXCEPT ![r] = where]
        PROVE  BackInv'
    BY <2>3 DEF Inv, Typed, BackInv
  <2>4. CASE \/ Lookup(r) \/ Check(r) \/ Resolve(r) \/ Record(r) \/ Persist(r)
             \/ Put(r) \/ Drop(r)
    <3>1. UNCHANGED held
      BY <2>4 DEF Lookup, Check, Resolve, Record, Persist, Put, Drop, NoReserve
    <3>2. \E where \in {"check", "resolve", "commit", "record", "persist", "put", "done",
                        "dropped"} : pc' = [pc EXCEPT ![r] = where]
      BY <2>4 DEF Lookup, Check, Resolve, Record, Persist, Put, Drop, Goto
    <3> QED
      BY <2>3, <3>1, <3>2 DEF Place, InFlight
  <2> QED
    BY <1>1, <2>1, <2>2, <2>4 DEF Handle
<1>2. ASSUME NEW g \in Gateway, Restart(g) PROVE BackInv'
  BY <1>2 DEF Restart, BackInv
<1>3. CASE Tick \/ UNCHANGED vars
  BY <1>3 DEF Tick, vars, history, handlers, BackInv
<1> QED
  BY <1>1, <1>2, <1>3 DEF Next

-----------------------------------------------------------------------------
(* What a command reads after a script, and after the clock moved.          *)

LEMMA FieldsLive ==
    ASSUME NEW h \in Hash \cup {NoHash}, NEW t \in Nat
    PROVE  Fields(h, t).expires = NoTtl \/ t < Fields(h, t).expires
<1>1. CASE Seen(h, t) = NoHash
  BY <1>1 DEF Fields
<1>2. CASE Seen(h, t) # NoHash
  <2>1. Fields(h, t) = h /\ h \in Hash /\ (h.expires = NoTtl \/ ~ t >= h.expires)
    BY <1>2 DEF Fields, Seen
  <2> QED
    BY <2>1 DEF Hash
<1> QED
  BY <1>1, <1>2

\* A hash that has not expired is read as it is.
LEMMA LiveIsRead ==
    ASSUME NEW n \in Hash, NEW t \in Nat, n.expires = NoTtl \/ t < n.expires
    PROVE  Fields(n, t) = n
<1>1. n # NoHash
  BY SharedWindowAssumption
<1>2. ~ (n.expires # NoTtl /\ t >= n.expires)
  BY DEF Hash
<1> QED
  BY <1>1, <1>2 DEF Fields, Seen

LEMMA ReserveReads ==
    ASSUME NEW h \in Hash \cup {NoHash}, NEW t \in Nat, NEW r \in Request,
           req[r].kind = "verify", NEW n, n = Reserve(h, req[r], t)
    PROVE  /\ Fields(n, t).at_risk = Fields(h, t).at_risk + req[r].amount
           /\ Fields(n, t).window_used = Fields(h, t).window_used
<1> DEFINE f == Fields(h, t)
<1>1. f \in Hash /\ (f.expires = NoTtl \/ t < f.expires) /\ n \in Hash
  BY FieldsOfHash, FieldsLive, ReserveHash
<1>2. n = [f EXCEPT !.at_risk = @ + req[r].amount, !.open_draws = @ + 1,
                    !.expires = IF @ = NoTtl THEN t + req[r].window_secs ELSE @]
  BY DEF Reserve
<1>3. req[r].window_secs \in Nat \ {0}
  BY RequestBody
<1> HIDE DEF f
<1>4. /\ n.at_risk = f.at_risk + req[r].amount /\ n.window_used = f.window_used
      /\ n.expires = IF f.expires = NoTtl THEN t + req[r].window_secs ELSE f.expires
  BY <1>1, <1>2 DEF Hash
<1>5. t < n.expires
  BY <1>1, <1>3, <1>4
<1>6. Fields(n, t) = n
  BY <1>1, <1>5, LiveIsRead
<1> QED
  BY <1>4, <1>6 DEF f

LEMMA ResolveReads ==
    ASSUME NEW h \in Hash \cup {NoHash}, NEW t \in Nat, NEW amount \in Nat,
           NEW settled \in BOOLEAN
    PROVE  /\ Fields(ResolveScript(h, amount, settled, t), t).at_risk
                 = IF amount < Fields(h, t).at_risk THEN Fields(h, t).at_risk - amount ELSE 0
           /\ Fields(ResolveScript(h, amount, settled, t), t).window_used
                 = IF settled THEN Fields(h, t).window_used + amount
                              ELSE Fields(h, t).window_used
<1> DEFINE f == Fields(h, t)
           n == ResolveScript(h, amount, settled, t)
<1>1. f \in Hash /\ (f.expires = NoTtl \/ t < f.expires)
  BY FieldsOfHash, FieldsLive
<1>2. n \in Hash
  BY ResolveHash
<1>3. n = [f EXCEPT !.at_risk = @ - (IF amount < @ THEN amount ELSE @),
                    !.open_draws = IF @ > 0 THEN @ - 1 ELSE 0,
                    !.window_used = IF settled THEN @ + amount ELSE @]
  BY DEF ResolveScript
<1> HIDE DEF f, n
<1>4. /\ n.at_risk = f.at_risk - (IF amount < f.at_risk THEN amount ELSE f.at_risk)
      /\ n.window_used = IF settled THEN f.window_used + amount ELSE f.window_used
      /\ n.expires = f.expires
  BY <1>1, <1>3 DEF Hash
<1>5. n.at_risk = IF amount < f.at_risk THEN f.at_risk - amount ELSE 0
  BY <1>1, <1>4 DEF Hash
<1>6. Fields(n, t) = n
  BY <1>1, <1>2, <1>4, LiveIsRead
<1> QED
  BY <1>4, <1>5, <1>6 DEF f, n

\* The clock makes a hash unreadable or leaves it as it was.
LEMMA TickReads ==
    ASSUME NEW h \in Hash \cup {NoHash}, NEW t \in Nat
    PROVE  \/ /\ Fields(h, t + 1).at_risk = Fields(h, t).at_risk
              /\ Fields(h, t + 1).window_used = Fields(h, t).window_used
           \/ Fields(h, t + 1).at_risk = 0 /\ Fields(h, t + 1).window_used = 0
<1>1. CASE Seen(h, t + 1) = NoHash
  BY <1>1 DEF Fields
<1>2. CASE Seen(h, t + 1) # NoHash
  <2>1. h \in Hash /\ (h.expires = NoTtl \/ ~ t + 1 >= h.expires)
    BY <1>2 DEF Seen
  <2>2. h.expires = NoTtl \/ t + 1 < h.expires
    BY <2>1 DEF Hash
  <2>3. h.expires = NoTtl \/ t < h.expires
    BY <2>1, <2>2 DEF Hash
  <2> QED
    BY <2>1, <2>2, <2>3, LiveIsRead
<1> QED
  BY <1>1, <1>2

-----------------------------------------------------------------------------
(* The steps of the account.                                                *)

Waiting == {"idle", "check", "commit", "resolve"}

LEMMA EveryRequest == Draws \cup Settlements = Request
  BY RequestBody DEF Draws, Settlements

\* What a script wrote is what the account changes.
LEMMA ScriptReads ==
    ASSUME Inv, NEW a \in Agent, NEW n, hash' = [hash EXCEPT ![a] = n], now' = now
    PROVE  /\ AtRisk' = [AtRisk EXCEPT ![a] = Fields(n, now).at_risk]
           /\ Used' = [Used EXCEPT ![a] = Fields(n, now).window_used]
<1>1. hash'[a] = n /\ \A b \in Agent : b # a => hash'[b] = hash[b]
  BY DEF Inv, Typed
<1> DEFINE f == Fields(n, now)
           old(b) == Fields(hash[b], now)
           new(b) == Fields(hash'[b], now')
<1>2. new(a) = f /\ \A b \in Agent : b # a => new(b) = old(b)
  BY <1>1
<1>3. /\ AtRisk = [b \in Agent |-> old(b).at_risk] /\ AtRisk' = [b \in Agent |-> new(b).at_risk]
      /\ Used = [b \in Agent |-> old(b).window_used]
      /\ Used' = [b \in Agent |-> new(b).window_used]
  BY DEF AtRisk, Used
<1> HIDE DEF f, old, new
<1>4. AtRisk' = [AtRisk EXCEPT ![a] = f.at_risk]
  BY <1>2, <1>3
<1>5. Used' = [Used EXCEPT ![a] = f.window_used]
  BY <1>2, <1>3
<1> QED
  BY <1>4, <1>5 DEF f

\* A handler that moves on and waits no longer has had its attempt.
LEMMA TriedAfter ==
    ASSUME Inv, NEW r \in Request, NEW where \in Place, NEW what \in Answer,
           Goto(r, where, what)
    PROVE  /\ where \notin Waiting => Tried' = Tried \cup {r}
           /\ where \in Waiting => Tried' = Tried \ {r}
<1>1. pc'[r] = where /\ \A q \in Request : q # r => pc'[q] = pc[q]
  BY Moves DEF Inv
<1> QED
  BY <1>1 DEF Tried, Waiting

\* Steps that leave the store alone.
LEMMA QuietAccount ==
    ASSUME UNCHANGED <<hash, now, held>>, Tried \subseteq Tried'
    PROVE  Account!GiveUp
<1>1. AtRisk' = AtRisk /\ Used' = Used
  BY DEF AtRisk, Used
<1>2. Tried' \subseteq Request
  BY DEF Tried
<1> QED
  BY <1>1, <1>2, EveryRequest DEF Account!GiveUp

LEMMA QuietMove ==
    ASSUME Inv, NEW r \in Request, NEW where \in Place, NEW what \in Answer,
           Goto(r, where, what), UNCHANGED <<hash, now, held>>,
           pc[r] \in Waiting \/ where \notin Waiting
    PROVE  Account!GiveUp
<1>1. pc[r] \in Waiting => r \notin Tried
  BY DEF Tried, Waiting
<1>2. Tried \subseteq Tried'
  BY <1>1, TriedAfter
<1> QED
  BY <1>2, QuietAccount

LEMMA CommitAccount ==
    ASSUME Inv, NEW r \in Request, Commit(r), now' = now
    PROVE  (Account!Reserve(r) /\ r \in Draws) \/ Account!GiveUp
<1> DEFINE a == req[r].agent
           n == Reserve(hash[a], req[r], now)
<1>1. /\ pc[r] = "commit" /\ pc[r] \in Waiting /\ r \notin Tried
      /\ req[r].kind = "verify" /\ r \in Draws
  BY DEF Commit, Waiting, Tried, Draws, Inv, PlaceInv
<1>2. /\ {"put", "rollback", "done"} \subseteq Place \ Waiting
      /\ {"permitted", "refused", "unavailable"} \subseteq Answer
  BY DEF Answer, Place, InFlight, Waiting
<1>3. PICK where \in {"put", "rollback", "done"},
           what \in {"permitted", "refused", "unavailable"} : Goto(r, where, what)
  <2>1. CASE Goto(r, "done", "unavailable")
    BY <2>1
  <2>2. CASE ~ Goto(r, "done", "unavailable")
    <3>1. Goto(r, "put", "permitted") \/ Goto(r, "rollback", "refused")
          \/ Goto(r, "put", "refused")
      BY <2>2 DEF Commit
    <3> QED
      BY <3>1
  <2> QED
    BY <2>1, <2>2
<1>4. Tried' = Tried \cup {r}
  BY <1>2, <1>3, TriedAfter
<1>5. CASE RunCommit(r) /\ Outcome(hash[a], req[r], now) = "reserved"
  <2>1. hash' = [hash EXCEPT ![a] = n] /\ held' = held \cup {r}
    BY <1>5 DEF RunCommit
  <2>2. /\ a \in Agent /\ hash[a] \in Hash \cup {NoHash} /\ now \in Nat
        /\ req[r].amount \in Nat
    BY RequestBody DEF Inv, Typed
  <2>3. /\ AtRisk' = [AtRisk EXCEPT ![a] = Fields(n, now).at_risk]
        /\ Used' = [Used EXCEPT ![a] = Fields(n, now).window_used]
    <3> HIDE DEF n
    <3> QED
      BY <2>1, <2>2, ScriptReads
  <2>4. /\ Fields(n, now).at_risk = Fields(hash[a], now).at_risk + req[r].amount
        /\ Fields(n, now).window_used = Fields(hash[a], now).window_used
    <3> HIDE DEF a
    <3>1. n = Reserve(hash[a], req[r], now)
      OBVIOUS
    <3> HIDE DEF n
    <3> QED
      BY <1>1, <2>2, <3>1, ReserveReads
  <2>5. AtRisk[a] = Fields(hash[a], now).at_risk /\ Used[a] = Fields(hash[a], now).window_used
    BY <2>2 DEF AtRisk, Used
  <2>6. Used' = Used
    BY <2>3, <2>4, <2>5 DEF Used
  <2>7. AtRisk' = [AtRisk EXCEPT ![a] = @ + req[r].amount]
    BY <2>3, <2>4, <2>5
  <2>8. /\ req[r].amount <= req[r].lim_single
        /\ AtRisk[a] + Used[a] + req[r].amount <= req[r].lim_window
    <3>1. /\ req[r].lim_single \in Nat /\ req[r].lim_window \in Nat
          /\ Fields(hash[a], now) \in Hash
      BY <1>1, <2>2, RequestBody, FieldsOfHash
    <3>2. /\ AtRisk[a] \in Nat /\ Used[a] \in Nat
          /\ HashTotal(hash[a], now) = AtRisk[a] + Used[a]
      BY <2>5, <3>1 DEF HashTotal, Hash
    <3>3. ~ req[r].amount > req[r].lim_single
          /\ ~ HashTotal(hash[a], now) + req[r].amount > req[r].lim_window
      BY <1>5 DEF Outcome
    <3> HIDE DEF a
    <3> QED
      BY <2>2, <3>1, <3>2, <3>3
  <2> QED
    BY <1>1, <1>4, <2>1, <2>6, <2>7, <2>8 DEF Account!Reserve
<1>6. CASE UNCHANGED hash /\ NoReserve
  <2>1. UNCHANGED <<hash, now, held>>
    BY <1>6 DEF NoReserve
  <2> QED
    BY <1>1, <1>2, <1>3, <2>1, QuietMove
<1> QED
  BY <1>5, <1>6 DEF Commit, RunCommit

LEMMA RollbackAccount ==
    ASSUME Inv, BackInv, NEW r \in Request, Rollback(r), now' = now
    PROVE  (Account!GiveBack(r) /\ r \in Draws) \/ Account!GiveUp
<1> DEFINE a == req[r].agent
           n == ResolveScript(hash[a], req[r].amount, FALSE, now)
<1>1. /\ pc[r] = "rollback" /\ Goto(r, "put", answer[r]) /\ r \in held /\ r \in Tried
      /\ r \in Draws /\ answer[r] \in Answer /\ "put" \in Place \ Waiting
  BY DEF Rollback, BackInv, Waiting, Tried, Draws, Inv, PlaceInv, Typed, Place, InFlight
<1>2. Tried' = Tried
  BY <1>1, TriedAfter
<1>3. CASE hash' = [hash EXCEPT ![a] = n] /\ held' = held \ {r}
  <2>1. /\ a \in Agent /\ hash[a] \in Hash \cup {NoHash} /\ now \in Nat
        /\ req[r].amount \in Nat
    BY RequestBody DEF Inv, Typed
  <2>2. /\ AtRisk' = [AtRisk EXCEPT ![a] = Fields(n, now).at_risk]
        /\ Used' = [Used EXCEPT ![a] = Fields(n, now).window_used]
    <3> HIDE DEF n
    <3> QED
      BY <1>3, <2>1, ScriptReads
  <2>3. /\ Fields(n, now).at_risk = IF req[r].amount < Fields(hash[a], now).at_risk
                                    THEN Fields(hash[a], now).at_risk - req[r].amount ELSE 0
        /\ Fields(n, now).window_used = Fields(hash[a], now).window_used
    <3> DEFINE h == hash[a]
               amount == req[r].amount
               settled == FALSE
    <3>1. h \in Hash \cup {NoHash} /\ amount \in Nat /\ settled \in BOOLEAN /\ now \in Nat
          /\ n = ResolveScript(h, amount, settled, now)
      BY <2>1
    <3> HIDE DEF a, n, h, amount, settled
    <3>2. /\ Fields(n, now).at_risk = IF amount < Fields(h, now).at_risk
                                      THEN Fields(h, now).at_risk - amount ELSE 0
          /\ Fields(n, now).window_used = IF settled THEN Fields(h, now).window_used + amount
                                          ELSE Fields(h, now).window_used
      BY <3>1, ResolveReads
    <3> QED
      BY <3>2 DEF h, amount, settled
  <2>4. AtRisk[a] = Fields(hash[a], now).at_risk /\ Used[a] = Fields(hash[a], now).window_used
    BY <2>1 DEF AtRisk, Used
  <2>5. Used' = Used
    BY <2>2, <2>3, <2>4 DEF Used
  <2>6. Account!TakeBack(r)
    BY <2>2, <2>3, <2>4 DEF Account!TakeBack
  <2> QED
    BY <1>1, <1>2, <1>3, <2>5, <2>6 DEF Account!GiveBack
<1>4. CASE UNCHANGED hash /\ NoReserve
  BY <1>2, <1>4, QuietAccount DEF NoReserve
<1> QED
  BY <1>3, <1>4 DEF Rollback

LEMMA ResolveAccount ==
    ASSUME Inv, NEW r \in Request, Resolve(r), now' = now
    PROVE  (Account!Resolve(r) /\ r \in Settlements) \/ Account!GiveUp
<1> DEFINE a == req[r].agent
           n == ResolveScript(hash[a], req[r].amount, req[r].settled, now)
<1>1. /\ pc[r] = "resolve" /\ Goto(r, "record", "none") /\ r \notin Tried /\ held' = held
      /\ r \in Settlements /\ "none" \in Answer /\ "record" \in Place \ Waiting
  BY DEF Resolve, NoReserve, Waiting, Tried, Settlements, Inv, PlaceInv, Answer, Place, InFlight
<1>2. Tried' = Tried \cup {r}
  BY <1>1, TriedAfter
<1>3. CASE hash' = [hash EXCEPT ![a] = n]
  <2>1. /\ a \in Agent /\ hash[a] \in Hash \cup {NoHash} /\ now \in Nat
        /\ req[r].amount \in Nat /\ req[r].settled \in BOOLEAN
    BY <1>1, RequestBody, SharedGatewayAssumption
       DEF Inv, Typed, Settlements, VerifyBody, SettleBody
  <2>2. /\ AtRisk' = [AtRisk EXCEPT ![a] = Fields(n, now).at_risk]
        /\ Used' = [Used EXCEPT ![a] = Fields(n, now).window_used]
    <3> HIDE DEF n
    <3> QED
      BY <1>3, <2>1, ScriptReads
  <2>3. /\ Fields(n, now).at_risk = IF req[r].amount < Fields(hash[a], now).at_risk
                                    THEN Fields(hash[a], now).at_risk - req[r].amount ELSE 0
        /\ Fields(n, now).window_used =
              IF req[r].settled THEN Fields(hash[a], now).window_used + req[r].amount
                                ELSE Fields(hash[a], now).window_used
    <3> DEFINE h == hash[a]
               amount == req[r].amount
               settled == req[r].settled
    <3>1. h \in Hash \cup {NoHash} /\ amount \in Nat /\ settled \in BOOLEAN /\ now \in Nat
          /\ n = ResolveScript(h, amount, settled, now)
      BY <2>1
    <3> HIDE DEF a, n, h, amount, settled
    <3>2. /\ Fields(n, now).at_risk = IF amount < Fields(h, now).at_risk
                                      THEN Fields(h, now).at_risk - amount ELSE 0
          /\ Fields(n, now).window_used = IF settled THEN Fields(h, now).window_used + amount
                                          ELSE Fields(h, now).window_used
      BY <3>1, ResolveReads
    <3> QED
      BY <3>2 DEF h, amount, settled
  <2>4. AtRisk[a] = Fields(hash[a], now).at_risk /\ Used[a] = Fields(hash[a], now).window_used
    BY <2>1 DEF AtRisk, Used
  <2>5. Used' = IF req[r].settled THEN [Used EXCEPT ![a] = @ + req[r].amount] ELSE Used
    <3>1. CASE req[r].settled
      BY <2>2, <2>3, <2>4, <3>1
    <3>2. CASE ~ req[r].settled
      BY <2>2, <2>3, <2>4, <3>2 DEF Used
    <3> QED
      BY <3>1, <3>2
  <2>6. Account!TakeBack(r)
    BY <2>2, <2>3, <2>4 DEF Account!TakeBack
  <2> QED
    BY <1>1, <1>2, <2>5, <2>6 DEF Account!Resolve
<1>4. CASE UNCHANGED hash
  BY <1>1, <1>2, <1>4, QuietAccount
<1> QED
  BY <1>3, <1>4 DEF Resolve

\* The clock: what expires, the account forgets.
LEMMA TickAccount ==
    ASSUME Inv, Tick
    PROVE  \E S \in SUBSET Agent : Account!Forget(S)
<1>1. /\ now \in Nat /\ hash \in [Agent -> Hash \cup {NoHash}]
      /\ now' = now + 1 /\ UNCHANGED <<hash, pc, held>>
  BY DEF Tick, stores, handlers, history, Inv, Typed
<1>2. Tried' = Tried
  BY <1>1 DEF Tried
<1> DEFINE S == {a \in Agent : AtRisk'[a] # AtRisk[a] \/ Used'[a] # Used[a]}
<1>3. ASSUME NEW a \in Agent
      PROVE  \/ AtRisk'[a] = AtRisk[a] /\ Used'[a] = Used[a]
             \/ AtRisk'[a] = 0 /\ Used'[a] = 0
  <2>1. /\ AtRisk[a] = Fields(hash[a], now).at_risk
        /\ AtRisk'[a] = Fields(hash[a], now + 1).at_risk
        /\ Used[a] = Fields(hash[a], now).window_used
        /\ Used'[a] = Fields(hash[a], now + 1).window_used
    BY <1>1 DEF AtRisk, Used
  <2>2. hash[a] \in Hash \cup {NoHash}
    BY <1>1
  <2> QED
    BY <1>1, <2>1, <2>2, TickReads
<1>4. /\ AtRisk' = [a \in Agent |-> AtRisk'[a]]
      /\ Used' = [a \in Agent |-> Used'[a]]
  BY DEF AtRisk, Used
<1>5. \A a \in Agent : /\ AtRisk'[a] = IF a \in S THEN 0 ELSE AtRisk[a]
                       /\ Used'[a] = IF a \in S THEN 0 ELSE Used[a]
  BY <1>3
<1>6. S \in SUBSET Agent
  OBVIOUS
<1> HIDE DEF S
<1>7. /\ AtRisk' = [a \in Agent |-> IF a \in S THEN 0 ELSE AtRisk[a]]
      /\ Used' = [a \in Agent |-> IF a \in S THEN 0 ELSE Used[a]]
  BY <1>4, <1>5
<1>8. Account!Forget(S)
  BY <1>1, <1>2, <1>7 DEF Account!Forget
<1> QED
  BY <1>6, <1>8

LEMMA RestartAccount ==
    ASSUME NEW g \in Gateway, Restart(g)
    PROVE  Account!GiveUp
<1>1. UNCHANGED <<hash, now, held>>
  BY DEF Restart, stores
<1>2. Tried \subseteq Tried'
  BY DEF Restart, Tried
<1> QED
  BY <1>1, <1>2, QuietAccount

LEMMA HandleAccount ==
    ASSUME Inv, BackInv, NEW r \in Request, Handle(r)
    PROVE  Account!Next
<1>1. now' = now
  BY DEF Handle
<1>2. /\ Place = Waiting \cup {"rollback", "record", "persist", "put", "done", "dropped"}
      /\ {"none", "unauthorised", "resolved", "error"} \subseteq Answer
  BY DEF Place, InFlight, Waiting, Answer
<1>3. CASE Lookup(r)
  <2>1. pc[r] \in Waiting /\ UNCHANGED <<hash, now, held>>
    BY <1>1, <1>3 DEF Lookup, NoReserve, stores, Waiting
  <2>2. Tried \subseteq Tried'
    <3>1. pc' = [pc EXCEPT ![r] = pc'[r]] /\ r \notin Tried
      BY <1>3 DEF Lookup, Goto, Inv, Typed, Tried
    <3> QED
      BY <3>1 DEF Tried, Inv, Typed
  <2>3. Account!GiveUp
    BY <2>1, <2>2, QuietAccount
  <2> QED
    BY <2>3 DEF Account!Next
<1>4. CASE Check(r)
  <2>1. /\ pc[r] \in Waiting /\ UNCHANGED <<hash, now, held>>
        /\ Goto(r, "commit", "none") \/ Goto(r, "done", "unauthorised")
    BY <1>1, <1>4 DEF Check, NoReserve, stores, Waiting
  <2>2. Account!GiveUp
    BY <1>2, <2>1, QuietMove DEF Waiting
  <2> QED
    BY <2>2 DEF Account!Next
<1>5. CASE Commit(r)
  BY <1>1, <1>5, CommitAccount DEF Account!Next
<1>6. CASE Rollback(r)
  BY <1>1, <1>6, RollbackAccount DEF Account!Next
<1>7. CASE Resolve(r)
  BY <1>1, <1>7, ResolveAccount DEF Account!Next
<1>8. CASE Record(r) \/ Persist(r) \/ Put(r) \/ Drop(r)
  <2>1. UNCHANGED <<hash, now, held>>
    BY <1>1, <1>8 DEF Record, Persist, Put, Drop, NoReserve, stores
  <2>2. PICK where \in {"persist", "put", "done", "dropped"} : pc' = [pc EXCEPT ![r] = where]
    BY <1>8 DEF Record, Persist, Put, Drop, Goto
  <2>3. Tried \subseteq Tried'
    BY <2>2 DEF Tried, Inv, Typed
  <2>4. Account!GiveUp
    BY <2>1, <2>3, QuietAccount
  <2> QED
    BY <2>4 DEF Account!Next
<1> QED
  BY <1>3, <1>4, <1>5, <1>6, <1>7, <1>8 DEF Handle

\* Every step of the gateways is a step of the account, or changes nothing of it.
LEMMA AccountStep ==
    Inv /\ BackInv /\ [Next]_vars => [Account!Next]_<<AtRisk, Used, Tried, held>>
<1> SUFFICES ASSUME Inv, BackInv, [Next]_vars
             PROVE  Account!Next \/ UNCHANGED <<AtRisk, Used, Tried, held>>
  OBVIOUS
<1>1. CASE Tick
  BY <1>1, TickAccount DEF Account!Next
<1>2. ASSUME NEW g \in Gateway, Restart(g) PROVE Account!Next
  BY <1>2, RestartAccount DEF Account!Next
<1>3. CASE UNCHANGED vars
  BY <1>3 DEF vars, stores, handlers, history, AtRisk, Used, Tried
<1> QED
  BY <1>1, <1>2, <1>3, HandleAccount DEF Next

LEMMA AccountInit == Init => Account!Init
<1> SUFFICES ASSUME Init PROVE Account!Init
  OBVIOUS
<1>1. \A a \in Agent : Fields(hash[a], now).at_risk = 0 /\ Fields(hash[a], now).window_used = 0
  BY DEF Init, Fields, Seen
<1>2. Tried = {} /\ held = {}
  BY DEF Init, Tried
<1> QED
  BY <1>1, <1>2 DEF AtRisk, Used, Account!Init

\* The scripts and the handlers around them implement the account of
\* ForgetfulAccount: one attempt for each request, reservations only where there is
\* room for them, each given back at most once, and an account that is forgotten as
\* a whole or not at all (exposure.rs:82-134, limits.rs:397-470).
THEOREM SharedImplementsAccount == Spec => SharedAccountSpec
<1>1. Init => BackInv
  BY DEF Init, BackInv
<1> QED
  BY <1>1, BackStep, AccountStep, AccountInit, InitInv, InvInductive, PTL
     DEF Spec, SharedAccountSpec, Account!Spec
=============================================================================
