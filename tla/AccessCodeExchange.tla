------------------------- MODULE AccessCodeExchange -------------------------
(***************************************************************************)
(* Exchange of an access code for a session at the edge, and the sessions  *)
(* (openresty/lua: access_code_exchange.lua, modules/fmu_access_store,     *)
(* fmu_access_handler and fmu_session_revoke_handler).                     *)
(*                                                                         *)
(* An exchange redeems the code, checks the credential it gets, saves the  *)
(* session of an FMU to a file, commits the redemption and answers with a  *)
(* cookie.  Each of its three requests to blockchain-services may time out *)
(* and be served all the same, then or later.  nginx has one worker: what  *)
(* runs between two of these requests, and all the other handlers, is one  *)
(* step.  The credential, and the session's name in it, belong to a code.  *)
(*                                                                         *)
(* blockchain-services is external: a redemption holds the code for 30 s   *)
(* under a handle, a commit with that handle consumes it, a release frees  *)
(* it (docs/documentation-contract.md:36-41).                              *)
(***************************************************************************)
EXTENDS Integers

CONSTANTS
    Codes,          \* access codes
    Fmu,            \* those of FMU reservations; the others are of Guacamole
    Exchanges,      \* requests to /auth/access, and the handles they are given
    NoCode,         \* no code yet, no holder
    Slow            \* whether an exchange may outlast the lease of its handle

ASSUME AccessAssumption == Fmu \subseteq Codes /\ NoCode \notin Codes \cup Exchanges
                           /\ Slow \in BOOLEAN

VARIABLES
    exchange,   \* exchange[x]: where it is, its code, the answer it waits for
    asked,      \* requests on their way to blockchain-services
    code,       \* external: who holds the code, whether it is consumed
    file,       \* the codes whose session is saved in FMU_ACCESS_STATE_PATH
    cached,     \* the codes whose session is in the shared dict
    given,      \* given[k]: the cookies handed out for code k
    revoked,    \* sessions whose revocation was confirmed
    over        \* the codes whose credential has expired

accessVars == <<exchange, asked, code, file, cached, given, revoked, over>>

ExchangeType ==
    [at: {"new", "redeem", "commit", "release", "done"}, code: Codes \cup {NoCode},
     answer: {"none", "ok", "refused"}]

Query == [what: {"redeem", "commit", "release"}, by: Exchanges]

CodeType == [holder: Exchanges \cup {NoCode}, consumed: BOOLEAN]

AccessInit ==
    /\ exchange = [x \in Exchanges |-> [at |-> "new", code |-> NoCode, answer |-> "none"]]
    /\ asked = {}
    /\ code = [k \in Codes |-> [holder |-> NoCode, consumed |-> FALSE]]
    /\ file = {} /\ cached = {}
    /\ given = [k \in Codes |-> 0]
    /\ revoked = {} /\ over = {}

\* The exchange moves on with a request to blockchain-services.
Asks(x, k, what) ==
    /\ exchange' = [exchange EXCEPT ![x] = [at |-> what, code |-> k, answer |-> "none"]]
    /\ asked' = asked \cup {[what |-> what, by |-> x]}

Ends(x) == exchange' = [exchange EXCEPT ![x].at = "done", ![x].answer = "none"]

atBackend == <<code, revoked, over>>

-----------------------------------------------------------------------------
(* The exchange *)

SubmitCode(x, k) ==
    /\ exchange[x].at = "new"
    /\ Asks(x, k, "redeem")
    /\ UNCHANGED <<file, cached, given, atBackend>>

\* Refused, or no answer within the timeout: without a handle there is nothing
\* to release.
RedeemFails(x) ==
    /\ exchange[x].at = "redeem"
    /\ Ends(x)
    /\ UNCHANGED <<asked, file, cached, given, atBackend>>

\* A check of the credential fails, or the session cannot be saved.
CheckFails(x) ==
    /\ exchange[x].at = "redeem" /\ exchange[x].answer = "ok"
    /\ Asks(x, exchange[x].code, "release")
    /\ UNCHANGED <<file, cached, given, atBackend>>

\* Mutated form: that the session could not be saved is logged only.
PersistUnchecked(x) ==
    LET k == exchange[x].code
    IN  /\ exchange[x].at = "redeem" /\ exchange[x].answer = "ok"
        /\ k \notin over
        /\ file' \in {file, file \cup ({k} \cap Fmu)}
        /\ Asks(x, k, "commit")
        /\ UNCHANGED <<cached, given, atBackend>>

\* The credential is good: the session of an FMU is saved, then the redemption
\* committed.
Persist(x) ==
    LET k == exchange[x].code
    IN  /\ exchange[x].at = "redeem" /\ exchange[x].answer = "ok"
        /\ k \notin over
        /\ file' = file \cup ({k} \cap Fmu)
        /\ Asks(x, k, "commit")
        /\ UNCHANGED <<cached, given, atBackend>>

\* Refused or not answered: the session is removed, if that works, and then the
\* lease given up.
CommitFails(x) ==
    LET k == exchange[x].code
    IN  /\ exchange[x].at = "commit"
        /\ file' \in {file, file \ {k}}
        /\ cached' = IF k \in Fmu THEN cached \ {k} ELSE cached
        /\ Asks(x, k, "release")
        /\ UNCHANGED <<given, atBackend>>

\* Mutated form: no answer at all is taken for a commit.
CommitUnheard(x) ==
    LET k == exchange[x].code
    IN  /\ exchange[x].at = "commit" /\ exchange[x].answer # "refused"
        /\ cached' \in {cached, cached \cup {k}}
        /\ given' = [given EXCEPT ![k] = @ + 1]
        /\ Ends(x)
        /\ UNCHANGED <<asked, file, atBackend>>

\* The session goes into the shared dict, if there is room, and its cookie to
\* the client.
CommitSucceeds(x) ==
    LET k == exchange[x].code
    IN  /\ exchange[x].at = "commit" /\ exchange[x].answer = "ok"
        /\ cached' \in {cached, cached \cup {k}}
        /\ given' = [given EXCEPT ![k] = @ + 1]
        /\ Ends(x)
        /\ UNCHANGED <<asked, file, atBackend>>

ReleaseEnds(x) ==
    /\ exchange[x].at = "release"
    /\ Ends(x)
    /\ UNCHANGED <<asked, file, cached, given, atBackend>>

-----------------------------------------------------------------------------
(* External: blockchain-services *)

Pending(x, what) == [what |-> what, by |-> x] \in asked

\* A request is served, though perhaps no one waits for the answer any more.
Serves(x, what, result) ==
    /\ asked' = asked \ {[what |-> what, by |-> x]}
    /\ exchange' = IF exchange[x].at = what THEN [exchange EXCEPT ![x].answer = result]
                   ELSE exchange
    /\ UNCHANGED <<file, cached, given, revoked, over>>

Free(k) == code[k].holder = NoCode /\ k \notin over
HoldsLease(x) == code[exchange[x].code] = [holder |-> x, consumed |-> FALSE]

BackendRedeems(x) ==
    LET k == exchange[x].code
    IN  /\ Pending(x, "redeem")
        /\ \/ /\ Free(k)
              /\ code' = [code EXCEPT ![k].holder = x]
              /\ Serves(x, "redeem", "ok")
           \/ /\ ~Free(k)
              /\ Serves(x, "redeem", "refused")
              /\ UNCHANGED code

BackendCommits(x) ==
    /\ Pending(x, "commit")
    /\ \/ /\ HoldsLease(x)
          /\ code' = [code EXCEPT ![exchange[x].code].consumed = TRUE]
          /\ Serves(x, "commit", "ok")
       \/ /\ ~HoldsLease(x)
          /\ Serves(x, "commit", "refused")
          /\ UNCHANGED code

BackendReleases(x) ==
    /\ Pending(x, "release")
    /\ Serves(x, "release", "ok")
    /\ code' = IF HoldsLease(x) THEN [code EXCEPT ![exchange[x].code].holder = NoCode] ELSE code

\* The lease runs out.  The timeouts of 5 s keep an exchange within its 30 s,
\* unless several of one exchange are used up.
LeaseLapses(k) ==
    LET x == code[k].holder
    IN  /\ x # NoCode /\ ~code[k].consumed
        /\ exchange[x].at \in {"redeem", "commit"} => Slow
        /\ code' = [code EXCEPT ![k].holder = NoCode]
        /\ UNCHANGED <<exchange, asked, file, cached, given, revoked, over>>

-----------------------------------------------------------------------------
(* The sessions *)

\* An FMU request with the cookie: what is not in the shared dict is read from
\* the file, which goes when the credential has expired.
AccessFmu(k) ==
    /\ k \in Fmu /\ given[k] > 0
    /\ k \notin cached /\ k \in file
    /\ IF k \in over
       THEN file' = file \ {k} /\ UNCHANGED cached
       ELSE cached' = cached \cup {k} /\ UNCHANGED file
    /\ UNCHANGED <<exchange, asked, given, atBackend>>

\* The revocation is confirmed once the file is gone; the shared dict follows.
RevokeFmu(k) ==
    /\ k \in Fmu /\ given[k] > 0
    /\ file' = file \ {k}
    /\ cached' = cached \ {k}
    /\ revoked' = revoked \cup {k}
    /\ UNCHANGED <<exchange, asked, given, code, over>>

\* An entry expires or makes room for others.
Evict(k) ==
    /\ k \in cached
    /\ cached' = cached \ {k}
    /\ UNCHANGED <<exchange, asked, file, given, atBackend>>

CredentialExpires(k) ==
    /\ k \notin over
    /\ over' = over \cup {k}
    /\ UNCHANGED <<exchange, asked, code, file, cached, given, revoked>>

\* The shared dict and the exchanges under way are lost, the files stay.
EdgeRestarts ==
    /\ exchange' = [x \in Exchanges |->
            IF exchange[x].at = "new" THEN exchange[x]
            ELSE [exchange[x] EXCEPT !.at = "done", !.answer = "none"]]
    /\ cached' = {}
    /\ UNCHANGED <<asked, file, given, atBackend>>

AccessNext ==
    \/ \E x \in Exchanges :
        \/ \E k \in Codes : SubmitCode(x, k)
        \/ RedeemFails(x)
        \/ CheckFails(x)
        \/ Persist(x)
        \/ CommitFails(x)
        \/ CommitSucceeds(x)
        \/ ReleaseEnds(x)
        \/ BackendRedeems(x)
        \/ BackendCommits(x)
        \/ BackendReleases(x)
    \/ \E k \in Codes :
        \/ LeaseLapses(k)
        \/ AccessFmu(k)
        \/ RevokeFmu(k)
        \/ Evict(k)
        \/ CredentialExpires(k)
    \/ EdgeRestarts

AccessSpec == AccessInit /\ [][AccessNext]_accessVars

-----------------------------------------------------------------------------
AccessTypeOK ==
    /\ exchange \in [Exchanges -> ExchangeType]
    /\ asked \subseteq Query
    /\ code \in [Codes -> CodeType]
    /\ file \subseteq Codes /\ cached \subseteq Codes
    /\ given \in [Codes -> Nat]
    /\ revoked \subseteq Codes /\ over \subseteq Codes

\* One client at most gets a session for a code, and only once the code is
\* consumed: whatever answers are lost, served late or asked again by another
\* exchange (docs/workflows/institutional-check-in-access-sessions.md:131).
RedeemedOnce ==
    \A k \in Codes : given[k] <= 1 /\ (given[k] = 1 => code[k].consumed)

\* The session of an FMU survives every restart of the edge, and every failing
\* exchange of its code, until it ends or is revoked; a revoked one never comes
\* back (docs/workflows/institutional-check-in-access-sessions.md:133).
LastsUntilRevoked ==
    \A k \in Fmu :
        /\ given[k] = 1 /\ k \notin revoked \cup over => k \in file
        /\ k \in revoked => k \notin file \cup cached

-----------------------------------------------------------------------------
(* Refinement *)

ConsumedCodes == {k \in Codes : code[k].consumed}
HandedCodes == {k \in Codes : given[k] > 0}
LiveSessions == {k \in Fmu \ over : given[k] > 0 /\ k \in file \cup cached}

Grant == INSTANCE AccessGrant
    WITH consumed <- ConsumedCodes, handed <- HandedCodes, live <- LiveSessions

\* Lost and late answers, failing exchanges that clean up after themselves, entries
\* that make room and restarts of the edge change nothing of what a code promises:
\* the code is consumed before its one cookie goes out, and its session then lives
\* on, in the file or the shared dict, until it is revoked or expires.
ImplementsGrant == Grant!Spec

=============================================================================
