----------------------------- MODULE AuthProofs -----------------------------
(***************************************************************************)
(* What the auth service keeps for any number of calls at once and any     *)
(* bounds: a session that has ended stays ended unless a refresh had read  *)
(* it before, an active session of an older password is one of those the   *)
(* model knows an excuse for, codes and reset tokens are used once unless  *)
(* they are contested, and logins keep to the limit on sessions.  All rest *)
(* on the types of the tables and of the statements that wait, which say   *)
(* that a refresh only goes on with a session it read while active.        *)
(***************************************************************************)
EXTENDS AuthSessions, SequenceTheorems, SumProofs

Row == [token : Nat, version : Nat, passwordVersion : Nat \ {0},
        status : {"active", "revoked"}, lapsed : BOOLEAN, byCode : BOOLEAN]

Issued == [session : Nat, version : Nat, passwordVersion : Nat]

Tables == [user : {"none", "active", "suspended"}, credential : [version : Nat, password : Nat],
           passwords : Nat, sessions : Seq(Row), tokens : Seq(Issued),
           codes : Seq(BOOLEAN), resets : Seq(BOOLEAN)]

\* The statements that wait, by what they have read.
Plain == [at : {"idle", "insertUser", "insertCredential", "createReset"}]
Verifying == [at : {"verify"}, password : Nat]
Creating == [at : {"create"}, seen : Nat \ {0}, code : Nat]
Listing == [at : {"list"}, own : Nat]
Pruning == [at : {"prune"}, own : Nat, surplus : SUBSET Nat]
Renewal == [at : {"findUser", "rotate"}, session : Nat, seen : Row]
Revoking == [at : {"revoke"}, session : Nat]
Changing == [at : {"change"}, seen : Nat, invalidate : BOOLEAN, reset : Nat]
Resetting == [at : {"findCredential", "endAll", "markReset"}, reset : Nat]
Exchanging == [at : {"markCode", "codeUser", "codeCredential"}, code : Nat]

Call == Plain \cup Verifying \cup Creating \cup Listing \cup Pruning \cup Renewal
          \cup Revoking \cup Changing \cup Resetting \cup Exchanging

Uses == [{"code", "reset"} \X (1..MaxOthers) -> Nat]

History == [revived : SUBSET Nat, overtaken : SUBSET Nat, unpruned : SUBSET Nat,
            uses : Uses, contested : SUBSET ({"code", "reset"} \X Nat), kept : SUBSET Nat]

Typed ==
    /\ db \in Tables
    /\ calls \in [Slots -> Call]
    /\ history \in History

\* A token belongs to a session; a refresh goes on with one that was active when it read it.
Refreshing(call) == call.at \in {"findUser", "rotate"}

Renewable(call) ==
    Refreshing(call) => call.session \in DOMAIN db.sessions /\ call.seen.status = "active"

Linked ==
    /\ \A t \in DOMAIN db.tokens : db.tokens[t].session \in DOMAIN db.sessions
    /\ \A c \in Slots : Renewable(calls[c])

Explained(s) == s \in history.revived \cup history.overtaken \cup history.kept

IInv == Typed /\ Linked /\ OldSessionsExplained

\* What a step may not do to a session that has ended.
StaysEnded ==
    \A s \in DOMAIN db.sessions :
        db.sessions[s].status = "revoked" /\ ~Renewing(s) => db'.sessions[s].status = "revoked"

-----------------------------------------------------------------------------
(* The types of calls and of sessions                                       *)

\* What a call carries follows from the statement it waits for.
LEMMA CallShape ==
    ASSUME NEW call \in Call
    PROVE  /\ call.at = "verify" => call \in Verifying
           /\ call.at = "create" => call \in Creating
           /\ call.at = "list" => call \in Listing
           /\ call.at = "prune" => call \in Pruning
           /\ call.at \in {"findUser", "rotate"} => call \in Renewal
           /\ call.at = "revoke" => call \in Revoking
           /\ call.at = "change" => call \in Changing
           /\ call.at \in {"findCredential", "endAll", "markReset"} => call \in Resetting
           /\ call.at \in {"markCode", "codeUser", "codeCredential"} => call \in Exchanging
<1>1. \/ call \in Plain \/ call \in Verifying \/ call \in Creating \/ call \in Listing
      \/ call \in Pruning \/ call \in Renewal \/ call \in Revoking \/ call \in Changing
      \/ call \in Resetting \/ call \in Exchanging
    BY DEF Call
<1>2. /\ call \in Plain => call.at \in {"idle", "insertUser", "insertCredential", "createReset"}
      /\ call \in Verifying => call.at = "verify"
      /\ call \in Creating => call.at = "create"
      /\ call \in Listing => call.at = "list"
      /\ call \in Pruning => call.at = "prune"
      /\ call \in Renewal => call.at \in {"findUser", "rotate"}
      /\ call \in Revoking => call.at = "revoke"
      /\ call \in Changing => call.at = "change"
      /\ call \in Resetting => call.at \in {"findCredential", "endAll", "markReset"}
      /\ call \in Exchanging => call.at \in {"markCode", "codeUser", "codeCredential"}
    BY DEF Plain, Verifying, Creating, Listing, Pruning, Renewal, Revoking, Changing,
           Resetting, Exchanging
<1> QED
    BY <1>1, <1>2

LEMMA TablesTyped ==
    ASSUME Typed
    PROVE  /\ db.sessions \in Seq(Row) /\ db.tokens \in Seq(Issued)
           /\ Len(db.sessions) \in Nat /\ DOMAIN db.sessions = 1..Len(db.sessions)
           /\ Len(db.tokens) \in Nat /\ DOMAIN db.tokens = 1..Len(db.tokens)
           /\ \A s \in DOMAIN db.sessions : db.sessions[s] \in Row
           /\ \A t \in DOMAIN db.tokens : db.tokens[t] \in Issued
           /\ db.credential.version \in Nat
<1>1. db.sessions \in Seq(Row) /\ db.tokens \in Seq(Issued) /\ db.credential.version \in Nat
    BY DEF Typed, Tables
<1> QED
    BY <1>1, LenProperties, ElementOfSeq

\* Revoking changes the status of active sessions only.
LEMMA RevokeTyped ==
    ASSUME Typed, NEW ended
    PROVE  /\ Revoke(ended) \in Seq(Row) /\ Len(Revoke(ended)) = Len(db.sessions)
           /\ \A s \in DOMAIN db.sessions :
                  /\ Revoke(ended)[s].passwordVersion = db.sessions[s].passwordVersion
                  /\ Revoke(ended)[s].status = "active" => db.sessions[s].status = "active" /\ s \notin ended
<1> DEFINE n == Len(db.sessions)
           row(s) == IF s \in ended \cap Active THEN [db.sessions[s] EXCEPT !.status = "revoked"] ELSE db.sessions[s]
<1>1. \A s \in 1..n : row(s) \in Row
    BY TablesTyped DEF Row
<1>2. Revoke(ended) = [s \in 1..n |-> row(s)]
    BY TablesTyped DEF Revoke
<1>3. n \in Nat
    BY TablesTyped
<1>4. \A s \in 1..n : /\ row(s).passwordVersion = db.sessions[s].passwordVersion
                      /\ row(s).status = "active" => db.sessions[s].status = "active" /\ s \notin ended
    BY TablesTyped DEF Row, Active
<1> HIDE DEF row, n
<1>5. Revoke(ended) \in Seq(Row) /\ Len(Revoke(ended)) = n
    BY <1>1, <1>2, <1>3
<1>6. \A s \in 1..n : Revoke(ended)[s] = row(s)
    BY <1>2
<1> QED
    BY <1>4, <1>5, <1>6, TablesTyped DEF n

-----------------------------------------------------------------------------
(* Steps that create and revive no session and change no credential         *)

\* Which steps those are: sessions may end, the history may grow, and the calls that went
\* on had no sessions left to end.
Harmless ==
    /\ Typed'
    /\ Len(db'.sessions) = Len(db.sessions)
    /\ \A s \in DOMAIN db.sessions :
           /\ db'.sessions[s].passwordVersion = db.sessions[s].passwordVersion
           /\ db'.sessions[s].status = "active" => db.sessions[s].status = "active"
    /\ db'.tokens = db.tokens /\ db'.credential = db.credential
    /\ history.revived \subseteq history'.revived
    /\ history.overtaken \subseteq history'.overtaken
    /\ history.kept \subseteq history'.kept
    /\ \A d \in Slots : \/ calls'[d] = calls[d]
                        \/ calls[d].at # "endAll" /\ Renewable(calls'[d])

LEMMA HarmlessStep ==
    ASSUME IInv, Harmless
    PROVE  IInv' /\ StaysEnded
<1>1. DOMAIN db'.sessions = DOMAIN db.sessions
    BY LenProperties DEF Harmless, Typed, Tables, IInv
<1>2. \A s \in DOMAIN db.sessions : db'.sessions[s].status \in {"active", "revoked"}
    <2>1. db'.sessions \in Seq(Row)
        BY DEF Harmless, Typed, Tables
    <2>2. \A s \in DOMAIN db.sessions : db'.sessions[s] \in Row
        BY <1>1, <2>1, ElementOfSeq, LenProperties
    <2> QED
        BY <2>2 DEF Row
<1>3. StaysEnded
    BY <1>2 DEF Harmless, StaysEnded
<1>4. Linked'
    <2>1. \A t \in DOMAIN db'.tokens : db'.tokens[t].session \in DOMAIN db'.sessions
        BY <1>1 DEF Harmless, IInv, Linked
    <2>2. \A d \in Slots : Renewable(calls'[d])
        BY DEF Harmless, IInv, Linked
    <2>3. \A d \in Slots : Renewable(calls[d])'
        BY <1>1, <2>2 DEF Renewable, Refreshing
    <2> QED
        BY <2>1, <2>3 DEF Linked
<1>5. OldSessionsExplained'
    <2> SUFFICES ASSUME \A c \in Slots : calls'[c].at # "endAll",
                        NEW s \in DOMAIN db'.sessions, db'.sessions[s].status = "active",
                        db'.sessions[s].passwordVersion < db'.credential.version
                 PROVE  s \in history'.revived \cup history'.overtaken \cup history'.kept
        BY DEF OldSessionsExplained, Active
    <2>1. \A c \in Slots : calls[c].at # "endAll"
        BY DEF Harmless
    <2>2. s \in Active /\ db.sessions[s].passwordVersion < db.credential.version
        BY <1>1 DEF Harmless, Active
    <2>3. s \in history.revived \cup history.overtaken \cup history.kept
        BY <2>1, <2>2 DEF IInv, OldSessionsExplained
    <2> QED
        BY <2>3 DEF Harmless
<1> QED
    BY <1>3, <1>4, <1>5 DEF IInv, Harmless

\* A call that starts, reads, returns or answers.
LEMMA GoStep ==
    ASSUME IInv, NEW c \in Slots, NEW call \in Call, Go(c, call), calls[c].at # "endAll",
           Renewable(call), UNCHANGED <<db, history>>
    PROVE  IInv' /\ StaysEnded
<1>1. calls' \in [Slots -> Call] /\ \A d \in Slots : calls'[d] = IF d = c THEN call ELSE calls[d]
    BY DEF IInv, Typed, Go
<1>2. Harmless
    BY <1>1 DEF Harmless, IInv, Typed
<1> QED
    BY <1>2, HarmlessStep

\* A call whose statement changed neither sessions nor tokens nor the credential.
LEMMA OtherTablesStep ==
    ASSUME IInv, NEW c \in Slots, NEW call \in Call, Go(c, call), calls[c].at # "endAll",
           ~Refreshing(call), db' \in Tables,
           db'.sessions = db.sessions, db'.tokens = db.tokens, db'.credential = db.credential,
           history' \in History, history'.revived = history.revived,
           history'.overtaken = history.overtaken, history'.kept = history.kept
    PROVE  IInv' /\ StaysEnded
<1>1. calls' \in [Slots -> Call] /\ \A d \in Slots : calls'[d] = IF d = c THEN call ELSE calls[d]
    BY DEF IInv, Typed, Go
<1>2. Harmless
    BY <1>1 DEF Harmless, Typed, Renewable
<1> QED
    BY <1>2, HarmlessStep

\* A statement that ends sessions.
LEMMA RevokeStep ==
    ASSUME IInv, NEW ended, db' = [db EXCEPT !.sessions = Revoke(ended)], UNCHANGED history,
           calls' \in [Slots -> Call],
           \A d \in Slots : calls'[d] = calls[d] \/ (calls[d].at # "endAll" /\ ~Refreshing(calls'[d]))
    PROVE  IInv' /\ StaysEnded
<1>1. Typed
    BY DEF IInv
<1>2. db' \in Tables /\ db'.sessions = Revoke(ended) /\ db'.tokens = db.tokens
      /\ db'.credential = db.credential
    <2>1. Revoke(ended) \in Seq(Row)
        BY <1>1, RevokeTyped
    <2> HIDE DEF Revoke
    <2> QED
        BY <1>1, <2>1 DEF Typed, Tables
<1>3. Harmless
    BY <1>1, <1>2, RevokeTyped DEF Harmless, Typed, Renewable
<1> QED
    BY <1>3, HarmlessStep

-----------------------------------------------------------------------------
(* What ended and what is old, statement by statement                       *)

\* Registration, login and reads.
LEMMA ReadingSteps ==
    ASSUME IInv, NEW c \in Slots,
           \/ Register(c) \/ Login(c) \/ Verify(c) \/ List(c)
           \/ \E t \in DOMAIN db.tokens : Refresh(c, t)
           \/ FindUser(c)
           \/ \E s \in DOMAIN db.sessions : Logout(c, s)
           \/ UpdatePassword(c) \/ FindCredential(c) \/ CodeUser(c) \/ CodeCredential(c)
    PROVE  IInv' /\ StaysEnded
<1> USE DEF Arrive, Waits, Return
<1>0. /\ Typed /\ calls[c] \in Call /\ Idle \in Call /\ ~Refreshing(Idle)
      /\ db.credential \in [version : Nat, password : Nat] /\ db.passwords \in Nat
    BY DEF IInv, Typed, Tables, Call, Plain, Idle, Refreshing
<1>idle. ASSUME Go(c, Idle), calls[c].at # "endAll", UNCHANGED <<db, history>>
         PROVE  IInv' /\ StaysEnded
    BY <1>0, <1>idle, GoStep DEF Renewable
<1>1. CASE Register(c)
    <2>1. [at |-> "insertUser"] \in Call /\ Renewable([at |-> "insertUser"])
        BY DEF Call, Plain, Renewable, Refreshing
    <2> QED
        BY <1>1, <2>1, GoStep DEF Register
<1>2. CASE Login(c)
    <2>1. PICK p \in 1..db.passwords : Go(c, [at |-> "verify", password |-> p])
        BY <1>2 DEF Login
    <2> DEFINE call == [at |-> "verify", password |-> p]
    <2>2. call \in Call /\ Renewable(call)
        BY <1>0 DEF Call, Verifying, Renewable, Refreshing
    <2>3. calls[c].at # "endAll" /\ UNCHANGED <<db, history>>
        BY <1>2 DEF Login
    <2> HIDE DEF call
    <2> QED
        BY <2>1, <2>2, <2>3, GoStep DEF call
<1>3. CASE Verify(c)
    <2>1. calls[c].at # "endAll" /\ UNCHANGED <<db, history>>
        BY <1>3 DEF Verify
    <2>2. CASE Go(c, Idle)
        BY <1>idle, <2>1, <2>2
    <2>3. CASE ~Go(c, Idle)
        <3> DEFINE call == [at |-> "create", seen |-> db.credential.version, code |-> 0]
        <3>1. Go(c, call) /\ db.credential.version > 0
            BY <1>3, <2>3 DEF Verify
        <3>2. call \in Call /\ Renewable(call)
            BY <1>0, <3>1 DEF Call, Creating, Renewable, Refreshing
        <3> HIDE DEF call
        <3> QED
            BY <2>1, <3>1, <3>2, GoStep
    <2> QED
        BY <2>2, <2>3
<1>4. CASE List(c)
    <2>1. calls[c].at = "list" /\ UNCHANGED <<db, history>>
        BY <1>4 DEF List
    <2>2. CASE Go(c, Idle)
        BY <1>idle, <2>1, <2>2
    <2>3. CASE ~Go(c, Idle)
        <3>1. PICK surplus : /\ surplus = Surplus(calls[c].own, MaxPerUser)
                             /\ Go(c, [at |-> "prune", own |-> calls[c].own, surplus |-> surplus])
            BY <1>4, <2>3 DEF List
        <3>2. surplus \subseteq Nat
            <4>1. Active \subseteq Nat
                BY <1>0, TablesTyped DEF Active
            <4> QED
                BY <3>1, <4>1 DEF Surplus
        <3>3. calls[c].own \in Nat
            BY <1>0, <2>1, CallShape DEF Listing
        <3> DEFINE call == [at |-> "prune", own |-> calls[c].own, surplus |-> surplus]
        <3>4. call \in Call /\ Renewable(call)
            BY <3>2, <3>3 DEF Call, Pruning, Renewable, Refreshing
        <3>5. Go(c, call)
            BY <3>1
        <3> HIDE DEF call
        <3> QED
            BY <2>1, <3>4, <3>5, GoStep
    <2> QED
        BY <2>2, <2>3
<1>5. ASSUME NEW t \in DOMAIN db.tokens, Refresh(c, t) PROVE IInv' /\ StaysEnded
    <2> DEFINE s == db.tokens[t].session
    <2>1. /\ calls[c].at # "endAll" /\ UNCHANGED <<db, history>>
          /\ db.sessions[s].status = "active"
          /\ \/ Go(c, [at |-> "revoke", session |-> s])
             \/ Go(c, [at |-> "findUser", session |-> s, seen |-> db.sessions[s]])
        BY <1>5 DEF Refresh
    <2>2. s \in DOMAIN db.sessions /\ s \in Nat /\ db.sessions[s] \in Row
        <3>1. s \in DOMAIN db.sessions
            BY DEF IInv, Linked
        <3> HIDE DEF s
        <3> QED
            BY <1>0, <3>1, TablesTyped
    <2>3. CASE Go(c, [at |-> "revoke", session |-> s])
        <3> DEFINE call == [at |-> "revoke", session |-> s]
        <3>1. call \in Call /\ Renewable(call)
            BY <2>2 DEF Call, Revoking, Renewable, Refreshing
        <3>2. Go(c, call)
            BY <2>3
        <3> HIDE DEF call
        <3> QED
            BY <2>1, <3>1, <3>2, GoStep
    <2>4. CASE Go(c, [at |-> "findUser", session |-> s, seen |-> db.sessions[s]])
        <3> DEFINE call == [at |-> "findUser", session |-> s, seen |-> db.sessions[s]]
        <3>1. call \in Renewal
            BY <2>2 DEF Renewal
        <3>2. Renewable(call)
            BY <2>1, <2>2 DEF Renewable
        <3>3. Go(c, call)
            BY <2>4
        <3> HIDE DEF call
        <3> QED
            BY <2>1, <3>1, <3>2, <3>3, GoStep DEF Call
    <2> QED
        BY <2>1, <2>3, <2>4
<1>6. CASE FindUser(c)
    <2>1. calls[c].at = "findUser" /\ UNCHANGED <<db, history>>
        BY <1>6 DEF FindUser
    <2>2. CASE Go(c, Idle)
        BY <1>idle, <2>1, <2>2
    <2>3. CASE ~Go(c, Idle)
        <3> DEFINE call == [calls[c] EXCEPT !.at = "rotate"]
        <3>1. Go(c, call)
            BY <1>6, <2>3 DEF FindUser
        <3>2. calls[c] \in Renewal
            BY <1>0, <2>1, CallShape
        <3>3. call \in Renewal /\ call.session = calls[c].session /\ call.seen = calls[c].seen
            BY <3>2 DEF Renewal
        <3>4. Renewable(calls[c])
            BY DEF IInv, Linked
        <3>5. Renewable(call)
            BY <2>1, <3>3, <3>4 DEF Renewable, Refreshing
        <3> HIDE DEF call
        <3> QED
            BY <2>1, <3>1, <3>3, <3>5, GoStep DEF Call
    <2> QED
        BY <2>2, <2>3
<1>7. ASSUME NEW s \in DOMAIN db.sessions, Logout(c, s) PROVE IInv' /\ StaysEnded
    <2> DEFINE call == [at |-> "revoke", session |-> s]
    <2>1. call \in Call /\ Renewable(call)
        BY <1>0, TablesTyped DEF Call, Revoking, Renewable, Refreshing
    <2>2. Go(c, call) /\ calls[c].at # "endAll" /\ UNCHANGED <<db, history>>
        BY <1>7 DEF Logout
    <2> HIDE DEF call
    <2> QED
        BY <2>1, <2>2, GoStep
<1>8. CASE UpdatePassword(c)
    <2>1. PICK call : /\ Go(c, call) /\ call.at = "change"
                      /\ call \in Changing
        <3>1. PICK invalidate \in BOOLEAN :
                 Go(c, [at |-> "change", seen |-> db.credential.version, invalidate |-> invalidate, reset |-> 0])
            BY <1>8 DEF UpdatePassword
        <3> DEFINE call == [at |-> "change", seen |-> db.credential.version, invalidate |-> invalidate, reset |-> 0]
        <3>2. call \in Changing /\ call.at = "change" /\ Go(c, call)
            BY <1>0, <3>1 DEF Changing
        <3> QED
            BY <3>2
    <2>2. calls[c].at # "endAll" /\ UNCHANGED <<db, history>>
        BY <1>8 DEF UpdatePassword
    <2> QED
        BY <2>1, <2>2, GoStep DEF Call, Renewable, Refreshing
<1>9. CASE FindCredential(c)
    <2>1. calls[c].at = "findCredential" /\ UNCHANGED <<db, history>>
        BY <1>9 DEF FindCredential
    <2>2. CASE Go(c, Idle)
        BY <1>idle, <2>1, <2>2
    <2>3. CASE ~Go(c, Idle)
        <3> DEFINE call == [at |-> "change", seen |-> db.credential.version, invalidate |-> TRUE,
                            reset |-> calls[c].reset]
        <3>1. Go(c, call)
            BY <1>9, <2>3 DEF FindCredential
        <3>2. calls[c].reset \in Nat
            BY <1>0, <2>1, CallShape DEF Resetting
        <3>3. call \in Call /\ Renewable(call)
            BY <1>0, <3>2 DEF Call, Changing, Renewable, Refreshing
        <3> HIDE DEF call
        <3> QED
            BY <2>1, <3>1, <3>3, GoStep
    <2> QED
        BY <2>2, <2>3
<1>10. CASE CodeUser(c)
    <2>1. calls[c].at = "codeUser" /\ UNCHANGED <<db, history>>
        BY <1>10 DEF CodeUser
    <2>2. CASE Go(c, Idle)
        BY <1>idle, <2>1, <2>2
    <2>3. CASE ~Go(c, Idle)
        <3> DEFINE call == [calls[c] EXCEPT !.at = "codeCredential"]
        <3>1. Go(c, call)
            BY <1>10, <2>3 DEF CodeUser
        <3>2. calls[c] \in Exchanging
            BY <1>0, <2>1, CallShape
        <3>3. call \in Call /\ Renewable(call)
            BY <3>2 DEF Call, Exchanging, Renewable, Refreshing
        <3> HIDE DEF call
        <3> QED
            BY <2>1, <3>1, <3>3, GoStep
    <2> QED
        BY <2>2, <2>3
<1>11. CASE CodeCredential(c)
    <2>1. calls[c].at = "codeCredential" /\ UNCHANGED <<db, history>>
        BY <1>11 DEF CodeCredential
    <2>2. CASE Go(c, Idle)
        BY <1>idle, <2>1, <2>2
    <2>3. CASE ~Go(c, Idle)
        <3> DEFINE call == [at |-> "create", seen |-> db.credential.version, code |-> calls[c].code]
        <3>1. Go(c, call) /\ db.credential.version > 0
            BY <1>11, <2>3 DEF CodeCredential
        <3>2. calls[c].code \in Nat
            BY <1>0, <2>1, CallShape DEF Exchanging
        <3>3. call \in Call /\ Renewable(call)
            BY <1>0, <3>1, <3>2 DEF Call, Creating, Renewable, Refreshing
        <3> HIDE DEF call
        <3> QED
            BY <2>1, <3>1, <3>3, GoStep
    <2> QED
        BY <2>2, <2>3
<1> QED
    BY <1>1, <1>2, <1>3, <1>4, <1>5, <1>6, <1>7, <1>8, <1>9, <1>10, <1>11

LEMMA FlagTyped ==
    ASSUME NEW flags \in Seq(BOOLEAN), NEW k \in Nat
    PROVE  [flags EXCEPT ![k] = TRUE] \in Seq(BOOLEAN)
<1>1. CASE k \in 1..Len(flags)
    BY <1>1, ExceptSeq
<1>2. CASE k \notin 1..Len(flags)
    <2>1. [flags EXCEPT ![k] = TRUE] = flags
        BY <1>2, LenProperties
    <2> QED
        BY <2>1
<1> QED
    BY <1>1, <1>2

LEMMA UsesTyped ==
    ASSUME NEW uses \in Uses, NEW k
    PROVE  [uses EXCEPT ![k] = @ + 1] \in Uses
<1>1. CASE k \in {"code", "reset"} \X (1..MaxOthers)
    <2>1. uses[k] + 1 \in Nat
        BY <1>1 DEF Uses
    <2> QED
        BY <2>1 DEF Uses
<1>2. CASE k \notin {"code", "reset"} \X (1..MaxOthers)
    BY <1>2 DEF Uses
<1> QED
    BY <1>1, <1>2

\* Users, codes, reset tokens and what is remembered of their use.
LEMMA OtherTablesSteps ==
    ASSUME IInv, NEW c \in Slots,
           \/ InsertUser(c) \/ MarkCode(c) \/ RequestReset(c) \/ CreateReset(c) \/ MarkReset(c)
           \/ GenerateCode(c)
           \/ \E r \in DOMAIN db.resets : ConfirmReset(c, r)
           \/ \E k \in DOMAIN db.codes : Exchange(c, k)
    PROVE  IInv' /\ StaysEnded
<1> USE DEF Arrive, Waits, Return
<1>0. /\ Typed /\ calls[c] \in Call /\ Idle \in Call /\ ~Refreshing(Idle)
      /\ db \in Tables /\ history \in History
      /\ db.codes \in Seq(BOOLEAN) /\ db.resets \in Seq(BOOLEAN)
      /\ calls \in [Slots -> Call]
    BY DEF IInv, Typed, Tables, Call, Plain, Idle, Refreshing
<1>1. CASE InsertUser(c)
    <2>1. calls[c].at # "endAll" /\ UNCHANGED history
        BY <1>1 DEF InsertUser
    <2>2. PICK call \in Call : Go(c, call) /\ ~Refreshing(call) /\ db' \in {db, [db EXCEPT !.user = "active"]}
        <3>1. [at |-> "insertCredential"] \in Call /\ ~Refreshing([at |-> "insertCredential"])
            BY DEF Call, Plain, Refreshing
        <3> QED
            BY <1>0, <1>1, <3>1 DEF InsertUser
    <2>3. /\ db' \in Tables /\ db'.sessions = db.sessions /\ db'.tokens = db.tokens
          /\ db'.credential = db.credential
        BY <1>0, <2>2 DEF Tables
    <2> QED
        BY <1>0, <2>1, <2>2, <2>3, OtherTablesStep
<1>2. CASE MarkCode(c)
    <2>1. calls[c].at = "markCode" /\ UNCHANGED history
        BY <1>2 DEF MarkCode
    <2>2. calls[c] \in Exchanging /\ calls[c].code \in Nat
        BY <1>0, <2>1, CallShape DEF Exchanging
    <2>3. [db.codes EXCEPT ![calls[c].code] = TRUE] \in Seq(BOOLEAN)
        BY <1>0, <2>2, FlagTyped
    <2>4. db' = [db EXCEPT !.codes = [db.codes EXCEPT ![calls[c].code] = TRUE]]
        BY <1>2 DEF MarkCode
    <2>5. /\ db' \in Tables /\ db'.sessions = db.sessions /\ db'.tokens = db.tokens
          /\ db'.credential = db.credential
        BY <1>0, <2>3, <2>4 DEF Tables
    <2> DEFINE call == [calls[c] EXCEPT !.at = "codeUser"]
    <2>6. call \in Call /\ ~Refreshing(call)
        BY <2>2 DEF Call, Exchanging, Refreshing
    <2>7. Go(c, call)
        BY <1>2 DEF MarkCode
    <2> HIDE DEF call
    <2> QED
        BY <1>0, <2>1, <2>5, <2>6, <2>7, OtherTablesStep
<1>3. CASE RequestReset(c)
    <2>1. calls[c].at # "endAll" /\ UNCHANGED history /\ Go(c, [at |-> "createReset"])
        BY <1>3 DEF RequestReset
    <2>2. [r \in DOMAIN db.resets |-> TRUE] \in Seq(BOOLEAN)
        <3>1. DOMAIN db.resets = 1..Len(db.resets) /\ Len(db.resets) \in Nat
            BY <1>0, LenProperties
        <3> QED
            BY <3>1
    <2>3. db' = [db EXCEPT !.resets = [r \in DOMAIN db.resets |-> TRUE]]
        BY <1>3 DEF RequestReset
    <2>4. /\ db' \in Tables /\ db'.sessions = db.sessions /\ db'.tokens = db.tokens
          /\ db'.credential = db.credential
        BY <1>0, <2>2, <2>3 DEF Tables
    <2>5. [at |-> "createReset"] \in Call /\ ~Refreshing([at |-> "createReset"])
        BY DEF Call, Plain, Refreshing
    <2> QED
        BY <1>0, <2>1, <2>4, <2>5, OtherTablesStep
<1>4. CASE CreateReset(c)
    <2>1. calls[c].at # "endAll" /\ UNCHANGED history /\ Go(c, Idle)
        BY <1>4 DEF CreateReset
    <2>2. Append(db.resets, FALSE) \in Seq(BOOLEAN)
        BY <1>0, AppendProperties
    <2>3. db' = [db EXCEPT !.resets = Append(db.resets, FALSE)]
        BY <1>4 DEF CreateReset
    <2>4. /\ db' \in Tables /\ db'.sessions = db.sessions /\ db'.tokens = db.tokens
          /\ db'.credential = db.credential
        BY <1>0, <2>2, <2>3 DEF Tables
    <2> QED
        BY <1>0, <2>1, <2>4, OtherTablesStep
<1>5. CASE MarkReset(c)
    <2>1. calls[c].at = "markReset" /\ UNCHANGED history /\ Go(c, Idle)
        BY <1>5 DEF MarkReset
    <2>2. calls[c].reset \in Nat
        BY <1>0, <2>1, CallShape DEF Resetting
    <2>3. [db.resets EXCEPT ![calls[c].reset] = TRUE] \in Seq(BOOLEAN)
        BY <1>0, <2>2, FlagTyped
    <2>4. db' = [db EXCEPT !.resets = [db.resets EXCEPT ![calls[c].reset] = TRUE]]
        BY <1>5 DEF MarkReset
    <2>5. /\ db' \in Tables /\ db'.sessions = db.sessions /\ db'.tokens = db.tokens
          /\ db'.credential = db.credential
        BY <1>0, <2>3, <2>4 DEF Tables
    <2> QED
        BY <1>0, <2>1, <2>5, OtherTablesStep
<1>6. CASE GenerateCode(c)
    <2>1. /\ UNCHANGED <<calls, history>> /\ db' = [db EXCEPT !.codes = Append(db.codes, FALSE)]
        BY <1>6 DEF GenerateCode
    <2>2. Append(db.codes, FALSE) \in Seq(BOOLEAN)
        BY <1>0, AppendProperties
    <2>3. /\ db' \in Tables /\ db'.sessions = db.sessions /\ db'.tokens = db.tokens
          /\ db'.credential = db.credential
        BY <1>0, <2>1, <2>2 DEF Tables
    <2>4. Harmless
        BY <1>0, <2>1, <2>3 DEF Harmless, Typed
    <2> QED
        BY <2>4, HarmlessStep
<1>7. ASSUME NEW kind \in {"code", "reset"}, NEW k \in Nat, Contest(kind, k)
      PROVE  /\ history' \in History /\ history'.revived = history.revived
             /\ history'.overtaken = history.overtaken /\ history'.kept = history.kept
    <2>1. PICK new : /\ new \in {history.contested, history.contested \cup {<<kind, k>>}}
                     /\ history' = [history EXCEPT !.contested = new]
        BY <1>7 DEF Contest
    <2>2. new \subseteq {"code", "reset"} \X Nat
        BY <1>0, <2>1 DEF History
    <2> QED
        BY <1>0, <2>1, <2>2 DEF History
<1>8. ASSUME NEW r \in DOMAIN db.resets, ConfirmReset(c, r) PROVE IInv' /\ StaysEnded
    <2> DEFINE call == [at |-> "findCredential", reset |-> r]
    <2>1. r \in Nat
        BY <1>0, LenProperties
    <2>2. call \in Call /\ ~Refreshing(call)
        BY <2>1 DEF Call, Resetting, Refreshing
    <2>3. Go(c, call) /\ calls[c].at # "endAll" /\ UNCHANGED db /\ Contest("reset", r)
        BY <1>8 DEF ConfirmReset
    <2> HIDE DEF call
    <2> QED
        BY <1>0, <1>7, <2>1, <2>2, <2>3, OtherTablesStep
<1>9. ASSUME NEW k \in DOMAIN db.codes, Exchange(c, k) PROVE IInv' /\ StaysEnded
    <2> DEFINE call == [at |-> "markCode", code |-> k]
    <2>1. k \in Nat
        BY <1>0, LenProperties
    <2>2. call \in Call /\ ~Refreshing(call)
        BY <2>1 DEF Call, Exchanging, Refreshing
    <2>3. Go(c, call) /\ calls[c].at # "endAll" /\ UNCHANGED db /\ Contest("code", k)
        BY <1>9 DEF Exchange
    <2> HIDE DEF call
    <2> QED
        BY <1>0, <1>7, <2>1, <2>2, <2>3, OtherTablesStep
<1> QED
    BY <1>1, <1>2, <1>3, <1>4, <1>5, <1>6, <1>8, <1>9

\* Pruning, a single logout, a logout everywhere.
LEMMA RevokingSteps ==
    ASSUME IInv, NEW c \in Slots,
           \/ Prune(c) \/ RevokeOne(c)
           \/ \E except \in {{}} \cup {{s} : s \in DOMAIN db.sessions} : LogoutAll(c, except)
    PROVE  IInv' /\ StaysEnded
<1> USE DEF Waits, Return, Go
<1>0. /\ calls[c] \in Call /\ Idle \in Call /\ ~Refreshing(Idle) /\ calls \in [Slots -> Call]
    BY DEF IInv, Typed, Call, Plain, Idle, Refreshing
<1>1. CASE Prune(c)
    <2>1. calls[c].at = "prune" /\ UNCHANGED history
        BY <1>1 DEF Prune
    <2>2. PICK s \in calls[c].surplus :
              /\ db' = [db EXCEPT !.sessions = Revoke({s})]
              /\ \/ calls' = [calls EXCEPT ![c] = Idle]
                 \/ calls' = [calls EXCEPT ![c] = [calls[c] EXCEPT !.surplus = calls[c].surplus \ {s}]]
        BY <1>1 DEF Prune
    <2> DEFINE call == [calls[c] EXCEPT !.surplus = calls[c].surplus \ {s}]
    <2>3. call \in Call /\ ~Refreshing(call)
        <3>1. calls[c] \in Pruning
            BY <1>0, <2>1, CallShape
        <3> QED
            BY <3>1 DEF Call, Pruning, Refreshing
    <2>4. calls' = [calls EXCEPT ![c] = Idle] \/ calls' = [calls EXCEPT ![c] = call]
        BY <2>2
    <2> HIDE DEF call
    <2>5. /\ calls' \in [Slots -> Call]
          /\ \A d \in Slots : calls'[d] = calls[d] \/ (calls[d].at # "endAll" /\ ~Refreshing(calls'[d]))
        BY <1>0, <2>1, <2>3, <2>4
    <2>6. PICK ended : ended = {s}
        OBVIOUS
    <2>7. db' = [db EXCEPT !.sessions = Revoke(ended)]
        BY <2>2, <2>6
    <2> QED
        BY <2>1, <2>5, <2>7, RevokeStep
<1>2. CASE RevokeOne(c)
    <2>1. calls[c].at = "revoke" /\ UNCHANGED history /\ calls' = [calls EXCEPT ![c] = Idle]
        BY <1>2 DEF RevokeOne
    <2>2. PICK ended : db' = [db EXCEPT !.sessions = Revoke(ended)]
        BY <1>2 DEF RevokeOne
    <2>3. /\ calls' \in [Slots -> Call]
          /\ \A d \in Slots : calls'[d] = calls[d] \/ (calls[d].at # "endAll" /\ ~Refreshing(calls'[d]))
        BY <1>0, <2>1
    <2> QED
        BY <2>1, <2>2, <2>3, RevokeStep
<1>3. CASE \E except \in {{}} \cup {{s} : s \in DOMAIN db.sessions} : LogoutAll(c, except)
    <2>1. PICK ended : UNCHANGED <<calls, history>> /\ db' = [db EXCEPT !.sessions = Revoke(ended)]
        BY <1>3 DEF LogoutAll
    <2> QED
        BY <1>0, <2>1, RevokeStep
<1> QED
    BY <1>1, <1>2, <1>3

\* A suspension, and the expiry of a session.
LEMMA OutsideSteps ==
    ASSUME IInv,
           \/ \E status \in {"active", "suspended"} : SetStatus(status)
           \/ \E s \in DOMAIN db.sessions : Lapse(s)
    PROVE  IInv' /\ StaysEnded
<1>0. db \in Tables /\ Typed
    BY DEF IInv, Typed
<1>1. ASSUME NEW status \in {"active", "suspended"}, SetStatus(status) PROVE Harmless
    <2>1. db' = [db EXCEPT !.user = status] /\ UNCHANGED <<calls, history>>
        BY <1>1 DEF SetStatus
    <2>2. /\ db' \in Tables /\ db'.sessions = db.sessions /\ db'.tokens = db.tokens
          /\ db'.credential = db.credential
        BY <1>0, <2>1 DEF Tables
    <2> QED
        BY <1>0, <2>1, <2>2 DEF Harmless, Typed
<1>2. ASSUME NEW s \in DOMAIN db.sessions, Lapse(s) PROVE Harmless
    <2> DEFINE row == [db.sessions[s] EXCEPT !.lapsed = TRUE]
    <2>1. row \in Row /\ row.status = db.sessions[s].status /\ row.passwordVersion = db.sessions[s].passwordVersion
        BY <1>0, TablesTyped DEF Row
    <2>2. db' = [db EXCEPT !.sessions = [db.sessions EXCEPT ![s] = row]] /\ UNCHANGED <<calls, history>>
        BY <1>2 DEF Lapse
    <2> HIDE DEF row
    <2>3. /\ [db.sessions EXCEPT ![s] = row] \in Seq(Row)
          /\ Len([db.sessions EXCEPT ![s] = row]) = Len(db.sessions)
          /\ \A o \in DOMAIN db.sessions : [db.sessions EXCEPT ![s] = row][o] = IF o = s THEN row ELSE db.sessions[o]
        BY <1>0, <2>1, TablesTyped, ExceptSeq
    <2>4. /\ db' \in Tables /\ db'.sessions = [db.sessions EXCEPT ![s] = row] /\ db'.tokens = db.tokens
          /\ db'.credential = db.credential
        BY <1>0, <2>2, <2>3 DEF Tables
    <2> QED
        BY <1>0, <2>1, <2>2, <2>3, <2>4 DEF Harmless, Typed
<1> QED
    BY <1>1, <1>2, HarmlessStep

-----------------------------------------------------------------------------
(* The statements that create or revive sessions or change the credential   *)

\* A step that leaves every session and every token as it is.
LEMMA SessionsUntouched ==
    ASSUME IInv, NEW c \in Slots, NEW call \in Call, Go(c, call), ~Refreshing(call),
           db' \in Tables, db'.sessions = db.sessions, db'.tokens = db.tokens, history' \in History
    PROVE  Typed' /\ Linked' /\ StaysEnded
<1>1. calls' \in [Slots -> Call] /\ \A d \in Slots : calls'[d] = IF d = c THEN call ELSE calls[d]
    BY DEF IInv, Typed, Go
<1>2. \A d \in Slots : Renewable(calls[d])'
    BY <1>1 DEF IInv, Linked, Renewable, Refreshing
<1> QED
    BY <1>1, <1>2 DEF IInv, Typed, Linked, StaysEnded

\* The first version of the credential: no session has an older one.
LEMMA InsertCredentialStep == ASSUME IInv, NEW c \in Slots, InsertCredential(c) PROVE IInv' /\ StaysEnded
<1> USE DEF Waits, Return
<1>0. Typed /\ db \in Tables /\ history \in History /\ calls \in [Slots -> Call]
    BY DEF IInv, Typed
<1>1. PICK call \in Call : Go(c, call) /\ ~Refreshing(call)
    <2>1. Idle \in Call /\ ~Refreshing(Idle)
        BY DEF Call, Plain, Idle, Refreshing
    <2>2. [at |-> "create", seen |-> 1, code |-> 0] \in Call
          /\ ~Refreshing([at |-> "create", seen |-> 1, code |-> 0])
        BY DEF Call, Creating, Refreshing
    <2> QED
        BY <2>1, <2>2 DEF InsertCredential
<1>2. UNCHANGED history /\ db' = [db EXCEPT !.credential = [version |-> 1, password |-> 1], !.passwords = 1]
    BY DEF InsertCredential
<1>3. db' \in Tables /\ db'.sessions = db.sessions /\ db'.tokens = db.tokens /\ db'.credential.version = 1
    BY <1>0, <1>2 DEF Tables
<1>4. Typed' /\ Linked' /\ StaysEnded
    BY <1>0, <1>1, <1>2, <1>3, SessionsUntouched
<1>5. \A s \in DOMAIN db'.sessions : ~(db'.sessions[s].passwordVersion < 1)
    <2>1. \A s \in DOMAIN db.sessions : db.sessions[s].passwordVersion \in Nat \ {0}
        BY <1>0, TablesTyped DEF Row
    <2> QED
        BY <1>3, <2>1
<1>6. OldSessionsExplained'
    BY <1>3, <1>5 DEF OldSessionsExplained, Active
<1> QED
    BY <1>4, <1>6 DEF IInv

\* A password change ends the sessions next, or leaves them alone on request.
LEMMA ChangeStep == ASSUME IInv, NEW c \in Slots, Change(c) PROVE IInv' /\ StaysEnded
<1> USE DEF Waits, Return
<1>0. /\ Typed /\ db \in Tables /\ history \in History /\ calls \in [Slots -> Call]
      /\ calls[c].at = "change"
    BY DEF IInv, Typed, Change
<1>1. calls[c].seen \in Nat /\ calls[c].reset \in Nat /\ calls[c].invalidate \in BOOLEAN
    <2>1. calls[c] \in Changing
        BY <1>0, CallShape
    <2> QED
        BY <2>1 DEF Changing
<1>2. /\ db' = [db EXCEPT !.passwords = db.passwords + 1,
                          !.credential = [version |-> calls[c].seen + 1, password |-> db.passwords + 1]]
    BY DEF Change
<1>3. db' \in Tables /\ db'.sessions = db.sessions /\ db'.tokens = db.tokens
    <2>1. db.passwords + 1 \in Nat /\ calls[c].seen + 1 \in Nat
        BY <1>0, <1>1 DEF Tables
    <2> QED
        BY <1>0, <1>2, <2>1 DEF Tables
<1>4. PICK call \in Call :
          Go(c, call) /\ ~Refreshing(call) /\ (calls[c].invalidate => call.at = "endAll")
    <2>1. Idle \in Call /\ ~Refreshing(Idle)
        BY DEF Call, Plain, Idle, Refreshing
    <2> DEFINE call == [at |-> "endAll", reset |-> calls[c].reset]
    <2>2. call \in Call /\ ~Refreshing(call) /\ call.at = "endAll"
        BY <1>1 DEF Call, Resetting, Refreshing
    <2>3. IF calls[c].invalidate THEN Go(c, call) ELSE Go(c, Idle)
        BY DEF Change
    <2> HIDE DEF call
    <2> QED
        BY <2>1, <2>2, <2>3
<1>5. /\ history' \in History
      /\ ~calls[c].invalidate => DOMAIN db.sessions \subseteq history'.kept
    <2>1. DOMAIN db.sessions \subseteq Nat
        BY <1>0, TablesTyped
    <2>2. PICK kept, uses : /\ kept = IF calls[c].invalidate THEN history.kept ELSE history.kept \cup DOMAIN db.sessions
                            /\ uses = IF calls[c].reset = 0 THEN history.uses
                                      ELSE [history.uses EXCEPT ![<<"reset", calls[c].reset>>] = @ + 1]
                            /\ history' = [history EXCEPT !.kept = kept, !.uses = uses]
        BY DEF Change
    <2>3. kept \subseteq Nat /\ uses \in Uses
        BY <1>0, <2>1, <2>2, UsesTyped DEF History
    <2>4. history' \in History /\ history'.kept = kept
        BY <1>0, <2>2, <2>3 DEF History
    <2> QED
        BY <2>2, <2>4
<1>6. Typed' /\ Linked' /\ StaysEnded
    BY <1>0, <1>3, <1>4, <1>5, SessionsUntouched
<1>7. OldSessionsExplained'
    <2>1. CASE calls[c].invalidate
        <3>1. calls'[c].at = "endAll"
            BY <1>0, <1>4, <2>1 DEF Go
        <3> QED
            BY <3>1 DEF OldSessionsExplained
    <2>2. CASE ~calls[c].invalidate
        BY <1>3, <1>5, <2>2 DEF OldSessionsExplained, Active
    <2> QED
        BY <2>1, <2>2
<1> QED
    BY <1>6, <1>7 DEF IInv

\* After revokeAllForUser no session is active.
LEMMA EndAllStep == ASSUME IInv, NEW c \in Slots, EndAll(c) PROVE IInv' /\ StaysEnded
<1> USE DEF Waits, Return
<1>0. /\ Typed /\ db \in Tables /\ history \in History /\ calls \in [Slots -> Call]
      /\ calls[c].at = "endAll" /\ UNCHANGED history
    BY DEF IInv, Typed, EndAll
<1>1. PICK call \in Call : Go(c, call) /\ ~Refreshing(call)
    <2>1. Idle \in Call /\ ~Refreshing(Idle)
        BY DEF Call, Plain, Idle, Refreshing
    <2>2. calls[c].reset \in Nat
        BY <1>0, CallShape DEF Resetting
    <2> DEFINE call == [at |-> "markReset", reset |-> calls[c].reset]
    <2>3. call \in Call /\ ~Refreshing(call)
        BY <2>2 DEF Call, Resetting, Refreshing
    <2>4. Go(c, Idle) \/ Go(c, call)
        BY DEF EndAll
    <2> HIDE DEF call
    <2> QED
        BY <2>1, <2>3, <2>4
<1>2. PICK ended : ended = DOMAIN db.sessions /\ db' = [db EXCEPT !.sessions = Revoke(ended)]
    BY DEF EndAll
<1>3. /\ Revoke(ended) \in Seq(Row) /\ Len(Revoke(ended)) = Len(db.sessions)
      /\ \A s \in DOMAIN db.sessions : Revoke(ended)[s].status # "active"
    BY <1>0, <1>2, RevokeTyped
<1>4. db' \in Tables /\ db'.sessions = Revoke(ended) /\ db'.tokens = db.tokens
    <2> HIDE DEF Revoke
    <2> QED
        BY <1>0, <1>2, <1>3 DEF Tables
<1>5. calls' \in [Slots -> Call] /\ \A d \in Slots : calls'[d] = IF d = c THEN call ELSE calls[d]
    BY <1>0, <1>1 DEF Go
<1>6. /\ DOMAIN db'.sessions = DOMAIN db.sessions
      /\ \A s \in DOMAIN db.sessions : db'.sessions[s] \in Row /\ db'.sessions[s].status # "active"
    <2>1. db'.sessions \in Seq(Row) /\ DOMAIN db'.sessions = 1..Len(db'.sessions)
        BY <1>3, <1>4, LenProperties
    <2> QED
        BY <1>0, <1>3, <1>4, <2>1, TablesTyped, ElementOfSeq
<1>7. StaysEnded
    BY <1>6 DEF StaysEnded, Row
<1>8. Linked'
    <2>1. \A d \in Slots : Renewable(calls[d])'
        BY <1>1, <1>5, <1>6 DEF IInv, Linked, Renewable, Refreshing
    <2> QED
        BY <1>4, <1>6, <2>1 DEF IInv, Linked
<1>9. OldSessionsExplained'
    BY <1>6 DEF OldSessionsExplained, Active
<1> QED
    BY <1>0, <1>4, <1>5, <1>7, <1>8, <1>9 DEF IInv, Typed

\* A call that is cut short: a change that did not end the sessions has kept them.
LEMMA RejectStep == ASSUME IInv, NEW c \in Slots, Reject(c) PROVE IInv' /\ StaysEnded
<1> USE DEF Waits, Return
<1>0. /\ Typed /\ db \in Tables /\ history \in History /\ calls \in [Slots -> Call] /\ calls[c] \in Call
      /\ Idle \in Call /\ ~Refreshing(Idle) /\ Go(c, Idle) /\ UNCHANGED db
    BY DEF IInv, Typed, Reject, Call, Plain, Idle, Refreshing
<1>1. PICK unpruned, kept, contested :
          /\ unpruned = IF calls[c].at \in {"list", "prune"} THEN history.unpruned \cup {calls[c].own} ELSE history.unpruned
          /\ kept = IF calls[c].at = "endAll" THEN history.kept \cup DOMAIN db.sessions ELSE history.kept
          /\ contested = IF calls[c].at \in {"endAll", "markReset"}
                           THEN history.contested \cup {<<"reset", calls[c].reset>>} ELSE history.contested
          /\ history' = [history EXCEPT !.unpruned = unpruned, !.kept = kept, !.contested = contested]
    BY DEF Reject
<1>2. DOMAIN db.sessions \subseteq Nat
    BY <1>0, TablesTyped
<1>3. unpruned \subseteq Nat
    <2>1. calls[c].at \in {"list", "prune"} => calls[c].own \in Nat
        <3>1. calls[c].at = "list" => calls[c].own \in Nat
            BY <1>0, CallShape DEF Listing
        <3>2. calls[c].at = "prune" => calls[c].own \in Nat
            BY <1>0, CallShape DEF Pruning
        <3> QED
            BY <3>1, <3>2
    <2> QED
        BY <1>0, <1>1, <2>1 DEF History
<1>4. kept \subseteq Nat
    BY <1>0, <1>1, <1>2 DEF History
<1>5. contested \subseteq {"code", "reset"} \X Nat
    <2>1. calls[c].at \in {"endAll", "markReset"} => calls[c].reset \in Nat
        <3>1. calls[c].at \in {"endAll", "markReset"} => calls[c] \in Resetting
            BY <1>0, CallShape
        <3> QED
            BY <3>1 DEF Resetting
    <2> QED
        BY <1>0, <1>1, <2>1 DEF History
<1>6. /\ history' \in History /\ history'.kept = kept
      /\ history'.revived = history.revived /\ history'.overtaken = history.overtaken
    BY <1>0, <1>1, <1>3, <1>4, <1>5 DEF History
<1>7. CASE calls[c].at # "endAll"
    BY <1>0, <1>1, <1>6, <1>7, OtherTablesStep
<1>8. CASE calls[c].at = "endAll"
    <2>1. Typed' /\ Linked' /\ StaysEnded
        BY <1>0, <1>6, SessionsUntouched
    <2>2. OldSessionsExplained'
        BY <1>0, <1>1, <1>6, <1>8 DEF OldSessionsExplained, Active
    <2> QED
        BY <2>1, <2>2 DEF IInv
<1> QED
    BY <1>7, <1>8

\* A session carries the version its call had read: an older one is remembered.
LEMMA CreateStep == ASSUME IInv, NEW c \in Slots, CreateSession(c) PROVE IInv' /\ StaysEnded
<1> USE DEF Waits, Return
<1>0. /\ Typed /\ db \in Tables /\ history \in History /\ calls \in [Slots -> Call] /\ calls[c] \in Call
      /\ calls[c].at = "create"
    BY DEF IInv, Typed, CreateSession
<1> DEFINE n == Len(db.sessions) + 1
           m == Len(db.tokens) + 1
           seen == calls[c].seen
           code == calls[c].code
<1>1. seen \in Nat \ {0} /\ code \in Nat /\ n \in Nat /\ m \in Nat
    BY <1>0, CallShape, TablesTyped DEF Creating
<1>2. PICK row, token :
          /\ row = [token |-> m, version |-> 1, passwordVersion |-> seen,
                    status |-> "active", lapsed |-> FALSE, byCode |-> code # 0]
          /\ token = [session |-> n, version |-> 1, passwordVersion |-> seen]
          /\ db' = [db EXCEPT !.tokens = Append(db.tokens, token), !.sessions = Append(db.sessions, row)]
    BY DEF CreateSession
<1>3. row \in Row /\ token \in Issued /\ row.passwordVersion = seen /\ token.session = n
    BY <1>1, <1>2 DEF Row, Issued
<1>4. PICK call \in Call : Go(c, call) /\ ~Refreshing(call)
    <2>1. Idle \in Call /\ ~Refreshing(Idle)
        BY DEF Call, Plain, Idle, Refreshing
    <2>2. [at |-> "list", own |-> n] \in Call /\ ~Refreshing([at |-> "list", own |-> n])
        BY <1>1 DEF Call, Listing, Refreshing
    <2>3. Go(c, Idle) \/ Go(c, [at |-> "list", own |-> n])
        BY DEF CreateSession
    <2> QED
        BY <2>1, <2>2, <2>3
<1>5. /\ history' \in History /\ history'.revived = history.revived /\ history'.kept = history.kept
      /\ history.overtaken \subseteq history'.overtaken
      /\ seen # db.credential.version => n \in history'.overtaken
    <2>1. PICK overtaken, uses :
              /\ overtaken = IF seen # db.credential.version THEN history.overtaken \cup {n} ELSE history.overtaken
              /\ uses = IF code = 0 THEN history.uses ELSE [history.uses EXCEPT ![<<"code", code>>] = @ + 1]
              /\ history' = [history EXCEPT !.overtaken = overtaken, !.uses = uses]
        BY DEF CreateSession
    <2>2. overtaken \subseteq Nat /\ uses \in Uses
        BY <1>0, <1>1, <2>1, UsesTyped DEF History
    <2>3. /\ history' \in History /\ history'.overtaken = overtaken
          /\ history'.revived = history.revived /\ history'.kept = history.kept
        BY <1>0, <2>1, <2>2 DEF History
    <2> QED
        BY <2>1, <2>3
<1> HIDE DEF seen, code
<1>6. /\ Append(db.sessions, row) \in Seq(Row) /\ Append(db.tokens, token) \in Seq(Issued)
      /\ Len(Append(db.sessions, row)) = n /\ Len(Append(db.tokens, token)) = m
      /\ \A s \in DOMAIN db.sessions : Append(db.sessions, row)[s] = db.sessions[s]
      /\ Append(db.sessions, row)[n] = row
      /\ \A t \in DOMAIN db.tokens : Append(db.tokens, token)[t] = db.tokens[t]
      /\ Append(db.tokens, token)[m] = token
    BY <1>0, <1>3, TablesTyped, AppendProperties
<1>7. /\ db' \in Tables /\ db'.sessions = Append(db.sessions, row) /\ db'.tokens = Append(db.tokens, token)
      /\ db'.credential = db.credential
    <2>1. PICK sessions \in Seq(Row), tokens \in Seq(Issued) :
              sessions = Append(db.sessions, row) /\ tokens = Append(db.tokens, token)
        BY <1>6
    <2>2. db' = [db EXCEPT !.tokens = tokens, !.sessions = sessions]
        BY <1>2, <2>1
    <2>3. db' \in Tables /\ db'.sessions = sessions /\ db'.tokens = tokens /\ db'.credential = db.credential
        BY <1>0, <2>2 DEF Tables
    <2> QED
        BY <2>1, <2>3
<1>8. /\ DOMAIN db'.sessions = 1..n /\ DOMAIN db.sessions = 1..(n - 1)
      /\ DOMAIN db'.tokens = 1..m /\ DOMAIN db.tokens = 1..(m - 1)
    BY <1>0, <1>6, <1>7, TablesTyped, LenProperties
<1>9. calls' \in [Slots -> Call] /\ \A d \in Slots : calls'[d] = IF d = c THEN call ELSE calls[d]
    BY <1>0, <1>4 DEF Go
<1>10. StaysEnded
    BY <1>6, <1>7 DEF StaysEnded
<1>11. Linked'
    <2>1. \A t \in DOMAIN db'.tokens : db'.tokens[t].session \in DOMAIN db'.sessions
        <3> SUFFICES ASSUME NEW t \in 1..m PROVE db'.tokens[t].session \in 1..n
            BY <1>8
        <3>1. CASE t = m
            BY <1>1, <1>3, <1>6, <1>7, <3>1
        <3>2. CASE t # m
            <4>1. t \in DOMAIN db.tokens
                BY <1>1, <1>8, <3>2
            <4>2. db'.tokens[t] = db.tokens[t] /\ db.tokens[t].session \in 1..(n - 1)
                BY <1>6, <1>7, <1>8, <4>1 DEF IInv, Linked
            <4> QED
                BY <1>1, <4>2
        <3> QED
            BY <3>1, <3>2
    <2>2. DOMAIN db.sessions \subseteq DOMAIN db'.sessions
        BY <1>1, <1>8
    <2>3. \A d \in Slots : Renewable(calls[d])'
        BY <1>4, <1>9, <2>2 DEF IInv, Linked, Renewable, Refreshing
    <2> QED
        BY <2>1, <2>3 DEF Linked
<1>12. OldSessionsExplained'
    <2> SUFFICES ASSUME \A d \in Slots : calls'[d].at # "endAll",
                        NEW s \in DOMAIN db'.sessions, db'.sessions[s].status = "active",
                        db'.sessions[s].passwordVersion < db'.credential.version
                 PROVE  s \in history'.revived \cup history'.overtaken \cup history'.kept
        BY DEF OldSessionsExplained, Active
    <2>1. CASE s = n
        <3>1. seen < db.credential.version
            BY <1>3, <1>6, <1>7, <2>1
        <3>2. seen # db.credential.version
            BY <1>1, <1>0, <3>1, TablesTyped
        <3> QED
            BY <1>5, <2>1, <3>2
    <2>2. CASE s # n
        <3>1. s \in DOMAIN db.sessions
            BY <1>1, <1>8, <2>2
        <3>2. \A d \in Slots : calls[d].at # "endAll"
            BY <1>0, <1>9
        <3>3. s \in Active /\ db.sessions[s].passwordVersion < db.credential.version
            BY <1>6, <1>7, <3>1 DEF Active
        <3> QED
            BY <1>5, <3>2, <3>3 DEF IInv, OldSessionsExplained
    <2> QED
        BY <2>1, <2>2
<1> QED
    BY <1>5, <1>7, <1>9, <1>10, <1>11, <1>12 DEF IInv, Typed

\* replaceRefreshToken makes the session active whatever it is: it was when it was read.
LEMMA RotateStep == ASSUME IInv, NEW c \in Slots, Rotate(c) PROVE IInv' /\ StaysEnded
<1> USE DEF Waits, Return
<1>0. /\ Typed /\ db \in Tables /\ history \in History /\ calls \in [Slots -> Call] /\ calls[c] \in Call
      /\ calls[c].at = "rotate" /\ Idle \in Call /\ ~Refreshing(Idle) /\ Go(c, Idle)
    BY DEF IInv, Typed, Rotate, Call, Plain, Idle, Refreshing
<1> DEFINE r == calls[c].session
           m == Len(db.tokens) + 1
           seen == calls[c].seen
<1>1. /\ seen \in Row /\ seen.version \in Nat /\ seen.passwordVersion \in Nat /\ m \in Nat
      /\ r \in DOMAIN db.sessions /\ r \in Nat /\ seen.status = "active"
    <2>1. calls[c] \in Renewal
        BY <1>0, CallShape
    <2>2. seen \in Row /\ r \in Nat
        BY <2>1 DEF Renewal
    <2>3. r \in DOMAIN db.sessions /\ seen.status = "active"
        BY <1>0 DEF IInv, Linked, Renewable, Refreshing
    <2>4. seen.version \in Nat /\ seen.passwordVersion \in Nat
        BY <2>2 DEF Row
    <2> QED
        BY <1>0, <2>2, <2>3, <2>4, TablesTyped
<1> DEFINE row == [db.sessions[r] EXCEPT !.token = m, !.version = seen.version + 1,
                                         !.status = "active", !.lapsed = FALSE]
           token == [session |-> r, version |-> seen.version + 1, passwordVersion |-> seen.passwordVersion]
<1>2. db' = [db EXCEPT !.tokens = Append(db.tokens, token),
                       !.sessions = [db.sessions EXCEPT ![r] = row]]
    BY DEF Rotate
<1>3. /\ row \in Row /\ row.passwordVersion = db.sessions[r].passwordVersion
      /\ token \in Issued /\ token.session = r
    <2>1. db.sessions[r] \in Row /\ seen.version + 1 \in Nat
        BY <1>0, <1>1, TablesTyped
    <2>2. row \in Row /\ row.passwordVersion = db.sessions[r].passwordVersion
        BY <1>1, <2>1 DEF Row
    <2>3. token \in Issued /\ token.session = r
        BY <1>1, <2>1 DEF Issued
    <2> QED
        BY <2>2, <2>3
<1>4. Renewing(r)
    BY <1>0, <1>1 DEF Renewing
<1>5. /\ history' \in History /\ history'.overtaken = history.overtaken /\ history'.kept = history.kept
      /\ history.revived \subseteq history'.revived
      /\ r \notin Active => r \in history'.revived
    <2>1. PICK revived : /\ revived = IF r \in Active /\ ~db.sessions[r].lapsed THEN history.revived
                                      ELSE history.revived \cup {r}
                         /\ history' = [history EXCEPT !.revived = revived]
        BY DEF Rotate
    <2>2. revived \subseteq Nat
        BY <1>0, <1>1, <2>1 DEF History
    <2>3. /\ history' \in History /\ history'.revived = revived
          /\ history'.overtaken = history.overtaken /\ history'.kept = history.kept
        BY <1>0, <2>1, <2>2 DEF History
    <2> QED
        BY <2>1, <2>3
<1> HIDE DEF r, seen, row, token
<1>6. /\ [db.sessions EXCEPT ![r] = row] \in Seq(Row)
      /\ Len([db.sessions EXCEPT ![r] = row]) = Len(db.sessions)
      /\ \A s \in DOMAIN db.sessions : [db.sessions EXCEPT ![r] = row][s] = IF s = r THEN row ELSE db.sessions[s]
    BY <1>0, <1>1, <1>3, TablesTyped, ExceptSeq
<1>7. /\ Append(db.tokens, token) \in Seq(Issued) /\ Len(Append(db.tokens, token)) = m
      /\ \A t \in DOMAIN db.tokens : Append(db.tokens, token)[t] = db.tokens[t]
      /\ Append(db.tokens, token)[m] = token
    BY <1>0, <1>3, TablesTyped, AppendProperties
<1>8. /\ db' \in Tables /\ db'.sessions = [db.sessions EXCEPT ![r] = row]
      /\ db'.tokens = Append(db.tokens, token) /\ db'.credential = db.credential
    <2>1. PICK sessions \in Seq(Row), tokens \in Seq(Issued) :
              sessions = [db.sessions EXCEPT ![r] = row] /\ tokens = Append(db.tokens, token)
        BY <1>6, <1>7
    <2>2. db' = [db EXCEPT !.tokens = tokens, !.sessions = sessions]
        BY <1>2, <2>1
    <2>3. db' \in Tables /\ db'.sessions = sessions /\ db'.tokens = tokens /\ db'.credential = db.credential
        BY <1>0, <2>2 DEF Tables
    <2> QED
        BY <2>1, <2>3
<1>9. /\ DOMAIN db'.sessions = DOMAIN db.sessions
      /\ DOMAIN db'.tokens = 1..m /\ DOMAIN db.tokens = 1..(m - 1)
    BY <1>0, <1>6, <1>7, <1>8, TablesTyped, LenProperties
<1>10. calls' \in [Slots -> Call] /\ \A d \in Slots : calls'[d] = IF d = c THEN Idle ELSE calls[d]
    BY <1>0 DEF Go
<1>11. StaysEnded
    <2> SUFFICES ASSUME NEW s \in DOMAIN db.sessions, db.sessions[s].status = "revoked", ~Renewing(s)
                 PROVE  db'.sessions[s].status = "revoked"
        BY DEF StaysEnded
    <2>1. s # r
        BY <1>4
    <2> QED
        BY <1>6, <1>8, <2>1
<1>12. Linked'
    <2>1. \A t \in DOMAIN db'.tokens : db'.tokens[t].session \in DOMAIN db'.sessions
        <3> SUFFICES ASSUME NEW t \in 1..m PROVE db'.tokens[t].session \in DOMAIN db.sessions
            BY <1>9
        <3>1. CASE t = m
            BY <1>1, <1>3, <1>7, <1>8, <3>1
        <3>2. CASE t # m
            <4>1. t \in DOMAIN db.tokens
                BY <1>1, <1>9, <3>2
            <4> QED
                BY <1>7, <1>8, <4>1 DEF IInv, Linked
        <3> QED
            BY <3>1, <3>2
    <2>2. \A d \in Slots : Renewable(calls[d])'
        BY <1>0, <1>9, <1>10 DEF IInv, Linked, Renewable, Refreshing
    <2> QED
        BY <2>1, <2>2 DEF Linked
<1>13. OldSessionsExplained'
    <2> SUFFICES ASSUME \A d \in Slots : calls'[d].at # "endAll",
                        NEW s \in DOMAIN db.sessions, db'.sessions[s].status = "active",
                        db'.sessions[s].passwordVersion < db'.credential.version
                 PROVE  s \in history'.revived \cup history'.overtaken \cup history'.kept
        BY <1>9 DEF OldSessionsExplained, Active
    <2>1. \A d \in Slots : calls[d].at # "endAll"
        BY <1>0, <1>10
    <2>2. CASE s \in Active
        <3>1. db.sessions[s].passwordVersion < db.credential.version
            BY <1>3, <1>6, <1>8
        <3> QED
            BY <1>5, <2>1, <2>2, <3>1 DEF IInv, OldSessionsExplained
    <2>3. CASE s \notin Active
        <3>1. s = r
            BY <1>6, <1>8, <2>3 DEF Active
        <3> QED
            BY <1>5, <2>3, <3>1
    <2> QED
        BY <2>2, <2>3
<1> QED
    BY <1>5, <1>8, <1>10, <1>11, <1>12, <1>13 DEF IInv, Typed

-----------------------------------------------------------------------------
(* The theorems about sessions that ended and that are old                  *)

LEMMA InitIInv == Init => IInv
<1> SUFFICES ASSUME Init PROVE IInv
    OBVIOUS
<1>1. /\ <<>> \in Seq(Row) /\ <<>> \in Seq(Issued) /\ <<>> \in Seq(BOOLEAN)
    BY EmptySeq
<1>2. db \in Tables /\ db.sessions = <<>> /\ db.tokens = <<>>
    BY <1>1 DEF Init, Tables
<1>3. history \in History
    <2>1. [k \in {"code", "reset"} \X (1..MaxOthers) |-> 0] \in Uses
        BY DEF Uses
    <2> QED
        BY <2>1 DEF Init, Remember, History
<1>4. calls \in [Slots -> Call] /\ \A c \in Slots : ~Refreshing(calls[c])
    <2>1. Idle \in Call /\ ~Refreshing(Idle)
        BY DEF Call, Plain, Idle, Refreshing
    <2> QED
        BY <2>1 DEF Init
<1>5. DOMAIN db.sessions = {} /\ DOMAIN db.tokens = {}
    BY <1>2
<1> QED
    BY <1>2, <1>3, <1>4, <1>5 DEF IInv, Typed, Linked, Renewable, OldSessionsExplained, Active

LEMMA NextIInv == IInv /\ [Next]_vars => IInv' /\ (StaysEnded \/ UNCHANGED vars)
<1> SUFFICES ASSUME IInv, [Next]_vars PROVE IInv' /\ (StaysEnded \/ UNCHANGED vars)
    OBVIOUS
<1>1. ASSUME NEW c \in Slots,
             \/ Register(c) \/ Login(c) \/ Verify(c) \/ List(c)
             \/ \E t \in DOMAIN db.tokens : Refresh(c, t)
             \/ FindUser(c)
             \/ \E s \in DOMAIN db.sessions : Logout(c, s)
             \/ UpdatePassword(c) \/ FindCredential(c) \/ CodeUser(c) \/ CodeCredential(c)
      PROVE  IInv' /\ StaysEnded
    BY <1>1, ReadingSteps
<1>2. ASSUME NEW c \in Slots,
             \/ InsertUser(c) \/ MarkCode(c) \/ RequestReset(c) \/ CreateReset(c) \/ MarkReset(c)
             \/ GenerateCode(c)
             \/ \E r \in DOMAIN db.resets : ConfirmReset(c, r)
             \/ \E k \in DOMAIN db.codes : Exchange(c, k)
      PROVE  IInv' /\ StaysEnded
    BY <1>2, OtherTablesSteps
<1>3. ASSUME NEW c \in Slots,
             \/ Prune(c) \/ RevokeOne(c)
             \/ \E except \in {{}} \cup {{s} : s \in DOMAIN db.sessions} : LogoutAll(c, except)
      PROVE  IInv' /\ StaysEnded
    BY <1>3, RevokingSteps
<1>4. ASSUME NEW c \in Slots,
             \/ InsertCredential(c) \/ CreateSession(c) \/ Rotate(c) \/ Change(c) \/ EndAll(c) \/ Reject(c)
      PROVE  IInv' /\ StaysEnded
    BY <1>4, InsertCredentialStep, CreateStep, RotateStep, ChangeStep, EndAllStep, RejectStep
<1>5. CASE \/ \E status \in {"active", "suspended"} : SetStatus(status)
           \/ \E s \in DOMAIN db.sessions : Lapse(s)
    BY <1>5, OutsideSteps
<1>6. CASE UNCHANGED vars
    BY <1>6 DEF vars, IInv, Typed, Linked, Renewable, Refreshing, OldSessionsExplained, Active
<1> QED
    BY <1>1, <1>2, <1>3, <1>4, <1>5, <1>6 DEF Next

\* After a password change that ends the sessions, every active session of an older password
\* comes from a credential read before, a refresh or a change that spared it.
THEOREM OldSessionsAccounted == Spec => []OldSessionsExplained
<1>1. IInv => OldSessionsExplained
    BY DEF IInv
<1>2. IInv /\ [Next]_vars => IInv'
    BY NextIInv
<1> QED
    BY <1>1, <1>2, InitIInv, PTL DEF Spec

\* A session that ended stays ended, whatever runs at once, unless a refresh read it before:
\* replaceRefreshToken is the only statement that makes a session active again.
THEOREM EndedForGood == Spec => EndedStaysEnded
<1>1. IInv /\ [Next]_vars
        => [\A s \in DOMAIN db.sessions :
               db.sessions[s].status = "revoked" /\ ~Renewing(s) => db'.sessions[s].status = "revoked"]_vars
    BY NextIInv DEF StaysEnded
<1>2. IInv /\ [Next]_vars => IInv'
    BY NextIInv
<1> QED
    BY <1>1, <1>2, InitIInv, PTL DEF Spec, EndedStaysEnded

-----------------------------------------------------------------------------
(* Codes and reset tokens                                                   *)

\* The tables of what is used once, and whether one of them has been marked as used.
Presented(kind) == IF kind = "code" THEN db.codes ELSE db.resets
Marked(kind, k) == k \in DOMAIN Presented(kind) /\ Presented(kind)[k]
Used(kind, k) == history.uses[<<kind, k>>]

\* A call found this code or reset token unused and still works with it.
Holds(call, kind, k) ==
    \/ /\ kind = "code" /\ call.at \in {"markCode", "codeUser", "codeCredential", "create"}
       /\ call.code = k
    \/ /\ kind = "reset" /\ call.at \in {"findCredential", "change", "endAll", "markReset"}
       /\ call.reset = k

\* It has yet to take effect; it was marked before that.
Before(call) == call.at \notin {"endAll", "markReset"}
Ahead(call) == call.at \in {"codeUser", "codeCredential", "create"}

\* One call holds it, which is about to use it, or did: then a code is marked and a reset
\* token is, or its call is about to mark it.
UsedOnce(kind, k) ==
    /\ \A c, d \in Slots : Holds(calls[c], kind, k) /\ Holds(calls[d], kind, k) => c = d
    /\ \A c \in Slots : Holds(calls[c], kind, k) =>
          /\ k \in DOMAIN Presented(kind)
          /\ Before(calls[c]) => Used(kind, k) = 0
          /\ Ahead(calls[c]) => Marked(kind, k)
    /\ Used(kind, k) \in {0, 1}
    /\ Used(kind, k) # 0 =>
          Marked(kind, k) \/ \E c \in Slots : Holds(calls[c], kind, k) /\ ~Before(calls[c])

\* A password that a reset token changes ends the sessions.
Invalidates(call) == call.at = "change" /\ call.reset # 0 => call.invalidate

UInv ==
    /\ \A kind \in {"code", "reset"}, k \in 1..MaxOthers :
          <<kind, k>> \notin history.contested => UsedOnce(kind, k)
    /\ \A c \in Slots : Invalidates(calls[c])

-----------------------------------------------------------------------------
(* The ways in which a statement of call c, which goes on as "call", treats  *)
(* a code or a reset token                                                   *)

Lets(c, call, kind, k) ==
    /\ ~Holds(call, kind, k) /\ Used(kind, k)' = Used(kind, k)
    /\ Holds(calls[c], kind, k) /\ ~Before(calls[c]) => Marked(kind, k)'

Carries(c, call, kind, k) ==
    /\ Holds(calls[c], kind, k) /\ Holds(call, kind, k) /\ Used(kind, k)' = Used(kind, k)
    /\ Before(call) <=> Before(calls[c])
    /\ Ahead(call) => Marked(kind, k)'

Takes(c, call, kind, k) ==
    /\ Holds(calls[c], kind, k) /\ Before(calls[c]) /\ Used(kind, k)' = Used(kind, k) + 1
    /\ \/ Holds(call, kind, k) /\ ~Before(call)
       \/ ~Holds(call, kind, k) /\ Marked(kind, k)'

Starts(c, call, kind, k) ==
    /\ Holds(call, kind, k) /\ Before(call) /\ ~Ahead(call) /\ Used(kind, k)' = Used(kind, k)
    /\ \A d \in Slots : ~Holds(calls[d], kind, k)
    /\ k \in DOMAIN Presented(kind) /\ ~Marked(kind, k)

Treats(c, call, kind, k) ==
    \/ Lets(c, call, kind, k) \/ Carries(c, call, kind, k)
    \/ Takes(c, call, kind, k) \/ Starts(c, call, kind, k)

\* No mark is taken back.
MarksStay(kind, k) ==
    /\ k \in DOMAIN Presented(kind) => k \in DOMAIN Presented(kind)'
    /\ Marked(kind, k) => Marked(kind, k)'

\* Each of them keeps the code or the token used at most once.
LEMMA TreatStep ==
    ASSUME NEW kind \in {"code", "reset"}, NEW k \in 1..MaxOthers, UsedOnce(kind, k),
           NEW c \in Slots, NEW call,
           \A d \in Slots : calls'[d] = IF d = c THEN call ELSE calls[d],
           MarksStay(kind, k), Treats(c, call, kind, k)
    PROVE  UsedOnce(kind, k)'
<1> DEFINE H(d) == Holds(calls[d], kind, k)
           N(d) == Holds(calls'[d], kind, k)
<1>1. /\ \A d, e \in Slots : H(d) /\ H(e) => d = e
      /\ \A d \in Slots : H(d) =>
            /\ k \in DOMAIN Presented(kind)
            /\ Before(calls[d]) => Used(kind, k) = 0
            /\ Ahead(calls[d]) => Marked(kind, k)
      /\ Used(kind, k) \in {0, 1}
      /\ Used(kind, k) # 0 => Marked(kind, k) \/ \E d \in Slots : H(d) /\ ~Before(calls[d])
    BY DEF UsedOnce
<1>2. SUFFICES /\ \A d, e \in Slots : N(d) /\ N(e) => d = e
               /\ \A d \in Slots : N(d) =>
                     /\ k \in DOMAIN Presented(kind)'
                     /\ Before(calls'[d]) => Used(kind, k)' = 0
                     /\ Ahead(calls'[d]) => Marked(kind, k)'
               /\ Used(kind, k)' \in {0, 1}
               /\ Used(kind, k)' # 0 => Marked(kind, k)' \/ \E d \in Slots : N(d) /\ ~Before(calls'[d])
    BY DEF UsedOnce, Holds, Before, Ahead
<1>3. /\ N(c) <=> Holds(call, kind, k)
      /\ calls'[c] = call
      /\ \A d \in Slots : d # c => calls'[d] = calls[d] /\ (N(d) <=> H(d))
    OBVIOUS
<1>4. /\ k \in DOMAIN Presented(kind) => k \in DOMAIN Presented(kind)'
      /\ Marked(kind, k) => Marked(kind, k)'
    BY DEF MarksStay
<1> HIDE DEF H, N
<1>5. CASE Lets(c, call, kind, k)
    <2>1. ~N(c) /\ Used(kind, k)' = Used(kind, k) /\ (H(c) /\ ~Before(calls[c]) => Marked(kind, k)')
        BY <1>3, <1>5 DEF Lets, H
    <2> QED
        BY <1>1, <1>3, <1>4, <2>1
<1>6. CASE Carries(c, call, kind, k)
    <2>1. /\ N(c) /\ H(c) /\ Used(kind, k)' = Used(kind, k)
          /\ Before(call) <=> Before(calls[c])
          /\ Ahead(call) => Marked(kind, k)'
        BY <1>3, <1>6 DEF Carries, H
    <2> QED
        BY <1>1, <1>3, <1>4, <2>1
<1>7. CASE Takes(c, call, kind, k)
    <2>1. /\ H(c) /\ Before(calls[c]) /\ Used(kind, k)' = Used(kind, k) + 1
          /\ (N(c) /\ ~Before(call)) \/ (~N(c) /\ Marked(kind, k)')
        BY <1>3, <1>7 DEF Takes, H
    <2>2. Used(kind, k)' = 1
        BY <1>1, <2>1
    <2>3. ~Before(call) => ~Ahead(call)
        BY DEF Before, Ahead
    <2>4. \A d \in Slots : d # c => ~H(d)
        BY <1>1, <2>1
    <2> QED
        BY <1>1, <1>3, <1>4, <2>1, <2>2, <2>3, <2>4
<1>8. CASE Starts(c, call, kind, k)
    <2>1. /\ N(c) /\ Before(call) /\ ~Ahead(call) /\ Used(kind, k)' = Used(kind, k)
          /\ \A d \in Slots : ~H(d)
          /\ k \in DOMAIN Presented(kind) /\ ~Marked(kind, k)
        BY <1>3, <1>8 DEF Starts, H
    <2>2. Used(kind, k) = 0
        BY <1>1, <2>1
    <2> QED
        BY <1>1, <1>3, <1>4, <2>1, <2>2
<1> QED
    BY <1>5, <1>6, <1>7, <1>8 DEF Treats

\* A step of one call.
LEMMA CallUses ==
    ASSUME IInv, UInv, NEW c \in Slots, NEW call, Go(c, call), Invalidates(call),
           history.contested \subseteq history'.contested,
           \A kind \in {"code", "reset"}, k \in 1..MaxOthers :
               <<kind, k>> \notin history'.contested =>
                   MarksStay(kind, k) /\ Treats(c, call, kind, k)
    PROVE  UInv'
<1>1. \A d \in Slots : calls'[d] = IF d = c THEN call ELSE calls[d]
    BY DEF IInv, Typed, Go
<1>2. ASSUME NEW kind \in {"code", "reset"}, NEW k \in 1..MaxOthers, <<kind, k>> \notin history'.contested
      PROVE  UsedOnce(kind, k)'
    <2>1. UsedOnce(kind, k) /\ MarksStay(kind, k) /\ Treats(c, call, kind, k)
        BY <1>2 DEF UInv
    <2> QED
        BY <1>1, <2>1, TreatStep
<1>3. \A d \in Slots : Invalidates(calls'[d])
    BY <1>1 DEF UInv
<1> QED
    BY <1>2, <1>3 DEF UInv, Invalidates

\* A call that works with no code and no reset token.
Quiet(call) ==
    /\ call.at \notin {"markCode", "codeUser", "codeCredential", "findCredential", "endAll", "markReset"}
    /\ call.at = "create" => call.code = 0
    /\ call.at = "change" => call.reset = 0

LEMMA QuietUses ==
    ASSUME IInv, UInv, NEW c \in Slots, NEW call, Go(c, call), Quiet(call), Quiet(calls[c]),
           history'.contested = history.contested, history'.uses = history.uses,
           \A kind \in {"code", "reset"}, k \in 1..MaxOthers : MarksStay(kind, k)
    PROVE  UInv'
<1>1. \A kind \in {"code", "reset"}, k \in 1..MaxOthers :
          /\ ~Holds(call, kind, k) /\ ~Holds(calls[c], kind, k)
          /\ Used(kind, k)' = Used(kind, k)
    BY DEF Quiet, Holds, Used
<1>2. \A kind \in {"code", "reset"}, k \in 1..MaxOthers : Treats(c, call, kind, k)
    BY <1>1 DEF Treats, Lets
<1>3. Invalidates(call)
    BY DEF Quiet, Invalidates
<1> QED
    BY <1>2, <1>3, CallUses

\* Nothing is marked or added.
LEMMA SameMarks ==
    ASSUME db'.codes = db.codes, db'.resets = db.resets
    PROVE  \A kind \in {"code", "reset"}, k \in 1..MaxOthers :
               MarksStay(kind, k) /\ (Marked(kind, k)' <=> Marked(kind, k))
BY DEF MarksStay, Marked, Presented

\* Steps that only grow a table of codes or tokens, or mark in it.
LEMMA GrownMarks ==
    ASSUME IInv,
           \/ db'.codes = db.codes /\ db'.resets = [r \in DOMAIN db.resets |-> TRUE]
           \/ db'.codes = db.codes /\ db'.resets = Append(db.resets, FALSE)
           \/ db'.resets = db.resets /\ db'.codes = Append(db.codes, FALSE)
    PROVE  \A kind \in {"code", "reset"}, k \in 1..MaxOthers : MarksStay(kind, k)
<1>1. db.codes \in Seq(BOOLEAN) /\ db.resets \in Seq(BOOLEAN)
    BY DEF IInv, Typed, Tables
<1>2. \A flags \in Seq(BOOLEAN) :
          /\ DOMAIN flags = 1..Len(flags) /\ Len(flags) \in Nat
          /\ DOMAIN Append(flags, FALSE) = 1..(Len(flags) + 1)
          /\ \A k \in 1..Len(flags) : Append(flags, FALSE)[k] = flags[k]
    BY LenProperties, AppendProperties
<1>3. ASSUME NEW old \in Seq(BOOLEAN), NEW new,
             new = old \/ new = [r \in DOMAIN old |-> TRUE] \/ new = Append(old, FALSE),
             NEW k
      PROVE  /\ k \in DOMAIN old => k \in DOMAIN new
             /\ k \in DOMAIN old /\ old[k] => k \in DOMAIN new /\ new[k]
    <2>1. CASE new = old
        BY <2>1
    <2>2. CASE new = [r \in DOMAIN old |-> TRUE]
        BY <2>2
    <2>3. CASE new = Append(old, FALSE)
        BY <1>2, <2>3
    <2> QED
        BY <1>3, <2>1, <2>2, <2>3
<1>4. \A k : /\ k \in DOMAIN db.codes => k \in DOMAIN db'.codes
             /\ k \in DOMAIN db.codes /\ db.codes[k] => k \in DOMAIN db'.codes /\ db'.codes[k]
    BY <1>1, <1>3
<1>5. \A k : /\ k \in DOMAIN db.resets => k \in DOMAIN db'.resets
             /\ k \in DOMAIN db.resets /\ db.resets[k] => k \in DOMAIN db'.resets /\ db'.resets[k]
    BY <1>1, <1>3
<1> QED
    BY <1>4, <1>5 DEF MarksStay, Marked, Presented

\* The statements that have to do with neither codes nor reset tokens.
LEMMA QuietSteps ==
    ASSUME IInv, UInv, NEW c \in Slots,
           \/ Register(c) \/ InsertUser(c) \/ InsertCredential(c) \/ Login(c) \/ Verify(c)
           \/ List(c) \/ Prune(c) \/ (\E t \in DOMAIN db.tokens : Refresh(c, t))
           \/ FindUser(c) \/ Rotate(c) \/ (\E s \in DOMAIN db.sessions : Logout(c, s))
           \/ RevokeOne(c) \/ UpdatePassword(c) \/ RequestReset(c) \/ CreateReset(c)
    PROVE  UInv'
<1> DEFINE QuietGo == \E call : Go(c, call) /\ Quiet(call)
           Kept == history'.contested = history.contested /\ history'.uses = history.uses
           SameFlags == db'.codes = db.codes /\ db'.resets = db.resets
<1>1. QuietGo /\ Quiet(calls[c]) /\ Kept
    <2>0. Quiet(Idle)
        BY DEF Quiet, Idle
    <2>1. CASE Register(c)
        <3>1. Go(c, [at |-> "insertUser"]) /\ calls[c].at = "idle" /\ Kept
            BY <2>1 DEF Register, Arrive
        <3> QED
            BY <3>1 DEF Quiet
    <2>2. CASE InsertUser(c)
        <3>1. /\ Go(c, [at |-> "insertCredential"]) \/ Go(c, Idle)
              /\ calls[c].at = "insertUser" /\ Kept
            BY <2>2 DEF InsertUser, Waits, Return
        <3>2. Quiet([at |-> "insertCredential"])
            BY DEF Quiet
        <3>3. Quiet(calls[c])
            BY <3>1 DEF Quiet
        <3> QED
            BY <2>0, <3>1, <3>2, <3>3
    <2>3. CASE InsertCredential(c)
        <3>1. /\ Go(c, [at |-> "create", seen |-> 1, code |-> 0]) \/ Go(c, Idle)
              /\ calls[c].at = "insertCredential" /\ Kept
            BY <2>3 DEF InsertCredential, Waits, Return
        <3>2. Quiet([at |-> "create", seen |-> 1, code |-> 0])
            BY DEF Quiet
        <3>3. Quiet(calls[c])
            BY <3>1 DEF Quiet
        <3> QED
            BY <2>0, <3>1, <3>2, <3>3
    <2>4. CASE Login(c)
        <3>1. PICK p : Go(c, [at |-> "verify", password |-> p]) /\ calls[c].at = "idle" /\ Kept
            BY <2>4 DEF Login, Arrive
        <3>2. Quiet([at |-> "verify", password |-> p]) /\ Quiet(calls[c])
            BY <3>1 DEF Quiet
        <3> QED
            BY <3>1, <3>2
    <2>5. CASE Verify(c)
        <3>1. /\ Go(c, [at |-> "create", seen |-> db.credential.version, code |-> 0]) \/ Go(c, Idle)
              /\ calls[c].at = "verify" /\ Kept
            BY <2>5 DEF Verify, Waits, Return
        <3>2. Quiet([at |-> "create", seen |-> db.credential.version, code |-> 0])
            BY DEF Quiet
        <3>3. Quiet(calls[c])
            BY <3>1 DEF Quiet
        <3> QED
            BY <2>0, <3>1, <3>2, <3>3
    <2>6. CASE List(c)
        <3> DEFINE next == [at |-> "prune", own |-> calls[c].own, surplus |-> Surplus(calls[c].own, MaxPerUser)]
        <3>1. (Go(c, next) \/ Go(c, Idle)) /\ calls[c].at = "list" /\ Kept
            BY <2>6 DEF List, Waits, Return
        <3>2. Quiet(next)
            BY DEF Quiet
        <3>3. Quiet(calls[c])
            BY <3>1 DEF Quiet
        <3> QED
            BY <2>0, <3>1, <3>2, <3>3
    <2>7. CASE Prune(c)
        <3>1. PICK s : /\ Go(c, [calls[c] EXCEPT !.surplus = @ \ {s}]) \/ Go(c, Idle)
                       /\ calls[c].at = "prune" /\ Kept
            BY <2>7 DEF Prune, Waits, Return
        <3>2. calls[c] \in Pruning
            BY <3>1, CallShape DEF IInv, Typed
        <3>3. [calls[c] EXCEPT !.surplus = @ \ {s}].at = "prune"
            BY <3>2 DEF Pruning
        <3>4. Quiet([calls[c] EXCEPT !.surplus = @ \ {s}]) /\ Quiet(calls[c])
            BY <3>1, <3>3 DEF Quiet
        <3> QED
            BY <2>0, <3>1, <3>4
    <2>8. ASSUME NEW t \in DOMAIN db.tokens, Refresh(c, t) PROVE QuietGo /\ Quiet(calls[c]) /\ Kept
        <3> DEFINE revoke == [at |-> "revoke", session |-> db.tokens[t].session]
                   find == [at |-> "findUser", session |-> db.tokens[t].session,
                            seen |-> db.sessions[db.tokens[t].session]]
        <3>1. (Go(c, revoke) \/ Go(c, find)) /\ calls[c].at = "idle" /\ Kept
            BY <2>8 DEF Refresh, Arrive
        <3>2. Quiet(revoke) /\ Quiet(find)
            BY DEF Quiet
        <3>3. Quiet(calls[c])
            BY <3>1 DEF Quiet
        <3> QED
            BY <3>1, <3>2, <3>3
    <2>9. CASE FindUser(c)
        <3>1. (Go(c, [calls[c] EXCEPT !.at = "rotate"]) \/ Go(c, Idle)) /\ calls[c].at = "findUser" /\ Kept
            BY <2>9 DEF FindUser, Waits, Return
        <3>2. calls[c] \in Renewal
            BY <3>1, CallShape DEF IInv, Typed
        <3>3. [calls[c] EXCEPT !.at = "rotate"].at = "rotate"
            BY <3>2 DEF Renewal
        <3>4. Quiet([calls[c] EXCEPT !.at = "rotate"]) /\ Quiet(calls[c])
            BY <3>1, <3>3 DEF Quiet
        <3> QED
            BY <2>0, <3>1, <3>4
    <2>10. CASE Rotate(c)
        <3>1. Go(c, Idle) /\ calls[c].at = "rotate"
            BY <2>10 DEF Rotate, Waits, Return
        <3>2. Kept
            BY <2>10 DEF Rotate, IInv, Typed, History
        <3>3. Quiet(calls[c])
            BY <3>1 DEF Quiet
        <3> QED
            BY <2>0, <3>1, <3>2, <3>3
    <2>11. ASSUME NEW s \in DOMAIN db.sessions, Logout(c, s) PROVE QuietGo /\ Quiet(calls[c]) /\ Kept
        <3>1. Go(c, [at |-> "revoke", session |-> s]) /\ calls[c].at = "idle" /\ Kept
            BY <2>11 DEF Logout, Arrive
        <3>2. Quiet([at |-> "revoke", session |-> s]) /\ Quiet(calls[c])
            BY <3>1 DEF Quiet
        <3> QED
            BY <3>1, <3>2
    <2>12. CASE RevokeOne(c)
        <3>1. Go(c, Idle) /\ calls[c].at = "revoke" /\ Kept
            BY <2>12 DEF RevokeOne, Waits, Return
        <3>2. Quiet(calls[c])
            BY <3>1 DEF Quiet
        <3> QED
            BY <2>0, <3>1, <3>2
    <2>13. CASE UpdatePassword(c)
        <3>1. PICK i : /\ Go(c, [at |-> "change", seen |-> db.credential.version, invalidate |-> i, reset |-> 0])
                       /\ calls[c].at = "idle" /\ Kept
            BY <2>13 DEF UpdatePassword, Arrive
        <3>2. Quiet([at |-> "change", seen |-> db.credential.version, invalidate |-> i, reset |-> 0])
            BY DEF Quiet
        <3>3. Quiet(calls[c])
            BY <3>1 DEF Quiet
        <3> QED
            BY <3>1, <3>2, <3>3
    <2>14. CASE RequestReset(c)
        <3>1. Go(c, [at |-> "createReset"]) /\ calls[c].at = "idle" /\ Kept
            BY <2>14 DEF RequestReset, Arrive
        <3>2. Quiet([at |-> "createReset"]) /\ Quiet(calls[c])
            BY <3>1 DEF Quiet
        <3> QED
            BY <3>1, <3>2
    <2>15. CASE CreateReset(c)
        <3>1. Go(c, Idle) /\ calls[c].at = "createReset" /\ Kept
            BY <2>15 DEF CreateReset, Waits, Return
        <3>2. Quiet(calls[c])
            BY <3>1 DEF Quiet
        <3> QED
            BY <2>0, <3>1, <3>2
    <2> HIDE DEF QuietGo, Kept
    <2> QED
        BY <2>1, <2>2, <2>3, <2>4, <2>5, <2>6, <2>7, <2>8, <2>9, <2>10, <2>11, <2>12, <2>13, <2>14, <2>15
<1>2. \/ SameFlags
      \/ db'.codes = db.codes /\ db'.resets = [r \in DOMAIN db.resets |-> TRUE]
      \/ db'.codes = db.codes /\ db'.resets = Append(db.resets, FALSE)
    <2>1. db \in Tables
        BY DEF IInv, Typed
    <2>2. CASE RequestReset(c)
        BY <2>1, <2>2 DEF RequestReset, Tables
    <2>3. CASE CreateReset(c)
        BY <2>1, <2>3 DEF CreateReset, Tables
    <2>4. CASE InsertUser(c) \/ InsertCredential(c) \/ Prune(c) \/ Rotate(c) \/ RevokeOne(c)
        BY <2>1, <2>4 DEF InsertUser, InsertCredential, Prune, Rotate, RevokeOne, Tables
    <2>5. CASE \/ Register(c) \/ Login(c) \/ Verify(c) \/ List(c)
               \/ \E t \in DOMAIN db.tokens : Refresh(c, t)
               \/ FindUser(c) \/ \E s \in DOMAIN db.sessions : Logout(c, s)
               \/ UpdatePassword(c)
        BY <2>5 DEF Register, Login, Verify, List, Refresh, FindUser, Logout, UpdatePassword
    <2> QED
        BY <2>2, <2>3, <2>4, <2>5
<1>3. \A kind \in {"code", "reset"}, k \in 1..MaxOthers : MarksStay(kind, k)
    <2>1. CASE SameFlags
        BY <2>1, SameMarks
    <2>2. CASE ~SameFlags
        BY <1>2, <2>2, GrownMarks
    <2> QED
        BY <2>1, <2>2
<1>4. PICK call : Go(c, call) /\ Quiet(call)
    BY <1>1
<1> QED
    BY <1>1, <1>3, <1>4, QuietUses

\* What the tables and the counts of uses are made of.
LEMMA StateTyped ==
    ASSUME IInv
    PROVE  /\ db \in Tables /\ history \in History /\ calls \in [Slots -> Call]
           /\ history.uses \in [{"code", "reset"} \X (1..MaxOthers) -> Nat]
           /\ db.codes \in Seq(BOOLEAN) /\ db.resets \in Seq(BOOLEAN)
           /\ \A c \in Slots : calls[c] \in Call
BY DEF IInv, Typed, Tables, History, Uses

\* A use of one code or token leaves the counts of the others alone.
LEMMA CountsUse ==
    ASSUME IInv, NEW kind \in {"code", "reset"}, NEW j \in Nat,
           history'.uses = [history.uses EXCEPT ![<<kind, j>>] = @ + 1]
    PROVE  \A other \in {"code", "reset"}, k \in 1..MaxOthers :
               Used(other, k)' = IF other = kind /\ k = j THEN Used(other, k) + 1 ELSE Used(other, k)
BY StateTyped DEF Used

LEMMA CreateUses == ASSUME IInv, UInv, NEW c \in Slots, CreateSession(c) PROVE UInv'
<1> DEFINE j == calls[c].code
           s == Len(db.sessions) + 1
           listing == [at |-> "list", own |-> s]
           next == IF j = 0 THEN listing ELSE Idle
<1>1. /\ calls[c].at = "create" /\ calls[c] \in Creating /\ j \in Nat
      /\ Go(c, next)
    <2>1. calls[c].at = "create" /\ Go(c, next)
        BY DEF CreateSession, Waits, Return
    <2>2. calls[c] \in Creating
        BY <2>1, StateTyped, CallShape
    <2> QED
        BY <2>1, <2>2 DEF Creating
<1>2. db'.codes = db.codes /\ db'.resets = db.resets
    BY StateTyped DEF CreateSession, Tables
<1>3. /\ history'.contested = history.contested
      /\ history'.uses = IF j = 0 THEN history.uses ELSE [history.uses EXCEPT ![<<"code", j>>] = @ + 1]
    BY StateTyped DEF CreateSession, History
<1>4. Quiet(next) /\ Quiet(listing) /\ Quiet(Idle)
    BY DEF Quiet, Idle
<1>5. Invalidates(next) /\ \A kind \in {"code", "reset"}, k \in 1..MaxOthers : ~Holds(next, kind, k)
    BY <1>4 DEF Invalidates, Quiet, Holds
<1>6. ASSUME NEW kind \in {"code", "reset"}, NEW k \in 1..MaxOthers, <<kind, k>> \notin history'.contested
      PROVE  Treats(c, next, kind, k)
    <2>1. UsedOnce(kind, k)
        BY <1>3, <1>6 DEF UInv
    <2>2. CASE kind = "code" /\ k = j
        <3>1. j # 0 /\ Holds(calls[c], kind, k) /\ Before(calls[c]) /\ Ahead(calls[c])
            BY <1>1, <2>2 DEF Holds, Before, Ahead
        <3>2. Marked(kind, k)'
            BY <1>2, <2>1, <3>1, SameMarks DEF UsedOnce
        <3>3. Used(kind, k)' = Used(kind, k) + 1
            BY <1>1, <1>3, <2>2, <3>1, CountsUse
        <3> QED
            BY <1>5, <3>1, <3>2, <3>3 DEF Treats, Takes
    <2>3. CASE ~(kind = "code" /\ k = j)
        <3>1. ~Holds(calls[c], kind, k)
            BY <1>1, <2>3 DEF Holds
        <3>2. Used(kind, k)' = Used(kind, k)
            <4>1. CASE j = 0
                BY <1>3, <4>1 DEF Used
            <4>2. CASE j # 0
                BY <1>1, <1>3, <2>3, <4>2, CountsUse
            <4> QED
                BY <4>1, <4>2
        <3> QED
            BY <1>5, <3>1, <3>2 DEF Treats, Lets
    <2> QED
        BY <2>2, <2>3
<1> HIDE DEF next
<1> QED
    BY <1>1, <1>2, <1>3, <1>5, <1>6, SameMarks, CallUses

LEMMA ChangeUses == ASSUME IInv, UInv, NEW c \in Slots, Change(c) PROVE UInv'
<1> DEFINE j == calls[c].reset
           ending == [at |-> "endAll", reset |-> j]
           next == IF calls[c].invalidate THEN ending ELSE Idle
<1>1. /\ calls[c].at = "change" /\ calls[c] \in Changing /\ j \in Nat
      /\ Go(c, next) /\ (j # 0 => calls[c].invalidate)
    <2>1. calls[c].at = "change" /\ Go(c, next)
        BY DEF Change, Waits, Return
    <2>2. calls[c] \in Changing
        BY <2>1, StateTyped, CallShape
    <2>3. Invalidates(calls[c])
        BY DEF UInv
    <2> QED
        BY <2>1, <2>2, <2>3 DEF Changing, Invalidates
<1>2. db'.codes = db.codes /\ db'.resets = db.resets
    BY StateTyped DEF Change, Tables
<1>3. /\ history'.contested = history.contested
      /\ history'.uses = IF j = 0 THEN history.uses ELSE [history.uses EXCEPT ![<<"reset", j>>] = @ + 1]
    BY StateTyped DEF Change, History
<1>4. /\ Invalidates(next) /\ ~Ahead(next)
      /\ \A kind \in {"code", "reset"}, k \in 1..MaxOthers :
             Holds(next, kind, k) => kind = "reset" /\ k = j
      /\ j # 0 => ~Before(next) /\ Holds(next, "reset", j)
    BY <1>1 DEF Invalidates, Holds, Before, Ahead, Idle
<1>5. ASSUME NEW kind \in {"code", "reset"}, NEW k \in 1..MaxOthers, <<kind, k>> \notin history'.contested
      PROVE  Treats(c, next, kind, k)
    <2>2. CASE kind = "reset" /\ k = j
        <3>1. j # 0 /\ Holds(calls[c], kind, k) /\ Before(calls[c])
            BY <1>1, <2>2 DEF Holds, Before
        <3>3. Used(kind, k)' = Used(kind, k) + 1
            BY <1>1, <1>3, <2>2, <3>1, CountsUse
        <3> QED
            BY <1>4, <2>2, <3>1, <3>3 DEF Treats, Takes
    <2>3. CASE ~(kind = "reset" /\ k = j)
        <3>1. ~Holds(calls[c], kind, k)
            BY <1>1, <2>3 DEF Holds
        <3>2. Used(kind, k)' = Used(kind, k)
            <4>1. CASE j = 0
                BY <1>3, <4>1 DEF Used
            <4>2. CASE j # 0
                BY <1>1, <1>3, <2>3, <4>2, CountsUse
            <4> QED
                BY <4>1, <4>2
        <3> QED
            BY <1>4, <2>3, <3>1, <3>2 DEF Treats, Lets
    <2> QED
        BY <2>2, <2>3
<1> HIDE DEF next
<1> QED
    BY <1>1, <1>2, <1>3, <1>4, <1>5, SameMarks, CallUses

\* A statement of a call that holds k, after which it still does, or no longer.
LEMMA CarryUses ==
    ASSUME IInv, UInv, NEW c \in Slots, NEW own \in {"code", "reset"}, NEW j \in Nat,
           NEW call, Go(c, call) \/ Return(c),
           history'.contested = history.contested, history'.uses = history.uses,
           \A kind \in {"code", "reset"}, k \in 1..MaxOthers :
               /\ MarksStay(kind, k)
               /\ Holds(calls[c], kind, k) <=> kind = own /\ k = j
               /\ Holds(call, kind, k) <=> kind = own /\ k = j,
           Before(call) <=> Before(calls[c]),
           j # 0 /\ j \in 1..MaxOthers =>
               /\ Ahead(call) => Marked(own, j)' \/ Ahead(calls[c])
               /\ Go(c, call) \/ Before(calls[c]),
           Invalidates(call)
    PROVE  UInv'
<1>1. ~Ahead(Idle) /\ Invalidates(Idle)
      /\ \A kind \in {"code", "reset"}, k \in 1..MaxOthers : ~Holds(Idle, kind, k)
    BY DEF Idle, Ahead, Holds, Invalidates
<1>2. \A kind \in {"code", "reset"}, k \in 1..MaxOthers : Used(kind, k)' = Used(kind, k)
    BY DEF Used
<1>3. CASE Go(c, call)
    <2>1. ASSUME NEW kind \in {"code", "reset"}, NEW k \in 1..MaxOthers, <<kind, k>> \notin history'.contested
          PROVE  Treats(c, call, kind, k)
        <3>1. UsedOnce(kind, k)
            BY <2>1 DEF UInv
        <3>2. CASE kind = own /\ k = j
            <4>1. Holds(calls[c], kind, k) /\ Holds(call, kind, k)
                BY <3>2
            <4>2. Ahead(call) => Marked(kind, k)'
                <5>1. Ahead(calls[c]) => Marked(kind, k)
                    BY <3>1, <4>1 DEF UsedOnce
                <5>2. Marked(kind, k) => Marked(kind, k)'
                    BY DEF MarksStay
                <5>3. j # 0 /\ j \in 1..MaxOthers
                    BY <3>2
                <5> QED
                    BY <3>2, <5>1, <5>2, <5>3
            <4> QED
                BY <1>2, <4>1, <4>2 DEF Treats, Carries
        <3>3. CASE ~(kind = own /\ k = j)
            <4>1. ~Holds(calls[c], kind, k) /\ ~Holds(call, kind, k)
                BY <3>3
            <4> QED
                BY <1>2, <4>1 DEF Treats, Lets
        <3> QED
            BY <3>2, <3>3
    <2> QED
        BY <1>3, <2>1, CallUses
<1>4. CASE ~Go(c, call)
    <2>1. Go(c, Idle)
        BY <1>4 DEF Return
    <2>2. ASSUME NEW kind \in {"code", "reset"}, NEW k \in 1..MaxOthers, <<kind, k>> \notin history'.contested
          PROVE  Treats(c, Idle, kind, k)
        <3>1. Holds(calls[c], kind, k) => Before(calls[c])
            BY <1>4
        <3> QED
            BY <1>1, <1>2, <3>1 DEF Treats, Lets
    <2> QED
        BY <1>1, <2>1, <2>2, CallUses
<1> QED
    BY <1>3, <1>4

LEMMA CarryingSteps ==
    ASSUME IInv, UInv, NEW c \in Slots,
           FindCredential(c) \/ EndAll(c) \/ MarkCode(c) \/ CodeUser(c) \/ CodeCredential(c)
    PROVE  UInv'
<1>1. history' = history
    BY DEF FindCredential, EndAll, MarkCode, CodeUser, CodeCredential
<1>2. CASE FindCredential(c)
    <2> DEFINE j == calls[c].reset
               next == [at |-> "change", seen |-> db.credential.version, invalidate |-> TRUE, reset |-> j]
    <2>1. calls[c].at = "findCredential" /\ db' = db /\ (Go(c, next) \/ Return(c))
        BY <1>2 DEF FindCredential, Waits
    <2>2. j \in Nat
        BY <2>1, StateTyped, CallShape DEF Resetting
    <2>3. \A kind \in {"code", "reset"}, k \in 1..MaxOthers :
              /\ Holds(calls[c], kind, k) <=> kind = "reset" /\ k = j
              /\ Holds(next, kind, k) <=> kind = "reset" /\ k = j
        BY <2>1 DEF Holds
    <2>4. Before(next) /\ Before(calls[c]) /\ ~Ahead(next) /\ Invalidates(next)
        BY <2>1 DEF Before, Ahead, Invalidates
    <2>5. \A kind \in {"code", "reset"}, k \in 1..MaxOthers : MarksStay(kind, k)
        BY <2>1, SameMarks
    <2> HIDE DEF next, j
    <2> QED
        BY <1>1, <2>1, <2>2, <2>3, <2>4, <2>5, CarryUses
<1>3. CASE EndAll(c)
    <2> DEFINE j == calls[c].reset
               next == [at |-> "markReset", reset |-> j]
    <2>1. calls[c].at = "endAll" /\ (IF j = 0 THEN Return(c) ELSE Go(c, next))
        BY <1>3 DEF EndAll, Waits
    <2>2. j \in Nat
        BY <2>1, StateTyped, CallShape DEF Resetting
    <2>3. \A kind \in {"code", "reset"}, k \in 1..MaxOthers :
              /\ Holds(calls[c], kind, k) <=> kind = "reset" /\ k = j
              /\ Holds(next, kind, k) <=> kind = "reset" /\ k = j
        BY <2>1 DEF Holds
    <2>4. ~Before(next) /\ ~Before(calls[c]) /\ ~Ahead(next) /\ Invalidates(next)
        BY <2>1 DEF Before, Ahead, Invalidates
    <2>5. \A kind \in {"code", "reset"}, k \in 1..MaxOthers : MarksStay(kind, k)
        <3>1. db'.codes = db.codes /\ db'.resets = db.resets
            BY <1>3, StateTyped DEF EndAll, Tables
        <3> QED
            BY <3>1, SameMarks
    <2> HIDE DEF next, j
    <2> QED
        BY <1>1, <2>1, <2>2, <2>3, <2>4, <2>5, CarryUses
<1>4. CASE MarkCode(c)
    <2>0. PICK j : j = calls[c].code
        OBVIOUS
    <2> DEFINE next == [calls[c] EXCEPT !.at = "codeUser"]
    <2>1. calls[c].at = "markCode" /\ Go(c, next) /\ db' = [db EXCEPT !.codes[j] = TRUE]
        BY <1>4, <2>0 DEF MarkCode, Waits
    <2>2. calls[c] \in Exchanging
        BY <2>1, StateTyped, CallShape
    <2>3. j \in Nat /\ next.at = "codeUser" /\ next.code = j
        BY <2>0, <2>2 DEF Exchanging
    <2>4. \A kind \in {"code", "reset"}, k \in 1..MaxOthers :
              /\ Holds(calls[c], kind, k) <=> kind = "code" /\ k = j
              /\ Holds(next, kind, k) <=> kind = "code" /\ k = j
        BY <2>0, <2>1, <2>3 DEF Holds
    <2>5. Before(next) /\ Before(calls[c]) /\ Invalidates(next)
        BY <2>1, <2>3 DEF Before, Invalidates
    <2>6. db'.resets = db.resets /\ db'.codes = [db.codes EXCEPT ![j] = TRUE]
        BY <2>1, StateTyped DEF Tables
    <2>7. \A kind \in {"code", "reset"}, k \in 1..MaxOthers : MarksStay(kind, k)
        BY <2>6 DEF MarksStay, Marked, Presented
    <2> HIDE DEF next
    <2>8. CASE j \notin DOMAIN db.codes
        \* The call found the code, so it is there unless it is a contested one.
        <3>1. ASSUME NEW kind \in {"code", "reset"}, NEW k \in 1..MaxOthers, <<kind, k>> \notin history'.contested
              PROVE  Treats(c, next, kind, k)
            <4>1. UsedOnce(kind, k)
                BY <1>1, <3>1 DEF UInv
            <4>2. ~Holds(calls[c], kind, k)
                BY <2>4, <2>8, <4>1 DEF UsedOnce, Presented
            <4> QED
                BY <1>1, <2>4, <4>2 DEF Treats, Lets, Used
        <3> QED
            BY <1>1, <2>1, <2>5, <2>7, <3>1, CallUses
    <2>9. CASE j \in DOMAIN db.codes
        <3>1. Marked("code", j)'
            BY <2>6, <2>9 DEF Marked, Presented
        <3> QED
            BY <1>1, <2>1, <2>3, <2>4, <2>5, <2>7, <3>1, CarryUses
    <2> QED
        BY <2>8, <2>9
<1>5. CASE CodeUser(c)
    <2> DEFINE j == calls[c].code
               next == [calls[c] EXCEPT !.at = "codeCredential"]
    <2>1. calls[c].at = "codeUser" /\ db' = db /\ (Go(c, next) \/ Return(c))
        BY <1>5 DEF CodeUser, Waits
    <2>2. calls[c] \in Exchanging
        BY <2>1, StateTyped, CallShape
    <2>3. j \in Nat /\ next.at = "codeCredential" /\ next.code = j
        BY <2>2 DEF Exchanging
    <2>4. \A kind \in {"code", "reset"}, k \in 1..MaxOthers :
              /\ Holds(calls[c], kind, k) <=> kind = "code" /\ k = j
              /\ Holds(next, kind, k) <=> kind = "code" /\ k = j
        BY <2>1, <2>3 DEF Holds
    <2>5. Before(next) /\ Before(calls[c]) /\ Ahead(calls[c]) /\ Invalidates(next)
        BY <2>1, <2>3 DEF Before, Ahead, Invalidates
    <2>6. \A kind \in {"code", "reset"}, k \in 1..MaxOthers : MarksStay(kind, k)
        BY <2>1, SameMarks
    <2> HIDE DEF next, j
    <2> QED
        BY <1>1, <2>1, <2>3, <2>4, <2>5, <2>6, CarryUses
<1>6. CASE CodeCredential(c)
    <2> DEFINE j == calls[c].code
               next == [at |-> "create", seen |-> db.credential.version, code |-> j]
    <2>1. calls[c].at = "codeCredential" /\ db' = db /\ (Go(c, next) \/ Return(c))
        BY <1>6 DEF CodeCredential, Waits
    <2>2. j \in Nat
        BY <2>1, StateTyped, CallShape DEF Exchanging
    <2>3. \A kind \in {"code", "reset"}, k \in 1..MaxOthers :
              /\ Holds(calls[c], kind, k) <=> kind = "code" /\ k = j
              /\ Holds(next, kind, k) <=> kind = "code" /\ k = j
        BY <2>1 DEF Holds
    <2>4. Before(next) /\ Before(calls[c]) /\ Ahead(calls[c]) /\ Invalidates(next)
        BY <2>1 DEF Before, Ahead, Invalidates
    <2>5. \A kind \in {"code", "reset"}, k \in 1..MaxOthers : MarksStay(kind, k)
        BY <2>1, SameMarks
    <2> HIDE DEF next, j
    <2> QED
        BY <1>1, <2>1, <2>2, <2>3, <2>4, <2>5, CarryUses
<1> QED
    BY <1>2, <1>3, <1>4, <1>5, <1>6

\* The last statement of confirmPasswordReset marks its token, which it holds.
LEMMA MarkResetUses == ASSUME IInv, UInv, NEW c \in Slots, MarkReset(c) PROVE UInv'
<1> DEFINE j == calls[c].reset
<1>1. /\ calls[c].at = "markReset" /\ Go(c, Idle) /\ history' = history
      /\ db' = [db EXCEPT !.resets[j] = TRUE]
    BY DEF MarkReset, Waits, Return
<1>2. db'.codes = db.codes /\ db'.resets = [db.resets EXCEPT ![j] = TRUE]
    BY <1>1, StateTyped DEF Tables
<1>3. \A kind \in {"code", "reset"}, k \in 1..MaxOthers : MarksStay(kind, k)
    BY <1>2 DEF MarksStay, Marked, Presented
<1>4. ASSUME NEW kind \in {"code", "reset"}, NEW k \in 1..MaxOthers, <<kind, k>> \notin history'.contested
      PROVE  Treats(c, Idle, kind, k)
    <2>1. UsedOnce(kind, k)
        BY <1>1, <1>4 DEF UInv
    <2>2. ~Holds(Idle, kind, k)
        BY DEF Idle, Holds
    <2>3. Holds(calls[c], kind, k) => Marked(kind, k)'
        <3>1. ASSUME Holds(calls[c], kind, k) PROVE kind = "reset" /\ k = j /\ k \in DOMAIN db.resets
            BY <1>1, <2>1, <3>1 DEF Holds, UsedOnce, Presented
        <3> QED
            BY <1>2, <3>1 DEF Marked, Presented
    <2> QED
        BY <1>1, <2>2, <2>3 DEF Treats, Lets, Used
<1>5. Invalidates(Idle)
    BY DEF Idle, Invalidates
<1> QED
    BY <1>1, <1>3, <1>4, <1>5, CallUses

\* Without a contest, a call that finds a code or a token unused is the only one to hold it.
LEMMA StartUses ==
    ASSUME IInv, UInv, NEW c \in Slots, NEW own \in {"code", "reset"}, NEW j \in DOMAIN Presented(own),
           NEW call, Go(c, call), calls[c].at = "idle", db' = db, ~Presented(own)[j], Contest(own, j),
           Before(call) /\ ~Ahead(call) /\ Invalidates(call),
           \A kind \in {"code", "reset"}, k \in 1..MaxOthers : Holds(call, kind, k) <=> kind = own /\ k = j
    PROVE  UInv'
<1>1. history'.uses = history.uses /\ history.contested \subseteq history'.contested
    BY StateTyped DEF Contest, History
<1>2. \A kind \in {"code", "reset"}, k \in 1..MaxOthers : MarksStay(kind, k)
    BY SameMarks
<1>3. ASSUME NEW kind \in {"code", "reset"}, NEW k \in 1..MaxOthers, <<kind, k>> \notin history'.contested
      PROVE  Treats(c, call, kind, k)
    <2>1. UsedOnce(kind, k)
        BY <1>1, <1>3 DEF UInv
    <2>2. CASE kind = own /\ k = j
        <3>1. ~Marked(kind, k) /\ k \in DOMAIN Presented(kind)
            BY <2>2 DEF Marked
        <3>2. ~Unmarked(kind, k)
            BY <1>3, <2>2, StateTyped DEF Contest, History
        <3>3. ASSUME NEW d \in Slots, Holds(calls[d], kind, k) PROVE FALSE
            <4>1. Ahead(calls[d]) => Marked(kind, k)
                BY <2>1, <3>3 DEF UsedOnce
            <4>2. kind = "code" => calls[d].at = "markCode" \/ Ahead(calls[d])
                BY <3>3 DEF Holds, Ahead
            <4> QED
                BY <3>1, <3>2, <3>3, <4>1, <4>2 DEF Holds, Unmarked
        <3> QED
            BY <1>1, <2>2, <3>1, <3>3 DEF Treats, Starts, Used
    <2>3. CASE ~(kind = own /\ k = j)
        <3>1. ~Holds(calls[c], kind, k) /\ ~Holds(call, kind, k)
            BY <2>3 DEF Holds
        <3> QED
            BY <1>1, <3>1 DEF Treats, Lets, Used
    <2> QED
        BY <2>2, <2>3
<1> QED
    BY <1>1, <1>2, <1>3, CallUses

LEMMA ConfirmUses ==
    ASSUME IInv, UInv, NEW c \in Slots, NEW r \in DOMAIN db.resets, ConfirmReset(c, r) PROVE UInv'
<1> DEFINE call == [at |-> "findCredential", reset |-> r]
<1>1. /\ Go(c, call) /\ calls[c].at = "idle" /\ db' = db /\ ~db.resets[r] /\ Contest("reset", r)
    BY DEF ConfirmReset, Arrive
<1>2. Before(call) /\ ~Ahead(call) /\ Invalidates(call)
    BY DEF Before, Ahead, Invalidates
<1>3. \A kind \in {"code", "reset"}, k \in 1..MaxOthers : Holds(call, kind, k) <=> kind = "reset" /\ k = r
    BY DEF Holds
<1>4. Presented("reset") = db.resets
    BY DEF Presented
<1> HIDE DEF call
<1> QED
    BY <1>1, <1>2, <1>3, <1>4, StartUses

LEMMA ExchangeUses ==
    ASSUME IInv, UInv, NEW c \in Slots, NEW j \in DOMAIN db.codes, Exchange(c, j) PROVE UInv'
<1> DEFINE call == [at |-> "markCode", code |-> j]
<1>1. /\ Go(c, call) /\ calls[c].at = "idle" /\ db' = db /\ ~db.codes[j] /\ Contest("code", j)
    BY DEF Exchange, Arrive
<1>2. Before(call) /\ ~Ahead(call) /\ Invalidates(call)
    BY DEF Before, Ahead, Invalidates
<1>3. \A kind \in {"code", "reset"}, k \in 1..MaxOthers : Holds(call, kind, k) <=> kind = "code" /\ k = j
    BY DEF Holds
<1>4. Presented("code") = db.codes
    BY DEF Presented
<1> HIDE DEF call
<1> QED
    BY <1>1, <1>2, <1>3, <1>4, StartUses

\* A call cut short between using a token and marking it leaves the token contested.
LEMMA RejectUses == ASSUME IInv, UInv, NEW c \in Slots, Reject(c) PROVE UInv'
<1>1. /\ Go(c, Idle) /\ db' = db /\ history'.uses = history.uses
      /\ history'.contested = IF calls[c].at \in {"endAll", "markReset"}
                                THEN history.contested \cup {<<"reset", calls[c].reset>>} ELSE history.contested
    BY StateTyped DEF Reject, Return, History
<1>2. \A kind \in {"code", "reset"}, k \in 1..MaxOthers : MarksStay(kind, k)
    BY <1>1, SameMarks
<1>3. ASSUME NEW kind \in {"code", "reset"}, NEW k \in 1..MaxOthers, <<kind, k>> \notin history'.contested
      PROVE  Treats(c, Idle, kind, k)
    <2>1. ~Holds(Idle, kind, k)
        BY DEF Idle, Holds
    <2>2. Holds(calls[c], kind, k) => Before(calls[c])
        BY <1>1, <1>3 DEF Holds, Before
    <2> QED
        BY <1>1, <2>1, <2>2 DEF Treats, Lets, Used
<1>4. Invalidates(Idle)
    BY DEF Idle, Invalidates
<1>5. history.contested \subseteq history'.contested
    BY <1>1
<1> QED
    BY <1>1, <1>2, <1>3, <1>4, <1>5, CallUses

\* Steps of no call.
LEMMA IdleUses ==
    ASSUME IInv, UInv, calls' = calls,
           history'.contested = history.contested, history'.uses = history.uses,
           \A kind \in {"code", "reset"}, k \in 1..MaxOthers : MarksStay(kind, k)
    PROVE  UInv'
<1>1. ASSUME NEW kind \in {"code", "reset"}, NEW k \in 1..MaxOthers, <<kind, k>> \notin history'.contested
      PROVE  UsedOnce(kind, k)'
    <2>1. UsedOnce(kind, k) /\ Used(kind, k)' = Used(kind, k)
        BY <1>1 DEF UInv, Used
    <2>2. \A c \in Slots : Holds(calls'[c], kind, k) <=> Holds(calls[c], kind, k)
        BY DEF Holds
    <2> QED
        BY <2>1, <2>2 DEF UsedOnce, MarksStay, Holds, Before, Ahead
<1> QED
    BY <1>1 DEF UInv, Invalidates

LEMMA OutsideUses ==
    ASSUME IInv, UInv,
           \/ \E c \in Slots :
                 \/ \E except \in {{}} \cup {{s} : s \in DOMAIN db.sessions} : LogoutAll(c, except)
                 \/ GenerateCode(c)
           \/ \E status \in {"active", "suspended"} : SetStatus(status)
           \/ \E s \in DOMAIN db.sessions : Lapse(s)
    PROVE  UInv'
<1>1. calls' = calls /\ history' = history
    BY DEF LogoutAll, GenerateCode, SetStatus, Lapse
<1>2. \/ db'.codes = db.codes /\ db'.resets = db.resets
      \/ db'.resets = db.resets /\ db'.codes = Append(db.codes, FALSE)
    BY StateTyped DEF LogoutAll, GenerateCode, SetStatus, Lapse, Tables
<1>3. \A kind \in {"code", "reset"}, k \in 1..MaxOthers : MarksStay(kind, k)
    <2>1. CASE db'.codes = db.codes /\ db'.resets = db.resets
        BY <2>1, SameMarks
    <2>2. CASE db'.resets = db.resets /\ db'.codes = Append(db.codes, FALSE)
        BY <2>2, GrownMarks
    <2> QED
        BY <1>2, <2>1, <2>2
<1> QED
    BY <1>1, <1>3, IdleUses

LEMMA NextUses == IInv /\ UInv /\ [Next]_vars => UInv'
<1> SUFFICES ASSUME IInv, UInv, [Next]_vars PROVE UInv'
    OBVIOUS
<1>1. ASSUME NEW c \in Slots,
             \/ Register(c) \/ InsertUser(c) \/ InsertCredential(c) \/ Login(c) \/ Verify(c)
             \/ List(c) \/ Prune(c) \/ (\E t \in DOMAIN db.tokens : Refresh(c, t))
             \/ FindUser(c) \/ Rotate(c) \/ (\E s \in DOMAIN db.sessions : Logout(c, s))
             \/ RevokeOne(c) \/ UpdatePassword(c) \/ RequestReset(c) \/ CreateReset(c)
      PROVE  UInv'
    BY <1>1, QuietSteps
<1>2. ASSUME NEW c \in Slots,
             FindCredential(c) \/ EndAll(c) \/ MarkCode(c) \/ CodeUser(c) \/ CodeCredential(c)
      PROVE  UInv'
    BY <1>2, CarryingSteps
<1>3. ASSUME NEW c \in Slots,
             \/ CreateSession(c) \/ Change(c) \/ MarkReset(c) \/ Reject(c)
             \/ \E r \in DOMAIN db.resets : ConfirmReset(c, r)
             \/ \E k \in DOMAIN db.codes : Exchange(c, k)
      PROVE  UInv'
    BY <1>3, CreateUses, ChangeUses, MarkResetUses, RejectUses, ConfirmUses, ExchangeUses
<1>4. CASE \/ \E c \in Slots :
                 \/ \E except \in {{}} \cup {{s} : s \in DOMAIN db.sessions} : LogoutAll(c, except)
                 \/ GenerateCode(c)
           \/ \E status \in {"active", "suspended"} : SetStatus(status)
           \/ \E s \in DOMAIN db.sessions : Lapse(s)
    BY <1>4, OutsideUses
<1>5. CASE UNCHANGED vars
    <2>1. db' = db /\ calls' = calls /\ history' = history
        BY <1>5 DEF vars
    <2> QED
        BY <2>1, SameMarks, IdleUses
<1> QED
    BY <1>1, <1>2, <1>3, <1>4, <1>5 DEF Next

LEMMA InitUses == Init => UInv
<1> SUFFICES ASSUME Init PROVE UInv
    OBVIOUS
<1>1. \A c \in Slots : calls[c] = Idle
    BY DEF Init
<1>2. \A kind \in {"code", "reset"}, k \in 1..MaxOthers : Used(kind, k) = 0
    BY DEF Init, Remember, Used
<1>3. Invalidates(Idle) /\ \A kind, k : ~Holds(Idle, kind, k)
    BY DEF Idle, Holds, Invalidates
<1> QED
    BY <1>1, <1>2, <1>3 DEF UInv, UsedOnce

\* A one-time code gives at most one session and a reset token at most one new password,
\* whatever runs at once, unless it is presented again before its first use marks it or that
\* use is cut short: usedAt is looked at in one statement and set in another.
THEOREM UsedAtMostOnce == Spec => []SingleUse
<1>1. IInv /\ UInv => SingleUse
    <2> SUFFICES ASSUME IInv, UInv, NEW key \in DOMAIN history.uses, key \notin history.contested
                 PROVE  history.uses[key] <= 1
        BY DEF SingleUse
    <2>1. PICK kind \in {"code", "reset"}, k \in 1..MaxOthers : key = <<kind, k>>
        BY StateTyped
    <2>2. UsedOnce(kind, k)
        BY <2>1 DEF UInv
    <2> QED
        BY <2>1, <2>2 DEF UsedOnce, Used
<1>2. IInv /\ UInv /\ [Next]_vars => IInv' /\ UInv'
    BY NextIInv, NextUses
<1>3. Init => IInv /\ UInv
    BY InitIInv, InitUses
<1> QED
    BY <1>1, <1>2, <1>3, PTL DEF Spec

-----------------------------------------------------------------------------
(* The limit on sessions                                                    *)

\* The sessions that the limit is about and that are among the first n.
UpTo(n) == {s \in Counted : s <= n}

Logs(call) == call.at \in {"list", "prune"}

\* A login that pruned them left the first n sessions within the limit, and each one that came
\* later belongs to a login that has yet to prune.
Settled(n) ==
    /\ Cardinality(UpTo(n)) <= MaxPerUser + 1
    /\ \A s \in Counted : s > n => \E c \in Slots : Logs(calls[c]) /\ calls[c].own = s

\* A login that prunes will do that for the sessions it found, its own among them.
Settles(c, n) ==
    calls[c].own <= n /\ Cardinality(UpTo(n) \ calls[c].surplus) <= MaxPerUser + 1

LInv ==
    /\ \E n \in 0..Len(db.sessions) : Settled(n)
    /\ \A c \in Slots :
          /\ calls[c].at = "list" => calls[c].own <= Len(db.sessions)
          /\ calls[c].at = "prune" => \E n \in 0..Len(db.sessions) : Settles(c, n)

-----------------------------------------------------------------------------
(* Counting                                                                 *)

LEMMA FewerAtMost ==
    ASSUME NEW S, NEW T \in SUBSET S, IsFiniteSet(S), NEW k \in Nat, Cardinality(S) <= k
    PROVE  IsFiniteSet(T) /\ Cardinality(T) <= k
<1>1. /\ IsFiniteSet(T) /\ Cardinality(T) <= Cardinality(S)
      /\ Cardinality(S) \in Nat /\ Cardinality(T) \in Nat
    BY FS_Subset, FS_CardinalityType
<1> QED
    BY <1>1

LEMMA SameInterval == ASSUME NEW m \in Nat, NEW n \in Nat, 1..m = 1..n PROVE m >= n
<1>1. n = 0 \/ n \in 1..n
    OBVIOUS
<1> QED
    BY <1>1

LEMMA LeastNumber ==
    ASSUME NEW S, IsFiniteSet(S), S # {}, \A s \in S : s \in Nat
    PROVE  \E m \in S : \A n \in S : m <= n
<1> DEFINE below(x) == {o \in S : o <= x}
<1>1. PICK F : F = {below(x) : x \in S}
    OBVIOUS
<1>2. PICK T \in F : \A U \in F : U \subseteq T => U = T
    <2>1. F \subseteq SUBSET S /\ F # {}
        BY <1>1
    <2> HIDE DEF below
    <2> QED
        BY <2>1, Smallest
<1>3. PICK m \in S : T = below(m)
    BY <1>1, <1>2
<1>4. ASSUME NEW n \in S, ~(m <= n) PROVE FALSE
    <2>1. n \in Nat /\ m \in Nat /\ n < m
        BY <1>4
    <2>2. below(n) \subseteq below(m)
        <3> SUFFICES ASSUME NEW o \in S, o <= n PROVE o <= m
            OBVIOUS
        <3> QED
            BY <2>1
    <2>3. m \in below(m) /\ m \notin below(n)
        BY <2>1
    <2>4. below(n) \in F
        BY <1>1
    <2> HIDE DEF below
    <2> QED
        BY <1>2, <1>3, <2>2, <2>3, <2>4
<1> QED
    BY <1>4

\* Those of a set of numbers with less than k greater ones in it are at most k.
LEMMA YoungestAreFew ==
    ASSUME NEW S \in SUBSET Nat, IsFiniteSet(S), NEW k \in Nat, NEW kept,
           kept = {s \in S : ~(Cardinality({o \in S : o > s}) >= k)}
    PROVE  IsFiniteSet(kept) /\ Cardinality(kept) <= k
<1>1. kept \in SUBSET S /\ IsFiniteSet(kept)
    BY FS_Subset
<1>2. CASE kept = {}
    <2>1. Cardinality(kept) = 0
        BY <1>2, FS_EmptySet
    <2> QED
        BY <1>1, <2>1
<1>3. CASE kept # {}
    <2>1. PICK m \in kept : \A s \in kept : m <= s
        <3>1. kept \in SUBSET Nat
            BY <1>1
        <3> QED
            BY <1>1, <1>3, <3>1, LeastNumber
    <2> DEFINE above == {o \in S : o > m}
    <2>2. above \in SUBSET S /\ IsFiniteSet(above) /\ Cardinality(above) \in Nat /\ Cardinality(above) < k
        <3>1. above \in SUBSET S /\ IsFiniteSet(above)
            BY FS_Subset
        <3>2. Cardinality(above) \in Nat /\ ~(Cardinality(above) >= k)
            BY <2>1, <3>1, FS_CardinalityType
        <3> QED
            BY <3>1, <3>2
    <2>3. kept \ {m} \in SUBSET above
        <3>1. ASSUME NEW s \in kept, s # m PROVE s > m
            BY <1>1, <2>1, <3>1
        <3> QED
            BY <1>1, <3>1
    <2> HIDE DEF above
    <2>4. Cardinality(kept \ {m}) = Cardinality(kept) - 1
        BY <1>1, <2>1, FS_RemoveElement
    <2>5. Cardinality(kept \ {m}) <= Cardinality(above)
        BY <2>2, <2>3, FS_Subset
    <2>6. Cardinality(kept) \in Nat
        BY <1>1, FS_CardinalityType
    <2>7. Cardinality(kept) <= k
        BY <2>2, <2>4, <2>5, <2>6
    <2> QED
        BY <1>1, <2>7
<1> QED
    BY <1>2, <1>3

LEMMA CountedFinite ==
    ASSUME IInv
    PROVE  /\ Counted \subseteq 1..Len(db.sessions) /\ IsFiniteSet(Counted)
           /\ Len(db.sessions) \in Nat /\ MaxPerUser + 1 \in Nat
           /\ \A n : UpTo(n) \subseteq Counted /\ IsFiniteSet(UpTo(n))
<1>1. Len(db.sessions) \in Nat /\ DOMAIN db.sessions = 1..Len(db.sessions)
    BY TablesTyped DEF IInv
<1>2. Counted \in SUBSET (1..Len(db.sessions)) /\ IsFiniteSet(1..Len(db.sessions))
    BY <1>1, FS_Interval DEF Counted, Active
<1>3. IsFiniteSet(Counted)
    BY <1>2, FS_Subset
<1>4. ASSUME NEW n PROVE UpTo(n) \in SUBSET Counted /\ IsFiniteSet(UpTo(n))
    BY <1>3, FS_Subset DEF UpTo
<1> QED
    BY <1>1, <1>2, <1>3, <1>4, AuthBounds

-----------------------------------------------------------------------------
(* How steps keep to the limit                                              *)

\* When fewer sessions count, what was settled stays settled.
LEMMA SettledShrinks ==
    ASSUME IInv, NEW n \in Nat, Settled(n), Counted' \subseteq Counted,
           \A s \in Counted', c \in Slots :
               s > n /\ Logs(calls[c]) /\ calls[c].own = s =>
                   \E d \in Slots : Logs(calls'[d]) /\ calls'[d].own = s
    PROVE  Settled(n)'
<1>1. UpTo(n)' \in SUBSET UpTo(n)
    BY DEF UpTo
<1>2. Cardinality(UpTo(n)') <= MaxPerUser + 1
    BY <1>1, CountedFinite, FewerAtMost DEF Settled
<1> QED
    BY <1>2 DEF Settled, Logs

LEMMA SettlesShrinks ==
    ASSUME IInv, NEW c \in Slots, NEW n \in Nat, Settles(c, n), calls'[c].own = calls[c].own,
           Counted' \ calls'[c].surplus \subseteq Counted \ calls[c].surplus
    PROVE  Settles(c, n)'
<1> DEFINE old == UpTo(n) \ calls[c].surplus
           new == UpTo(n)' \ calls'[c].surplus
<1>1. new \in SUBSET old
    BY DEF UpTo
<1>2. IsFiniteSet(old)
    BY CountedFinite, FS_Subset
<1>3. Cardinality(old) <= MaxPerUser + 1
    BY DEF Settles
<1> HIDE DEF old, new
<1>4. Cardinality(new) <= MaxPerUser + 1
    BY <1>1, <1>2, <1>3, CountedFinite, FewerAtMost
<1> QED
    BY <1>4 DEF Settles, new

\* A step in which no login goes on, other than to stop with a session that does not count.
LEMMA LimitShrinks ==
    ASSUME IInv, LInv, IInv', Len(db'.sessions) >= Len(db.sessions), Counted' \subseteq Counted,
           \A d \in Slots :
               \/ calls'[d] = calls[d]
               \/ ~Logs(calls'[d]) /\ (Logs(calls[d]) => calls[d].own \notin Counted')
    PROVE  LInv'
<1>1. Len(db.sessions) \in Nat /\ Len(db'.sessions) \in Nat
      /\ 0..Len(db.sessions) \subseteq 0..Len(db'.sessions) /\ 0..Len(db.sessions) \subseteq Nat
    BY TablesTyped DEF IInv, Typed, Tables
<1>2. PICK n \in 0..Len(db.sessions) : Settled(n)
    BY DEF LInv
<1>3. Settled(n)'
    BY <1>1, <1>2, SettledShrinks
<1>4. ASSUME NEW c \in Slots, Logs(calls'[c])
      PROVE  /\ calls'[c].at = "list" => calls'[c].own <= Len(db'.sessions)
             /\ calls'[c].at = "prune" => \E m \in 0..Len(db'.sessions) : Settles(c, m)'
    <2>1. calls'[c] = calls[c]
        BY <1>4
    <2>2. CASE calls[c].at = "list"
        <3>1. calls[c] \in Listing
            BY <2>2, StateTyped, CallShape
        <3>2. calls[c].own \in Nat /\ calls[c].own <= Len(db.sessions)
            BY <2>2, <3>1 DEF LInv, Listing
        <3> QED
            BY <1>1, <2>1, <2>2, <3>2
    <2>3. CASE calls[c].at = "prune"
        <3>1. PICK m \in 0..Len(db.sessions) : Settles(c, m)
            BY <2>3 DEF LInv
        <3>2. Settles(c, m)'
            BY <1>1, <2>1, <3>1, SettlesShrinks
        <3> QED
            BY <1>1, <2>1, <2>3, <3>2
    <2> QED
        BY <1>4, <2>1, <2>2, <2>3 DEF Logs
<1> QED
    BY <1>1, <1>2, <1>3, <1>4 DEF LInv, Logs

-----------------------------------------------------------------------------
(* The limit, statement by statement                                        *)

\* What counts after a step: rows that counted before, unless they are remembered.
LEMMA CountsNoMore ==
    ASSUME history.revived \subseteq history'.revived, history.unpruned \subseteq history'.unpruned,
           \A s \in DOMAIN db'.sessions :
               db'.sessions[s].status = "active" /\ ~db'.sessions[s].lapsed /\ ~db'.sessions[s].byCode =>
                   \/ /\ s \in DOMAIN db.sessions
                      /\ db.sessions[s].status = "active" /\ ~db.sessions[s].lapsed /\ ~db.sessions[s].byCode
                   \/ s \in history'.revived
    PROVE  Counted' \subseteq Counted
BY DEF Counted, Active

LEMMA RevokedRows ==
    ASSUME IInv, NEW ended
    PROVE  /\ Len(Revoke(ended)) = Len(db.sessions) /\ DOMAIN Revoke(ended) = DOMAIN db.sessions
           /\ \A s \in DOMAIN db.sessions :
                  /\ Revoke(ended)[s].status = "active" => db.sessions[s].status = "active" /\ s \notin ended
                  /\ Revoke(ended)[s].lapsed = db.sessions[s].lapsed
                  /\ Revoke(ended)[s].byCode = db.sessions[s].byCode
<1>1. /\ Len(Revoke(ended)) = Len(db.sessions)
      /\ \A s \in DOMAIN db.sessions :
             Revoke(ended)[s].status = "active" => db.sessions[s].status = "active" /\ s \notin ended
    BY RevokeTyped DEF IInv
<1>2. \A s \in DOMAIN db.sessions :
          /\ Revoke(ended)[s].lapsed = db.sessions[s].lapsed
          /\ Revoke(ended)[s].byCode = db.sessions[s].byCode
    BY TablesTyped DEF IInv, Revoke, Row
<1>3. DOMAIN Revoke(ended) = DOMAIN db.sessions
    BY DEF Revoke
<1> QED
    BY <1>1, <1>2, <1>3

\* Statements that touch no session, or end some, and are not part of a login's end.
LEMMA LimitEnding ==
    ASSUME IInv, LInv, IInv',
           db'.sessions = db.sessions \/ \E ended : db'.sessions = Revoke(ended),
           history'.revived = history.revived, history'.unpruned = history.unpruned,
           \A d \in Slots : calls'[d] = calls[d] \/ (~Logs(calls'[d]) /\ ~Logs(calls[d]))
    PROVE  LInv'
<1>1. /\ Len(db'.sessions) = Len(db.sessions) /\ DOMAIN db'.sessions = DOMAIN db.sessions
      /\ \A s \in DOMAIN db.sessions :
             /\ db'.sessions[s].status = "active" => db.sessions[s].status = "active"
             /\ db'.sessions[s].lapsed = db.sessions[s].lapsed
             /\ db'.sessions[s].byCode = db.sessions[s].byCode
    <2>1. CASE db'.sessions = db.sessions
        BY <2>1
    <2>2. ASSUME NEW ended, db'.sessions = Revoke(ended) PROVE <1>1!:
        BY <2>2, RevokedRows
    <2> QED
        BY <2>1, <2>2
<1>2. Counted' \subseteq Counted
    BY <1>1, CountsNoMore
<1>3. Len(db'.sessions) >= Len(db.sessions)
    BY <1>1, CountedFinite
<1> QED
    BY <1>2, <1>3, LimitShrinks

LEMMA EndingSteps ==
    ASSUME IInv, LInv, IInv', NEW c \in Slots,
           \/ Register(c) \/ InsertUser(c) \/ InsertCredential(c) \/ Login(c) \/ Verify(c)
           \/ (\E t \in DOMAIN db.tokens : Refresh(c, t))
           \/ FindUser(c) \/ (\E s \in DOMAIN db.sessions : Logout(c, s))
           \/ RevokeOne(c) \/ UpdatePassword(c) \/ Change(c) \/ EndAll(c) \/ RequestReset(c) \/ CreateReset(c)
           \/ (\E r \in DOMAIN db.resets : ConfirmReset(c, r))
           \/ FindCredential(c) \/ MarkReset(c)
           \/ (\E k \in DOMAIN db.codes : Exchange(c, k))
           \/ MarkCode(c) \/ CodeUser(c) \/ CodeCredential(c)
    PROVE  LInv'
<1>1. db'.sessions = db.sessions \/ \E ended : db'.sessions = Revoke(ended)
    <2>1. CASE RevokeOne(c)
        <3>1. PICK ended : db' = [db EXCEPT !.sessions = Revoke(ended)]
            BY <2>1 DEF RevokeOne
        <3>2. db'.sessions = Revoke(ended)
            BY <3>1, StateTyped DEF Tables
        <3> QED
            BY <3>2
    <2>2. CASE EndAll(c)
        <3>1. PICK ended : db' = [db EXCEPT !.sessions = Revoke(ended)]
            BY <2>2 DEF EndAll
        <3>2. db'.sessions = Revoke(ended)
            BY <3>1, StateTyped DEF Tables
        <3> QED
            BY <3>2
    <2>3. CASE \/ InsertUser(c) \/ InsertCredential(c) \/ Change(c) \/ RequestReset(c) \/ CreateReset(c)
               \/ MarkReset(c) \/ MarkCode(c)
        BY <2>3, StateTyped DEF InsertUser, InsertCredential, Change, RequestReset, CreateReset,
           MarkReset, MarkCode, Tables
    <2>4. CASE \/ Register(c) \/ Login(c) \/ Verify(c)
               \/ (\E t \in DOMAIN db.tokens : Refresh(c, t))
               \/ FindUser(c) \/ (\E s \in DOMAIN db.sessions : Logout(c, s)) \/ UpdatePassword(c)
               \/ (\E r \in DOMAIN db.resets : ConfirmReset(c, r)) \/ FindCredential(c)
               \/ (\E k \in DOMAIN db.codes : Exchange(c, k)) \/ CodeUser(c) \/ CodeCredential(c)
        BY <2>4 DEF Register, Login, Verify, Refresh, FindUser, Logout, UpdatePassword,
           ConfirmReset, FindCredential, Exchange, CodeUser, CodeCredential
    <2> QED
        BY <2>1, <2>2, <2>3, <2>4
<1>2. history'.revived = history.revived /\ history'.unpruned = history.unpruned
    <2>1. CASE Change(c)
        BY <2>1, StateTyped DEF Change, History
    <2>2. CASE (\E r \in DOMAIN db.resets : ConfirmReset(c, r)) \/ (\E k \in DOMAIN db.codes : Exchange(c, k))
        BY <2>2, StateTyped DEF ConfirmReset, Exchange, Contest, History
    <2>3. CASE ~Change(c) /\ ~(\E r \in DOMAIN db.resets : ConfirmReset(c, r))
               /\ ~(\E k \in DOMAIN db.codes : Exchange(c, k))
        BY <2>3 DEF Register, InsertUser, InsertCredential, Login, Verify, Refresh, FindUser, Logout,
           RevokeOne, UpdatePassword, EndAll, RequestReset, CreateReset, FindCredential, MarkReset,
           MarkCode, CodeUser, CodeCredential
    <2> QED
        BY <2>1, <2>2, <2>3
<1>3. ~Logs(calls[c]) /\ \E call : Go(c, call) /\ ~Logs(call)
    <2> USE DEF Arrive, Waits, Return, Logs, Idle
    <2>0. \A x, y, z : \A at \in {"idle", "insertUser", "insertCredential", "createReset"} :
              /\ ~Logs([at |-> at]) /\ ~Logs([at |-> "create", seen |-> x, code |-> y])
              /\ ~Logs([at |-> "verify", password |-> x]) /\ ~Logs([at |-> "revoke", session |-> x])
              /\ ~Logs([at |-> "findUser", session |-> x, seen |-> y])
              /\ ~Logs([at |-> "change", seen |-> x, invalidate |-> y, reset |-> z])
              /\ ~Logs([at |-> "findCredential", reset |-> x]) /\ ~Logs([at |-> "endAll", reset |-> x])
              /\ ~Logs([at |-> "markReset", reset |-> x]) /\ ~Logs([at |-> "markCode", code |-> x])
        OBVIOUS
    <2>00. calls[c].at \notin {"list", "prune"} => ~Logs(calls[c])
        OBVIOUS
    <2> HIDE DEF Logs
    <2>1. CASE Register(c) \/ Login(c) \/ UpdatePassword(c) \/ RequestReset(c)
        <3>1. /\ calls[c].at \notin {"list", "prune"}
              /\ \/ Go(c, [at |-> "insertUser"]) \/ Go(c, [at |-> "createReset"])
                 \/ \E p : Go(c, [at |-> "verify", password |-> p])
                 \/ \E x, y, z : Go(c, [at |-> "change", seen |-> x, invalidate |-> y, reset |-> z])
            BY <2>1 DEF Register, Login, UpdatePassword, RequestReset
        <3> QED
            BY <2>0, <2>00, <3>1
    <2>2. CASE InsertUser(c) \/ InsertCredential(c) \/ Verify(c)
        <3>1. /\ calls[c].at \notin {"list", "prune"}
              /\ \/ Go(c, [at |-> "insertCredential"]) \/ Go(c, [at |-> "idle"])
                 \/ \E x, y : Go(c, [at |-> "create", seen |-> x, code |-> y])
            BY <2>2 DEF InsertUser, InsertCredential, Verify
        <3> QED
            BY <2>0, <2>00, <3>1
    <2>3. CASE \E t \in DOMAIN db.tokens : Refresh(c, t)
        <3>1. /\ calls[c].at \notin {"list", "prune"}
              /\ \/ \E x : Go(c, [at |-> "revoke", session |-> x])
                 \/ \E x, y : Go(c, [at |-> "findUser", session |-> x, seen |-> y])
            BY <2>3 DEF Refresh
        <3> QED
            BY <2>0, <2>00, <3>1
    <2>4. CASE \/ (\E s \in DOMAIN db.sessions : Logout(c, s))
               \/ (\E r \in DOMAIN db.resets : ConfirmReset(c, r))
               \/ (\E k \in DOMAIN db.codes : Exchange(c, k))
        <3>1. /\ calls[c].at \notin {"list", "prune"}
              /\ \/ \E x : Go(c, [at |-> "revoke", session |-> x])
                 \/ \E x : Go(c, [at |-> "findCredential", reset |-> x])
                 \/ \E x : Go(c, [at |-> "markCode", code |-> x])
            BY <2>4 DEF Logout, ConfirmReset, Exchange
        <3> QED
            BY <2>0, <2>00, <3>1
    <2>5. CASE RevokeOne(c) \/ Change(c) \/ EndAll(c) \/ CreateReset(c) \/ MarkReset(c)
        <3>1. /\ calls[c].at \notin {"list", "prune"}
              /\ \/ Go(c, [at |-> "idle"])
                 \/ \E x : Go(c, [at |-> "endAll", reset |-> x])
                 \/ \E x : Go(c, [at |-> "markReset", reset |-> x])
            BY <2>5 DEF RevokeOne, Change, EndAll, CreateReset, MarkReset
        <3> QED
            BY <2>0, <2>00, <3>1
    <2>6. CASE FindCredential(c) \/ CodeCredential(c)
        <3>1. /\ calls[c].at \notin {"list", "prune"}
              /\ \/ Go(c, [at |-> "idle"])
                 \/ \E x, y, z : Go(c, [at |-> "change", seen |-> x, invalidate |-> y, reset |-> z])
                 \/ \E x, y : Go(c, [at |-> "create", seen |-> x, code |-> y])
            BY <2>6 DEF FindCredential, CodeCredential
        <3> QED
            BY <2>0, <2>00, <3>1
    <2> USE DEF Logs
    <2>7. CASE FindUser(c) \/ MarkCode(c) \/ CodeUser(c)
        <3>1. calls[c] \in Renewal \cup Exchanging
            BY <2>7, StateTyped, CallShape DEF FindUser, MarkCode, CodeUser
        <3>2. \A at \in {"rotate", "codeUser", "codeCredential"} : [calls[c] EXCEPT !.at = at].at = at
            BY <3>1 DEF Renewal, Exchanging
        <3>3. \/ Go(c, Idle) \/ Go(c, [calls[c] EXCEPT !.at = "rotate"])
              \/ Go(c, [calls[c] EXCEPT !.at = "codeUser"]) \/ Go(c, [calls[c] EXCEPT !.at = "codeCredential"])
            BY <2>7 DEF FindUser, MarkCode, CodeUser
        <3>4. calls[c].at \in {"findUser", "markCode", "codeUser"}
            BY <2>7 DEF FindUser, MarkCode, CodeUser
        <3>5. \A at \in {"rotate", "codeUser", "codeCredential"} : ~Logs([calls[c] EXCEPT !.at = at])
            BY <3>2
        <3>6. ~Logs(calls[c]) /\ ~Logs(Idle)
            BY <3>4
        <3> HIDE DEF Logs, Idle
        <3> QED
            BY <3>3, <3>5, <3>6
    <2> QED
        BY <2>1, <2>2, <2>3, <2>4, <2>5, <2>6, <2>7
<1>4. \A d \in Slots : calls'[d] = calls[d] \/ (~Logs(calls'[d]) /\ ~Logs(calls[d]))
    BY <1>3, StateTyped DEF Go
<1> QED
    BY <1>1, <1>2, <1>4, LimitEnding

\* A logout everywhere, a new code, a suspension and an expiry.
LEMMA LimitOutside ==
    ASSUME IInv, LInv, IInv',
           \/ \E c \in Slots :
                 \/ \E except \in {{}} \cup {{s} : s \in DOMAIN db.sessions} : LogoutAll(c, except)
                 \/ GenerateCode(c)
           \/ \E status \in {"active", "suspended"} : SetStatus(status)
           \/ \E s \in DOMAIN db.sessions : Lapse(s)
    PROVE  LInv'
<1>1. calls' = calls /\ history' = history
    BY DEF LogoutAll, GenerateCode, SetStatus, Lapse
<1>2. CASE \E c \in Slots, except \in {{}} \cup {{s} : s \in DOMAIN db.sessions} : LogoutAll(c, except)
    <2>1. PICK ended : db' = [db EXCEPT !.sessions = Revoke(ended)]
        BY <1>2 DEF LogoutAll
    <2>2. db'.sessions = Revoke(ended)
        BY <2>1, StateTyped DEF Tables
    <2> QED
        BY <1>1, <2>2, LimitEnding
<1>3. CASE \/ \E c \in Slots : GenerateCode(c)
           \/ \E status \in {"active", "suspended"} : SetStatus(status)
    <2>1. db'.sessions = db.sessions
        BY <1>3, StateTyped DEF GenerateCode, SetStatus, Tables
    <2> QED
        BY <1>1, <2>1, LimitEnding
<1>4. ASSUME NEW s \in DOMAIN db.sessions, Lapse(s) PROVE LInv'
    <2>1. db'.sessions = [db.sessions EXCEPT ![s] = [@ EXCEPT !.lapsed = TRUE]]
        BY <1>4, StateTyped DEF Lapse, Tables
    <2>2. \A o \in DOMAIN db.sessions : db.sessions[o] \in Row
        BY TablesTyped DEF IInv
    <2>3. /\ DOMAIN db'.sessions = DOMAIN db.sessions
          /\ \A o \in DOMAIN db.sessions :
                 /\ db'.sessions[o].status = db.sessions[o].status
                 /\ ~db'.sessions[o].lapsed => ~db.sessions[o].lapsed
                 /\ db'.sessions[o].byCode = db.sessions[o].byCode
        BY <2>1, <2>2 DEF Row
    <2>4. Counted' \subseteq Counted
        BY <1>1, <2>3, CountsNoMore
    <2>5. Len(db'.sessions) >= Len(db.sessions)
        <3>1. /\ Len(db'.sessions) \in Nat /\ DOMAIN db'.sessions = 1..Len(db'.sessions)
              /\ Len(db.sessions) \in Nat /\ DOMAIN db.sessions = 1..Len(db.sessions)
            <4>1. db'.sessions \in Seq(Row)
                BY DEF IInv, Typed, Tables
            <4> QED
                BY <4>1, TablesTyped, LenProperties DEF IInv
        <3> QED
            BY <2>3, <3>1, SameInterval
    <2> QED
        BY <1>1, <2>4, <2>5, LimitShrinks
<1> QED
    BY <1>2, <1>3, <1>4

\* A refresh brings a session back only as one that is remembered.
LEMMA RotateLimit == ASSUME IInv, LInv, IInv', NEW c \in Slots, Rotate(c) PROVE LInv'
<1> DEFINE r == calls[c].session
<1>1. calls[c].at = "rotate" /\ Go(c, Idle)
    BY DEF Rotate, Waits, Return
<1>2. PICK row : db'.sessions = [db.sessions EXCEPT ![r] = row] /\ row.byCode = db.sessions[r].byCode
    <2> DEFINE row == [db.sessions[r] EXCEPT !.token = Len(db.tokens) + 1,
                                             !.version = calls[c].seen.version + 1,
                                             !.status = "active", !.lapsed = FALSE]
    <2>1. \E tokens : db' = [db EXCEPT !.tokens = tokens, !.sessions = [db.sessions EXCEPT ![r] = row]]
        BY DEF Rotate
    <2> HIDE DEF row
    <2>2. db'.sessions = [db.sessions EXCEPT ![r] = row]
        BY <2>1, StateTyped DEF Tables
    <2>3. r \in DOMAIN db.sessions
        BY <1>1 DEF IInv, Linked, Renewable, Refreshing
    <2>4. db.sessions[r] \in Row
        BY <2>3, TablesTyped DEF IInv
    <2>5. row.byCode = db.sessions[r].byCode
        BY <2>4 DEF Row, row
    <2> QED
        BY <2>2, <2>5
<1>3. /\ history'.unpruned = history.unpruned
      /\ history'.revived = IF r \in Active /\ ~db.sessions[r].lapsed THEN history.revived
                                                                    ELSE history.revived \cup {r}
    BY StateTyped DEF Rotate, History
<1>4. DOMAIN db'.sessions = DOMAIN db.sessions
    BY <1>2
<1>5. Counted' \subseteq Counted
    <2>1. ASSUME NEW s \in DOMAIN db'.sessions,
                 db'.sessions[s].status = "active", ~db'.sessions[s].lapsed, ~db'.sessions[s].byCode
          PROVE  \/ /\ s \in DOMAIN db.sessions
                    /\ db.sessions[s].status = "active" /\ ~db.sessions[s].lapsed /\ ~db.sessions[s].byCode
                 \/ s \in history'.revived
        BY <1>2, <1>3, <1>4, <2>1 DEF Active
    <2>2. history.revived \subseteq history'.revived /\ history.unpruned \subseteq history'.unpruned
        BY <1>3
    <2> QED
        BY <2>1, <2>2, CountsNoMore
<1>6. Len(db'.sessions) >= Len(db.sessions)
    <2>1. /\ Len(db'.sessions) \in Nat /\ DOMAIN db'.sessions = 1..Len(db'.sessions)
          /\ Len(db.sessions) \in Nat /\ DOMAIN db.sessions = 1..Len(db.sessions)
        <3>1. db'.sessions \in Seq(Row)
            BY DEF IInv, Typed, Tables
        <3> QED
            BY <3>1, TablesTyped, LenProperties DEF IInv
    <2> QED
        BY <1>4, <2>1, SameInterval
<1>7. \A d \in Slots : calls'[d] = calls[d] \/ (~Logs(calls'[d]) /\ ~Logs(calls[d]))
    BY <1>1, StateTyped DEF Go, Logs, Idle
<1> QED
    BY <1>5, <1>6, <1>7, LimitShrinks

\* The session of a login that is cut short no longer counts.
LEMMA RejectLimit == ASSUME IInv, LInv, IInv', NEW c \in Slots, Reject(c) PROVE LInv'
<1>1. db' = db /\ Go(c, Idle)
    BY DEF Reject, Return
<1>2. /\ history'.revived = history.revived
      /\ history'.unpruned = IF Logs(calls[c]) THEN history.unpruned \cup {calls[c].own} ELSE history.unpruned
    BY StateTyped DEF Reject, History, Logs
<1>3. Counted' \subseteq Counted /\ (Logs(calls[c]) => calls[c].own \notin Counted')
    BY <1>1, <1>2 DEF Counted, Active
<1>4. \A d \in Slots : calls'[d] = IF d = c THEN Idle ELSE calls[d]
    BY <1>1, StateTyped DEF Go
<1>5. ~Logs(Idle)
    BY DEF Logs, Idle
<1>6. \A d \in Slots :
          \/ calls'[d] = calls[d]
          \/ ~Logs(calls'[d]) /\ (Logs(calls[d]) => calls[d].own \notin Counted')
    BY <1>3, <1>4, <1>5
<1>7. Len(db'.sessions) >= Len(db.sessions)
    BY <1>1, CountedFinite
<1> QED
    BY <1>3, <1>6, <1>7, LimitShrinks

\* A new session of a login belongs to that login, which has yet to prune.
LEMMA CreateLimit == ASSUME IInv, LInv, IInv', NEW c \in Slots, CreateSession(c) PROVE LInv'
<1> DEFINE j == calls[c].code
           l == Len(db.sessions)
<1>1. l \in Nat /\ DOMAIN db.sessions = 1..l
    BY TablesTyped DEF IInv
<1>2. PICK row :
          /\ row = [token |-> Len(db.tokens) + 1, version |-> 1, passwordVersion |-> calls[c].seen,
                    status |-> "active", lapsed |-> FALSE, byCode |-> j # 0]
          /\ db'.sessions = Append(db.sessions, row)
    <2>1. PICK row, tokens :
              /\ row = [token |-> Len(db.tokens) + 1, version |-> 1, passwordVersion |-> calls[c].seen,
                        status |-> "active", lapsed |-> FALSE, byCode |-> j # 0]
              /\ db' = [db EXCEPT !.tokens = tokens, !.sessions = Append(db.sessions, row)]
        BY DEF CreateSession
    <2>2. db'.sessions = Append(db.sessions, row)
        BY <2>1, StateTyped DEF Tables
    <2> QED
        BY <2>1, <2>2
<1>3. /\ Len(db'.sessions) = l + 1 /\ DOMAIN db'.sessions = 1..(l + 1)
      /\ \A s \in 1..l : db'.sessions[s] = db.sessions[s]
      /\ db'.sessions[l + 1].byCode = (j # 0)
    <2>1. db'.sessions \in Seq(Row) /\ db.sessions \in Seq(Row)
        BY DEF IInv, Typed, Tables
    <2>2. Len(db'.sessions) = l + 1
        BY <1>2 DEF Append, Len
    <2> QED
        BY <1>1, <1>2, <2>1, <2>2, LenProperties DEF Append
<1>4. history'.revived = history.revived /\ history'.unpruned = history.unpruned
    BY StateTyped DEF CreateSession, History
<1>5. /\ calls[c].at = "create"
      /\ \A d \in Slots : calls'[d] = IF d # c THEN calls[d]
                                      ELSE IF j = 0 THEN [at |-> "list", own |-> l + 1] ELSE Idle
    BY StateTyped DEF CreateSession, Waits, Return, Go
<1>6. Counted' \subseteq Counted \cup {l + 1} /\ (j # 0 => Counted' \subseteq Counted)
    <2>1. ASSUME NEW s \in Counted', s # l + 1 PROVE s \in Counted
        <3>1. s \in 1..l /\ db'.sessions[s] = db.sessions[s]
            BY <1>1, <1>3, <2>1 DEF Counted, Active
        <3> QED
            BY <1>1, <1>4, <2>1, <3>1 DEF Counted, Active
    <2>2. j # 0 => l + 1 \notin Counted'
        BY <1>3 DEF Counted, Active
    <2> QED
        BY <2>1, <2>2
<1> HIDE DEF j, l
<1>7. Len(db'.sessions) >= Len(db.sessions) /\ Len(db.sessions) = l
    BY <1>1, <1>3 DEF l
<1>8. CASE j # 0
    <2>1. \A d \in Slots : calls'[d] = calls[d] \/ (~Logs(calls'[d]) /\ ~Logs(calls[d]))
        BY <1>5, <1>8 DEF Logs, Idle
    <2> QED
        BY <1>6, <1>7, <1>8, <2>1, LimitShrinks
<1>9. CASE j = 0
    <2>1. \A n \in 0..l : UpTo(n)' \in SUBSET UpTo(n)
        BY <1>1, <1>6 DEF UpTo
    <2>2. /\ calls'[c].at = "list" /\ calls'[c].own = l + 1 /\ Logs(calls'[c]) /\ ~Logs(calls[c])
          /\ \A d \in Slots : d # c => calls'[d] = calls[d]
        BY <1>5, <1>9 DEF Logs
    <2>3. PICK n \in 0..l : Settled(n)
        BY <1>7 DEF LInv
    <2>4. Settled(n)'
        <3>1. Cardinality(UpTo(n)') <= MaxPerUser + 1
            BY <2>1, <2>3, CountedFinite, FewerAtMost DEF Settled
        <3>2. ASSUME NEW s \in Counted', s > n PROVE \E d \in Slots : Logs(calls'[d]) /\ calls'[d].own = s
            <4>1. CASE s = l + 1
                BY <2>2, <4>1
            <4>2. CASE s # l + 1
                <5>1. PICK d \in Slots : Logs(calls[d]) /\ calls[d].own = s
                    BY <1>6, <2>3, <3>2, <4>2 DEF Settled
                <5> QED
                    BY <2>2, <5>1
            <4> QED
                BY <4>1, <4>2
        <3> QED
            BY <3>1, <3>2 DEF Settled, Logs
    <2>5. ASSUME NEW d \in Slots
          PROVE  /\ calls'[d].at = "list" => calls'[d].own <= Len(db'.sessions)
                 /\ calls'[d].at = "prune" => \E m \in 0..Len(db'.sessions) : Settles(d, m)'
        <3>1. CASE d = c
            BY <1>1, <1>3, <2>2, <3>1
        <3>2. CASE d # c
            <4>1. calls'[d] = calls[d]
                BY <2>2, <3>2
            <4>2. CASE calls[d].at = "list"
                <5>1. calls[d].own \in Nat /\ calls[d].own <= l
                    BY <1>7, <4>2, StateTyped, CallShape DEF LInv, Listing
                <5> QED
                    BY <1>1, <1>3, <4>1, <4>2, <5>1
            <4>3. CASE calls[d].at = "prune"
                <5>1. PICK m \in 0..l : Settles(d, m)
                    BY <1>7, <4>3 DEF LInv
                <5>2. UpTo(m)' \ calls'[d].surplus \in SUBSET (UpTo(m) \ calls[d].surplus)
                    BY <2>1, <4>1
                <5>3. IsFiniteSet(UpTo(m) \ calls[d].surplus)
                    BY CountedFinite, FS_Subset
                <5>4. Cardinality(UpTo(m)' \ calls'[d].surplus) <= MaxPerUser + 1
                    BY <5>1, <5>2, <5>3, CountedFinite, FewerAtMost DEF Settles
                <5>5. Settles(d, m)'
                    BY <4>1, <5>1, <5>4 DEF Settles
                <5>6. m \in 0..Len(db'.sessions)
                    BY <1>1, <1>3
                <5> QED
                    BY <4>1, <4>3, <5>5, <5>6
            <4> QED
                BY <4>1, <4>2, <4>3
        <3> QED
            BY <3>1, <3>2
    <2>6. n \in 0..Len(db'.sessions)
        BY <1>1, <1>3
    <2> QED
        BY <2>4, <2>5, <2>6 DEF LInv
<1> QED
    BY <1>8, <1>9

\* pruneSessions leaves the session of its login and as many others as the limit says.
LEMMA SurplusLeaves ==
    ASSUME IInv, NEW own \in Nat
    PROVE  Cardinality(Counted \ Surplus(own, MaxPerUser)) <= MaxPerUser + 1
<1> DEFINE listed == {s \in Active : ~db.sessions[s].lapsed}
           others == listed \ {own}
           kept == {s \in others : ~(Cardinality({o \in others : o > s}) >= MaxPerUser)}
           left == Counted \ Surplus(own, MaxPerUser)
<1>1. listed \in SUBSET Nat /\ IsFiniteSet(listed) /\ MaxPerUser \in Nat /\ Counted \subseteq listed
    <2>1. /\ Len(db.sessions) \in Nat /\ listed \in SUBSET (1..Len(db.sessions))
          /\ IsFiniteSet(1..Len(db.sessions))
        <3>1. Len(db.sessions) \in Nat /\ listed \in SUBSET (1..Len(db.sessions))
            BY TablesTyped DEF IInv, Active
        <3>2. \A n \in Nat : IsFiniteSet(1..n)
            BY FS_Interval
        <3> QED
            BY <3>1, <3>2
    <2> HIDE DEF listed
    <2>2. IsFiniteSet(listed)
        BY <2>1, FS_Subset
    <2> USE DEF listed
    <2> QED
        BY <2>1, <2>2, AuthBounds DEF Counted
<1>2. CASE Cardinality(listed) <= MaxPerUser
    <2>1. left \in SUBSET listed
        BY <1>1
    <2> HIDE DEF listed, left
    <2>2. Cardinality(left) <= MaxPerUser
        BY <1>1, <1>2, <2>1, FewerAtMost
    <2>3. Cardinality(left) \in Nat
        BY <1>1, <2>1, FS_Subset, FS_CardinalityType
    <2>4. Cardinality(left) <= MaxPerUser + 1
        BY <1>1, <2>2, <2>3
    <2> QED
        BY <2>4 DEF left
<1>3. CASE ~(Cardinality(listed) <= MaxPerUser)
    <2>1. left \in SUBSET (kept \cup {own})
        BY <1>1, <1>3 DEF Surplus
    <2>2. others \in SUBSET Nat /\ IsFiniteSet(others)
        BY <1>1, FS_Subset
    <2>3. IsFiniteSet(kept) /\ Cardinality(kept) <= MaxPerUser
        <3> HIDE DEF others
        <3> QED
            BY <1>1, <2>2, YoungestAreFew
    <2> HIDE DEF kept, left
    <2>4. IsFiniteSet(kept \cup {own}) /\ Cardinality(kept \cup {own}) <= MaxPerUser + 1
        <3>1. /\ IsFiniteSet(kept \cup {own}) /\ Cardinality(kept) \in Nat
              /\ \/ Cardinality(kept \cup {own}) = Cardinality(kept)
                 \/ Cardinality(kept \cup {own}) = Cardinality(kept) + 1
            BY <2>3, FS_AddElement, FS_CardinalityType
        <3> QED
            BY <1>1, <2>3, <3>1
    <2>5. Cardinality(left) <= MaxPerUser + 1
        BY <1>1, <2>1, <2>4, FewerAtMost, CountedFinite
    <2> QED
        BY <2>5 DEF left
<1> QED
    BY <1>2, <1>3

LEMMA ListLimit == ASSUME IInv, LInv, IInv', NEW c \in Slots, List(c) PROVE LInv'
<1>0. PICK l : l = Len(db.sessions)
    OBVIOUS
<1> DEFINE own == calls[c].own
<1>00. PICK surplus : surplus = Surplus(own, MaxPerUser)
    OBVIOUS
<1> DEFINE next == IF surplus = {} THEN Idle ELSE [at |-> "prune", own |-> own, surplus |-> surplus]
<1>1. calls[c].at = "list" /\ db' = db /\ history' = history /\ Go(c, next)
    BY <1>00 DEF List, Waits, Return
<1>2. l \in Nat /\ own \in Nat /\ own <= l
    <2>1. calls[c] \in Listing
        BY <1>1, StateTyped, CallShape
    <2> QED
        BY <1>0, <1>1, <2>1, CountedFinite DEF LInv, Listing
<1>3. Counted' = Counted /\ Len(db'.sessions) = l
    BY <1>0, <1>1 DEF Counted, Active
<1>4. UpTo(l) = Counted
    BY <1>0, <1>2, CountedFinite DEF UpTo
<1>5. Cardinality(UpTo(l) \ surplus) <= MaxPerUser + 1
    BY <1>00, <1>2, <1>4, SurplusLeaves
<1>6. calls'[c] = next /\ \A d \in Slots : d # c => calls'[d] = calls[d]
    BY <1>1, StateTyped DEF Go
<1>7. \A n : UpTo(n)' = UpTo(n)
    BY <1>3 DEF UpTo
<1> HIDE DEF own
<1>8. \E n \in 0..l : Settled(n)'
    <2>1. CASE surplus = {}
        <3>1. UpTo(l) \ surplus = UpTo(l)
            BY <2>1
        <3>2. Cardinality(UpTo(l)') <= MaxPerUser + 1
            BY <1>5, <1>7, <3>1
        <3>3. \A s \in Counted' : ~(s > l)
            BY <1>0, <1>2, <1>3, CountedFinite
        <3> QED
            BY <1>2, <3>2, <3>3 DEF Settled
    <2>2. CASE surplus # {}
        <3>1. PICK n \in 0..l : Settled(n)
            BY <1>0 DEF LInv
        <3>2. \A d \in Slots : Logs(calls[d]) => Logs(calls'[d]) /\ calls'[d].own = calls[d].own
            BY <1>6, <2>2 DEF Logs, own
        <3>3. Settled(n)'
            BY <1>2, <1>3, <3>1, <3>2, SettledShrinks
        <3> QED
            BY <3>3
    <2> QED
        BY <2>1, <2>2
<1>9. ASSUME NEW d \in Slots
      PROVE  /\ calls'[d].at = "list" => calls'[d].own <= Len(db'.sessions)
             /\ calls'[d].at = "prune" => \E m \in 0..Len(db'.sessions) : Settles(d, m)'
    <2>1. CASE d = c
        <3>1. CASE surplus = {}
            BY <1>6, <2>1, <3>1 DEF Idle
        <3>2. CASE surplus # {}
            <4>1. calls'[d] = [at |-> "prune", own |-> own, surplus |-> surplus]
                BY <1>6, <2>1, <3>2
            <4>2. calls'[d].at = "prune" /\ calls'[d].own = own /\ calls'[d].surplus = surplus
                BY <4>1
            <4>3. UpTo(l)' \ calls'[d].surplus = UpTo(l) \ surplus
                BY <1>7, <4>2
            <4>4. calls'[d].own <= l /\ Cardinality(UpTo(l)' \ calls'[d].surplus) <= MaxPerUser + 1
                BY <1>2, <1>5, <4>2, <4>3
            <4>5. \A m : m = l => Settles(d, m)'
                BY <4>4 DEF Settles
            <4>6. \E m \in 0..l : Settles(d, m)'
                BY <1>2, <4>5
            <4> QED
                BY <1>3, <4>2, <4>6
        <3> QED
            BY <3>1, <3>2
    <2>2. CASE d # c
        <3>1. calls'[d] = calls[d]
            BY <1>6, <2>2
        <3>2. calls[d].at = "prune" => \E m \in 0..l : Settles(d, m)'
            <4>1. SUFFICES ASSUME calls[d].at = "prune" PROVE \E m \in 0..l : Settles(d, m)'
                OBVIOUS
            <4>2. PICK m \in 0..l : Settles(d, m)
                BY <1>0, <4>1 DEF LInv
            <4>3. Settles(d, m)'
                BY <1>7, <3>1, <4>2 DEF Settles
            <4> QED
                BY <4>3
        <3>3. calls[d].at = "list" => calls[d].own <= l
            BY <1>0 DEF LInv
        <3> QED
            BY <1>3, <3>1, <3>2, <3>3
    <2> QED
        BY <2>1, <2>2
<1> QED
    BY <1>3, <1>8, <1>9 DEF LInv

LEMMA PruneLimit == ASSUME IInv, LInv, IInv', NEW c \in Slots, Prune(c) PROVE LInv'
<1> DEFINE l == Len(db.sessions)
           own == calls[c].own
<1>1. PICK s \in calls[c].surplus :
          /\ db' = [db EXCEPT !.sessions = Revoke({s})]
          /\ IF calls[c].surplus = {s} THEN Go(c, Idle) ELSE Go(c, [calls[c] EXCEPT !.surplus = @ \ {s}])
    BY DEF Prune, Return
<1>2. calls[c].at = "prune" /\ history' = history /\ calls[c] \in Pruning
    BY StateTyped, CallShape DEF Prune, Waits
<1>3. own \in Nat /\ l \in Nat
    BY <1>2, CountedFinite DEF Pruning
<1>4. Len(db'.sessions) = l /\ Counted' \subseteq Counted \ {s}
    <2>1. db'.sessions = Revoke({s})
        BY <1>1, StateTyped DEF Tables
    <2>2. PICK ended : ended = {s}
        OBVIOUS
    <2>3. /\ Len(db'.sessions) = l /\ DOMAIN db'.sessions = DOMAIN db.sessions
          /\ \A o \in DOMAIN db.sessions :
                 /\ db'.sessions[o].status = "active" => db.sessions[o].status = "active" /\ o \notin ended
                 /\ db'.sessions[o].lapsed = db.sessions[o].lapsed
                 /\ db'.sessions[o].byCode = db.sessions[o].byCode
        BY <2>1, <2>2, RevokedRows
    <2> QED
        BY <1>2, <2>2, <2>3 DEF Counted, Active
<1>5. PICK n \in 0..l : Settled(n)
    BY DEF LInv
<1>6. PICK m \in 0..l : Settles(c, m)
    BY <1>2 DEF LInv
<1>7. ASSUME NEW d \in Slots, d # c
      PROVE  /\ calls'[d] = calls[d]
             /\ calls'[d].at = "list" => calls'[d].own <= l
             /\ calls'[d].at = "prune" => \E k \in 0..l : Settles(d, k)'
    <2>1. calls'[d] = calls[d]
        BY <1>1, <1>7, StateTyped DEF Go
    <2>2. calls[d].at = "list" => calls[d].own <= l
        BY DEF LInv
    <2>3. ASSUME calls[d].at = "prune" PROVE \E k \in 0..l : Settles(d, k)'
        <3>1. PICK k \in 0..l : Settles(d, k)
            BY <2>3 DEF LInv
        <3>2. Settles(d, k)'
            BY <1>4, <2>1, <3>1, SettlesShrinks
        <3> QED
            BY <3>2
    <2> QED
        BY <2>1, <2>2, <2>3
<1> HIDE DEF l
<1>8. CASE calls[c].surplus # {s}
    <2>1. /\ calls'[c].at = "prune" /\ calls'[c].own = own /\ calls'[c].surplus = calls[c].surplus \ {s}
        <3>1. calls'[c] = [calls[c] EXCEPT !.surplus = @ \ {s}]
            BY <1>1, <1>8, StateTyped DEF Go
        <3> QED
            BY <1>2, <3>1 DEF Pruning
    <2>2. Settles(c, m)'
        <3>1. Counted' \ calls'[c].surplus \subseteq Counted \ calls[c].surplus
            BY <1>4, <2>1
        <3> QED
            BY <1>6, <2>1, <3>1, SettlesShrinks
    <2>3. Settled(n)'
        <3>1. \A d \in Slots : Logs(calls[d]) => Logs(calls'[d]) /\ calls'[d].own = calls[d].own
            BY <1>7, <2>1 DEF Logs
        <3> QED
            BY <1>4, <1>5, <3>1, SettledShrinks
    <2>4. \A d \in Slots :
              /\ calls'[d].at = "list" => calls'[d].own <= l
              /\ calls'[d].at = "prune" => \E k \in 0..l : Settles(d, k)'
        BY <1>7, <2>1, <2>2
    <2> QED
        BY <1>4, <2>3, <2>4 DEF LInv
<1>9. CASE calls[c].surplus = {s}
    <2>1. calls'[c] = Idle /\ calls'[c].at = "idle"
        BY <1>1, <1>9, StateTyped DEF Go, Idle
    <2>2. \E k \in 0..l : Settled(k)'
        <3>1. CASE own <= n
            <4>1. Counted' \subseteq Counted
                BY <1>4
            <4>2. ASSUME NEW o \in Counted', NEW d \in Slots, o > n, Logs(calls[d]), calls[d].own = o
                  PROVE  \E e \in Slots : Logs(calls'[e]) /\ calls'[e].own = o
                <5>1. d # c
                    BY <1>3, <3>1, <4>2
                <5> QED
                    BY <1>7, <4>2, <5>1
            <4>3. Settled(n)'
                BY <1>5, <4>1, <4>2, SettledShrinks
            <4> QED
                BY <4>3
        <3>2. CASE ~(own <= n)
            <4>1. UpTo(m)' \in SUBSET (UpTo(m) \ calls[c].surplus)
                BY <1>4, <1>9 DEF UpTo
            <4>2. IsFiniteSet(UpTo(m) \ calls[c].surplus)
                BY CountedFinite, FS_Subset
            <4>3. Cardinality(UpTo(m)') <= MaxPerUser + 1
                BY <1>6, <4>1, <4>2, CountedFinite, FewerAtMost DEF Settles
            <4>4. ASSUME NEW o \in Counted', o > m
                  PROVE  \E e \in Slots : Logs(calls'[e]) /\ calls'[e].own = o
                <5>1. own <= m /\ o \in Counted /\ o \in Nat
                    BY <1>4, <1>6, <4>4, CountedFinite DEF Settles
                <5>2. o > n /\ o # own
                    BY <1>3, <3>2, <4>4, <5>1
                <5>3. PICK d \in Slots : Logs(calls[d]) /\ calls[d].own = o
                    BY <1>5, <5>1, <5>2 DEF Settled
                <5>4. d # c
                    BY <5>2, <5>3
                <5> QED
                    BY <1>7, <5>3, <5>4
            <4>5. Settled(m)'
                BY <4>3, <4>4 DEF Settled, Logs
            <4> QED
                BY <4>5
        <3> QED
            BY <3>1, <3>2
    <2>3. \A d \in Slots :
              /\ calls'[d].at = "list" => calls'[d].own <= l
              /\ calls'[d].at = "prune" => \E k \in 0..l : Settles(d, k)'
        BY <1>7, <2>1
    <2> QED
        BY <1>4, <2>2, <2>3 DEF LInv
<1> QED
    BY <1>8, <1>9

LEMMA NextLimit == IInv /\ LInv /\ [Next]_vars /\ IInv' => LInv'
<1> SUFFICES ASSUME IInv, LInv, [Next]_vars, IInv' PROVE LInv'
    OBVIOUS
<1>1. ASSUME NEW c \in Slots,
             \/ Register(c) \/ InsertUser(c) \/ InsertCredential(c) \/ Login(c) \/ Verify(c)
             \/ (\E t \in DOMAIN db.tokens : Refresh(c, t))
             \/ FindUser(c) \/ (\E s \in DOMAIN db.sessions : Logout(c, s))
             \/ RevokeOne(c) \/ UpdatePassword(c) \/ Change(c) \/ EndAll(c) \/ RequestReset(c) \/ CreateReset(c)
             \/ (\E r \in DOMAIN db.resets : ConfirmReset(c, r))
             \/ FindCredential(c) \/ MarkReset(c)
             \/ (\E k \in DOMAIN db.codes : Exchange(c, k))
             \/ MarkCode(c) \/ CodeUser(c) \/ CodeCredential(c)
      PROVE  LInv'
    BY <1>1, EndingSteps
<1>2. ASSUME NEW c \in Slots, CreateSession(c) \/ List(c) \/ Prune(c) \/ Rotate(c) \/ Reject(c) PROVE LInv'
    BY <1>2, CreateLimit, ListLimit, PruneLimit, RotateLimit, RejectLimit
<1>3. CASE \/ \E c \in Slots :
                 \/ \E except \in {{}} \cup {{s} : s \in DOMAIN db.sessions} : LogoutAll(c, except)
                 \/ GenerateCode(c)
           \/ \E status \in {"active", "suspended"} : SetStatus(status)
           \/ \E s \in DOMAIN db.sessions : Lapse(s)
    BY <1>3, LimitOutside
<1>4. CASE UNCHANGED vars
    <2>1. db' = db /\ calls' = calls /\ history' = history
        BY <1>4 DEF vars
    <2> QED
        BY <2>1, LimitEnding
<1> QED
    BY <1>1, <1>2, <1>3, <1>4 DEF Next

LEMMA InitLimit == Init => LInv
<1> SUFFICES ASSUME Init PROVE LInv
    OBVIOUS
<1>1. Counted = {} /\ 0 \in 0..Len(db.sessions)
    BY DEF Init, Counted, Active
<1>2. UpTo(0) = {} /\ Cardinality(UpTo(0)) = 0
    BY <1>1, FS_EmptySet DEF UpTo
<1>3. Settled(0)
    BY <1>1, <1>2, AuthBounds DEF Settled
<1>4. \A c \in Slots : calls[c].at = "idle"
    BY DEF Init, Idle
<1> QED
    BY <1>1, <1>3, <1>4 DEF LInv

\* However many logins overlap, a user keeps at most one session more than the limit once none
\* of them is between its INSERT and the end of its pruning (pruneSessions of auth.service.ts);
\* sessions that came from codes, were brought back by a refresh or whose login was cut short
\* are not counted.
THEOREM PruningLeavesOneMore == Spec => []OneMoreThanLimit
<1>1. IInv /\ LInv => OneMoreThanLimit
    <2> SUFFICES ASSUME IInv, LInv, \A c \in Slots : ~Entering(c)
                 PROVE  Cardinality(Counted) <= MaxPerUser + 1
        BY DEF OneMoreThanLimit
    <2>1. PICK n \in 0..Len(db.sessions) : Settled(n)
        BY DEF LInv
    <2>2. \A s \in Counted : ~(s > n)
        BY <2>1 DEF Settled, Logs, Entering
    <2>3. Counted = UpTo(n)
        BY <2>2, CountedFinite DEF UpTo
    <2> QED
        BY <2>1, <2>3 DEF Settled
<1>2. IInv /\ LInv /\ [Next]_vars => IInv' /\ LInv'
    BY NextIInv, NextLimit
<1>3. Init => IInv /\ LInv
    BY InitIInv, InitLimit
<1> QED
    BY <1>1, <1>2, <1>3, PTL DEF Spec
=============================================================================
