--------------------------- MODULE AccountsProofs ---------------------------
(***************************************************************************)
(* Proofs about tokens and profiles, for any number of users, requests,    *)
(* handlers, edits and tokens.                                             *)
(***************************************************************************)
EXTENDS Accounts, SequenceTheorems, TLAPS

\* A request that is under way, and an edit that is, are records.
LEMMA RecordTypes ==
    ASSUME AuthTypes, UserTypes
    PROVE  /\ \A r \in Requests : Issuing(r) => request[r] \in IssuingRecord
           /\ \A r \in Requests : request[r].at = "answering" => request[r] \in AnsweringRecord
           /\ \A e \in Editors : edit[e] # NoEdit => edit[e] \in EditRecord
           /\ \A e \in Editors : edit[e].at \in {"read", "saving"} => edit[e] # NoEdit
BY DEF AuthTypes, UserTypes, Issuing, NoRequest, NoEdit, IssuingRecord, AnsweringRecord

\* The initial state satisfies the inductive invariant.
LEMMA AccountsInitially == Init => AccountsInv
<1> SUFFICES ASSUME Init PROVE AccountsInv
    OBVIOUS
<1> USE AccountsAssumption DEF Init
<1>1. NewProfile \in Profile
    BY DEF NewProfile, Profile
<1>2. AuthTypes /\ UserTypes
    BY <1>1 DEF AuthTypes, UserTypes
<1>3. ExchangeInv /\ ClosedInv
    BY DEF ExchangeInv, StoredInv, IssuingInv, ClosedInv, Issuing, IssuingFor, NoRequest
<1>4. EditInv /\ EventInv
    BY DEF EditInv, EventInv
<1> QED BY <1>2, <1>3, <1>4 DEF AccountsInv

\* A token handed to StartIssuing is one that was issued, and has no rival yet
\* to make up for.
LEMMA StartKeepsExchanges ==
    ASSUME AuthTypes, ExchangeInv, NEW r \in Requests, NEW u \in Users, NEW n \in Nat,
           n = 0 \/ n = refreshToken[u], StartIssuing(r, u, n), UNCHANGED tokenVars
    PROVE  ExchangeInv'
<1> USE DEF tokenVars
<1>1. request'[r] = [at |-> "issuing", user |-> u, from |-> n]
    BY DEF StartIssuing, AuthTypes
<1>2. \A s \in Requests : s # r => request'[s] = request[s]
    BY DEF StartIssuing, AuthTypes
<1>3. n <= Len(tokens[u])
    BY LenProperties DEF ExchangeInv, StoredInv, AuthTypes
<1>4. Fresh(u, n)'
    BY <1>3 DEF ExchangeInv, StoredInv, Fresh
<1>5. \A v, p : Fresh(v, p)' <=> Fresh(v, p)
    BY DEF Fresh
<1>6. IssuingInv'
    BY <1>1, <1>2, <1>4, <1>5 DEF ExchangeInv, IssuingInv, Issuing
<1>7. StoredInv'
    BY DEF ExchangeInv, StoredInv
<1> QED BY <1>6, <1>7 DEF ExchangeInv

\* Register, Login and Refresh keep the types of auth-service.
LEMMA StartKeepsTypes ==
    ASSUME AuthTypes, NEW r \in Requests, NEW u \in Users, NEW n \in Nat, StartIssuing(r, u, n)
    PROVE  request' \in [Requests -> {NoRequest} \cup IssuingRecord \cup AnsweringRecord]
<1>1. [at |-> "issuing", user |-> u, from |-> n] \in IssuingRecord
    BY DEF IssuingRecord
<1> QED BY <1>1 DEF StartIssuing, AuthTypes

\* Two users, of whom one has a new request: the other's are the same.
LEMMA StartKeepsClosed ==
    ASSUME AuthTypes, ClosedInv, NEW r \in Requests, NEW u \in Users, NEW n \in Nat,
           StartIssuing(r, u, n), closed' \subseteq closed \ {u}, UNCHANGED tokenVars
    PROVE  ClosedInv'
<1>1. request'[r] = [at |-> "issuing", user |-> u, from |-> n]
    BY DEF StartIssuing, AuthTypes
<1>2. \A s \in Requests : s # r => request'[s] = request[s]
    BY DEF StartIssuing, AuthTypes
<1> QED BY <1>1, <1>2 DEF ClosedInv, IssuingFor, Issuing, tokenVars

\* A request that ends, or goes on to its answer, takes nothing away.
LEMMA EndKeepsExchanges ==
    ASSUME ExchangeInv, ClosedInv, UNCHANGED <<refreshToken, tokens, rival, closed>>,
           \A s \in Requests : Issuing(s)' => request'[s] = request[s]
    PROVE  ExchangeInv' /\ ClosedInv'
<1>1. \A s \in Requests : Issuing(s)' => Issuing(s) /\ request'[s] = request[s]
    BY DEF Issuing
<1>2. ExchangeInv'
    BY <1>1 DEF ExchangeInv, StoredInv, IssuingInv, Fresh
<1>3. ClosedInv'
    BY <1>1 DEF ClosedInv, IssuingFor
<1> QED BY <1>2, <1>3

\* IssueTokens: the new token was exchanged for nothing yet, and the requests
\* that started from the same token as this one now have a rival.
LEMMA IssueKeepsExchanges ==
    ASSUME AuthTypes, UserTypes, ExchangeInv, NEW r \in Requests, IssueTokens(r)
    PROVE  ExchangeInv'
<1> DEFINE u == request[r].user
           p == request[r].from
           k == Len(tokens[u]) + 1
<1>1. Issuing(r) /\ request[r] \in IssuingRecord
    BY RecordTypes DEF IssueTokens
<1>2. u \in Users /\ p \in Nat
    BY <1>1 DEF IssuingRecord
<1>3. /\ tokens[u] \in Seq(Nat)
      /\ Len(tokens[u]) \in Nat
      /\ DOMAIN tokens[u] = 1..Len(tokens[u])
    BY <1>2, LenProperties DEF AuthTypes
<1>4. /\ tokens'[u] = Append(tokens[u], p)
      /\ refreshToken'[u] = k
      /\ rival[u] \subseteq rival'[u]
      /\ \A v \in Users : v # u => /\ tokens'[v] = tokens[v]
                                  /\ refreshToken'[v] = refreshToken[v]
                                  /\ rival'[v] = rival[v]
    BY <1>2 DEF IssueTokens, AuthTypes, SignedToken
<1>5. /\ Len(tokens'[u]) = k
      /\ DOMAIN tokens'[u] = 1..k
      /\ \A n \in 1..Len(tokens[u]) : tokens'[u][n] = tokens[u][n]
      /\ tokens'[u][k] = p
    BY <1>2, <1>3, <1>4, AppendProperties
<1>6. /\ p <= Len(tokens[u])
      /\ \A n \in DOMAIN tokens[u] : tokens[u][n] < n
    BY <1>1, <1>2 DEF ExchangeInv, StoredInv, IssuingInv, Fresh
<1>7. \A n \in DOMAIN tokens'[u] : tokens'[u][n] < n /\ tokens'[u][n] # k
    <2> SUFFICES ASSUME NEW n \in 1..k PROVE tokens'[u][n] < n /\ tokens'[u][n] # k
        BY <1>5
    <2>1. CASE n = k
        BY <2>1, <1>2, <1>3, <1>5, <1>6
    <2>2. CASE n # k
        <3>1. n \in 1..Len(tokens[u])
            BY <2>2, <1>3
        <3>2. tokens[u][n] \in Nat
            BY <3>1, <1>3, ElementOfSeq
        <3> QED BY <3>1, <3>2, <1>3, <1>5, <1>6, SMTT(30)
    <2> QED BY <2>1, <2>2
<1>8. /\ k \in Nat /\ k = Len(tokens[u]) + 1
      /\ \A s \in IssuingFor(u) \ {r} : request[s].from = p => p \in rival'[u]
      /\ \A s \in Requests : Issuing(s)' => s # r /\ Issuing(s) /\ request'[s] = request[s]
    BY <1>2, <1>3 DEF IssueTokens, Issuing, AuthTypes
<1> HIDE DEF u, p, k
<1>9. StoredInv'
    <2> SUFFICES ASSUME NEW v \in Users
                 PROVE  /\ refreshToken'[v] <= Len(tokens'[v])
                        /\ \A n \in DOMAIN tokens'[v] : tokens'[v][n] < n
                        /\ refreshToken'[v] # 0 =>
                              \A n \in DOMAIN tokens'[v] : tokens'[v][n] # refreshToken'[v]
        BY DEF StoredInv
    <2>1. CASE v = u
        <3>1. refreshToken'[u] <= Len(tokens'[u])
            BY <1>4, <1>5, <1>8
        <3> QED BY <2>1, <3>1, <1>4, <1>7
    <2>2. CASE v # u
        <3>1. tokens'[v] = tokens[v] /\ refreshToken'[v] = refreshToken[v]
            BY <2>2, <1>4
        <3> QED BY <3>1 DEF ExchangeInv, StoredInv
    <2> QED BY <2>1, <2>2
<1>10. ASSUME NEW s \in Requests, Issuing(s)'
       PROVE  Fresh(request[s].user, request[s].from)'
    <2>1. s # r /\ Issuing(s) /\ request'[s] = request[s]
        BY <1>8, <1>10
    <2>2. request[s] \in IssuingRecord
        BY <2>1, RecordTypes
    <2>3. Fresh(request[s].user, request[s].from)
        BY <2>1 DEF ExchangeInv, IssuingInv
    <2>4. request[s].user \in Users /\ request[s].from \in Nat
        BY <2>2 DEF IssuingRecord
    <2> DEFINE v == request[s].user
               q == request[s].from
    <2>5. CASE v # u
        <3>1. tokens'[v] = tokens[v] /\ rival'[v] = rival[v]
            BY <2>4, <2>5, <1>4
        <3> QED BY <3>1, <2>1, <2>3 DEF Fresh
    <2>6. CASE v = u
        <3>1. q = p => p \in rival'[u]
            BY <2>1, <2>6, <1>8 DEF IssuingFor
        <3>2. q <= Len(tokens[u]) /\ \A n \in 1..Len(tokens[u]) : q # 0 /\ tokens[u][n] = q => q \in rival[u]
            BY <2>3, <2>6, <1>3 DEF Fresh
        <3> HIDE DEF v, q
        <3>3. q <= Len(tokens'[u])
            BY <3>2, <2>4, <1>3, <1>5, <1>8 DEF q
        <3>4. ASSUME NEW n \in 1..k, q # 0, tokens'[u][n] = q
              PROVE  q \in rival'[u]
            <4>1. CASE n = k
                BY <4>1, <3>1, <3>4, <1>5
            <4>2. CASE n # k
                <5>1. n \in 1..Len(tokens[u])
                    BY <4>2, <1>3, <1>8
                <5> QED BY <5>1, <3>2, <3>4, <1>4, <1>5
            <4> QED BY <4>1, <4>2
        <3> QED BY <2>1, <2>6, <3>3, <3>4, <1>5 DEF Fresh, v, q
    <2> QED BY <2>5, <2>6
<1> QED BY <1>9, <1>10 DEF ExchangeInv, IssuingInv

\* The requests for tokens keep what is said of auth-service.
LEMMA TokenStepKeeps ==
    ASSUME AuthTypes, UserTypes, ExchangeInv, ClosedInv, NEW r \in Requests, TokenStep(r)
    PROVE  AuthTypes' /\ ExchangeInv' /\ ClosedInv'
<1>1. ASSUME NEW u \in Users, Register(r, u) \/ Login(r, u)
      PROVE  AuthTypes' /\ ExchangeInv' /\ ClosedInv'
    <2>1. /\ StartIssuing(r, u, 0) /\ closed' = closed \ {u} /\ UNCHANGED tokenVars
          /\ account' = account \cup {u} \/ UNCHANGED account
          /\ event' = [event EXCEPT ![u] = "pending"] \/ UNCHANGED event
        BY <1>1 DEF Register, Login
    <2>2. AuthTypes'
        BY <2>1, StartKeepsTypes DEF AuthTypes, tokenVars
    <2> QED BY <2>1, <2>2, StartKeepsExchanges, StartKeepsClosed
<1>2. ASSUME NEW u \in Users, NEW n \in held[u], Refresh(r, u, n)
      PROVE  AuthTypes' /\ ExchangeInv' /\ ClosedInv'
    <2>1. n \in Nat \ {0}
        BY DEF AuthTypes, Token
    <2>2. /\ StartIssuing(r, u, n) /\ n = refreshToken[u]
          /\ UNCHANGED tokenVars /\ UNCHANGED <<account, event, closed>>
        BY <1>2 DEF Refresh
    <2>3. AuthTypes'
        BY <2>1, <2>2, StartKeepsTypes DEF AuthTypes, tokenVars
    <2>4. u \notin closed
        BY <2>1, <2>2 DEF ClosedInv
    <2> QED BY <2>1, <2>2, <2>3, <2>4, StartKeepsExchanges, StartKeepsClosed
<1>3. CASE IssueTokens(r)
    <2>1. Issuing(r) /\ request[r] \in IssuingRecord /\ request[r].user \in Users
        BY <1>3, RecordTypes DEF IssueTokens, IssuingRecord
    <2>2. /\ tokens[request[r].user] \in Seq(Nat)
          /\ SignedToken(request[r].user) \in Token
        BY <2>1, LenProperties DEF AuthTypes, SignedToken, Token
    <2>3. request' \in [Requests -> {NoRequest} \cup IssuingRecord \cup AnsweringRecord]
        BY <1>3, <2>1, <2>2 DEF IssueTokens, AuthTypes, AnsweringRecord
    <2>4. AuthTypes'
        <3>1. tokens' \in [Users -> Seq(Nat)]
            BY <1>3, <2>1, <2>2, AppendProperties DEF IssueTokens, AuthTypes, IssuingRecord
        <3>2. rival' \in [Users -> SUBSET Nat]
            BY <1>3, <2>1 DEF IssueTokens, AuthTypes, IssuingRecord
        <3>3. refreshToken' \in [Users -> Nat]
            BY <1>3, <2>1, <2>2 DEF IssueTokens, AuthTypes, Token
        <3> QED BY <1>3, <2>3, <3>1, <3>2, <3>3 DEF IssueTokens, AuthTypes
    <2>5. \A s \in Requests : Issuing(s)' => Issuing(s) /\ request'[s] = request[s]
        BY <1>3 DEF IssueTokens, Issuing, AuthTypes
    <2>6. request[r].user \notin closed
        BY <2>1 DEF ClosedInv, IssuingFor
    <2>7. ClosedInv'
        BY <1>3, <2>1, <2>5, <2>6 DEF ClosedInv, IssuingFor, IssueTokens, AuthTypes
    <2> QED BY <1>3, <2>4, <2>7, IssueKeepsExchanges
<1>4. CASE FailToIssue(r) \/ Answer(r)
    <2>1. /\ request' = [request EXCEPT ![r] = NoRequest]
          /\ UNCHANGED <<account, refreshToken, tokens, rival, event, closed>>
        BY <1>4 DEF FailToIssue, Answer, tokenVars
    <2>2. held' \in [Users -> SUBSET Token]
        <3>1. CASE FailToIssue(r)
            BY <3>1 DEF FailToIssue, AuthTypes, tokenVars
        <3>2. CASE Answer(r)
            <4>1. request[r].user \in Users /\ request[r].token \in Token
                BY <3>2, RecordTypes DEF Answer, AnsweringRecord
            <4>2. held[request[r].user] \cup {request[r].token} \in SUBSET Token
                BY <4>1 DEF AuthTypes
            <4> HIDE DEF Token
            <4> QED BY <3>2, <4>1, <4>2 DEF Answer, AuthTypes
        <3> QED BY <1>4, <3>1, <3>2
    <2>3. \A s \in Requests : Issuing(s)' => request'[s] = request[s]
        BY <2>1 DEF Issuing, AuthTypes, NoRequest
    <2>4. AuthTypes'
        BY <2>1, <2>2 DEF AuthTypes
    <2> QED BY <2>1, <2>3, <2>4, EndKeepsExchanges
<1> QED BY <1>1, <1>2, <1>3, <1>4 DEF TokenStep

\* Logout and the outbox keep what is said of auth-service.
LEMMA LogoutKeeps ==
    ASSUME AuthTypes, ExchangeInv, ClosedInv, NEW u \in Users, Logout(u) \/ SettleEvent(u)
    PROVE  AuthTypes' /\ ExchangeInv' /\ ClosedInv'
<1>1. CASE Logout(u)
    <2> USE <1>1 DEF Logout
    <2>1. AuthTypes'
        BY DEF AuthTypes
    <2>2. StoredInv'
        <3>1. \A v \in Users : Len(tokens[v]) \in Nat
            BY LenProperties DEF AuthTypes
        <3> QED BY <3>1 DEF ExchangeInv, StoredInv, AuthTypes
    <2>3. IssuingInv'
        BY DEF ExchangeInv, IssuingInv, Issuing, Fresh
    <2>4. ClosedInv'
        BY DEF ClosedInv, IssuingFor, Issuing, AuthTypes
    <2> QED BY <2>1, <2>2, <2>3, <2>4 DEF ExchangeInv
<1>2. CASE SettleEvent(u)
    <2>1. AuthTypes'
        BY <1>2 DEF SettleEvent, AuthTypes, authVars, tokenVars
    <2>2. ExchangeInv' /\ ClosedInv'
        BY <1>2, EndKeepsExchanges DEF SettleEvent, authVars, tokenVars
    <2> QED BY <2>1, <2>2
<1> QED BY <1>1, <1>2

\* save() of an edit that found the row it had read writes what it asked for.
LEMMA SavedWanted ==
    ASSUME NEW copy \in Profile, NEW found \in Profile
    PROVE  Saved(copy, found, found) = copy
BY DEF Saved, Profile

\* save() writes a profile.
LEMMA SavedType ==
    ASSUME NEW copy \in Profile, NEW found \in Profile, NEW row \in Profile
    PROVE  Saved(copy, found, row) \in Profile
BY DEF Saved, Profile

\* An edit that starts works on the row it reads; when another is in progress,
\* the user's edits overlap.
LEMMA ReadKeepsEdits ==
    ASSUME UserTypes, EditInv, NEW e \in Editors, NEW u \in Users,
           NEW copy \in Profile, ReadProfile(e, u, copy)
    PROVE  UserTypes' /\ EditInv'
<1> USE DEF ReadProfile, profileVars
<1> DEFINE x == [at |-> "read", user |-> u, copy |-> copy, found |-> copy]
<1>1. x \in EditRecord /\ x # NoEdit
    BY DEF EditRecord, UserTypes, NoEdit
<1>2. UserTypes'
    BY <1>1 DEF UserTypes
<1>3. edit'[e] = x /\ \A d \in Editors : d # e => edit'[d] = edit[d]
    BY DEF UserTypes
<1>4. ASSUME NEW v \in Users \ overlapped'
      PROVE  /\ profile'[v] = asked'[v]
             /\ \A d \in Editors : edit'[d] # NoEdit /\ edit'[d].user = v =>
                  /\ edit'[d].at = "saving" => edit'[d].found = profile'[v]
                  /\ \A c \in Editors : edit'[c] # NoEdit /\ edit'[c].user = v => c = d
    <2>1. v \notin overlapped
        OBVIOUS
    <2>2. CASE v # u
        BY <2>1, <2>2, <1>1, <1>3 DEF EditInv
    <2>3. CASE v = u
        <3>1. \A d \in Editors : ~(edit[d] # NoEdit /\ edit[d].user = u)
            BY <2>3, <1>4
        <3> QED BY <2>1, <2>3, <3>1, <1>3 DEF EditInv
    <2> QED BY <2>2, <2>3
<1> QED BY <1>2, <1>4 DEF EditInv

\* The edits and the handlers keep what is said of user-service.
LEMMA EditStepKeeps ==
    ASSUME UserTypes, EditInv, EventInv, NEW e \in Editors, EditStep(e)
    PROVE  UserTypes' /\ EditInv' /\ EventInv'
<1>1. ASSUME NEW u \in Users, NEW copy \in Profile, ReadProfile(e, u, copy)
      PROVE  UserTypes' /\ EditInv' /\ EventInv'
    <2>1. UserTypes' /\ EditInv'
        BY <1>1, ReadKeepsEdits
    <2>2. EventInv'
        BY <1>1 DEF ReadProfile, EventInv, UserTypes, authVars, profileVars
    <2> QED BY <2>1, <2>2
<1>2. ASSUME NEW u \in Users, Remove(e, u)
      PROVE  UserTypes' /\ EditInv' /\ EventInv'
    <2>1. [profile[u] EXCEPT !.active = FALSE] \in Profile
        BY DEF UserTypes, Profile
    <2> QED BY <1>1, <1>2, <2>1 DEF Remove
<1>3. ASSUME NEW u \in Users, NEW name \in Names, Update(e, u, name)
      PROVE  UserTypes' /\ EditInv' /\ EventInv'
    <2>1. [profile[u] EXCEPT !.name = name] \in Profile
        BY DEF UserTypes, Profile
    <2> QED BY <1>1, <1>3, <2>1 DEF Update
<1>4. CASE FindForSave(e)
    <2> USE <1>4 DEF FindForSave, authVars, profileVars
    <2>1. edit[e] # NoEdit /\ edit[e] \in EditRecord
        BY DEF UserTypes, NoEdit
    <2>2. edit'[e] = [edit[e] EXCEPT !.at = "saving", !.found = profile[edit[e].user]]
        BY DEF UserTypes
    <2>3. /\ edit'[e] \in EditRecord /\ edit'[e] # NoEdit
          /\ edit'[e].user = edit[e].user /\ edit'[e].found = profile[edit[e].user]
        BY <2>1, <2>2 DEF EditRecord, UserTypes, NoEdit
    <2>4. \A d \in Editors : d # e => edit'[d] = edit[d]
        BY DEF UserTypes
    <2>5. UserTypes'
        BY <2>3 DEF UserTypes
    <2> HIDE <1>4
    <2>6. UNCHANGED <<event, account, worker, overlapped, created, profile, asked>>
        BY <1>4
    <2>7. EditInv'
        <3> HIDE DEF FindForSave
        <3> SUFFICES ASSUME NEW u \in Users \ overlapped, NEW d \in Editors,
                            edit'[d] # NoEdit, edit'[d].user = u
                     PROVE  /\ edit'[d].at = "saving" => edit'[d].found = profile[u]
                            /\ \A c \in Editors : edit'[c] # NoEdit /\ edit'[c].user = u => c = d
            BY <2>6 DEF EditInv
        <3>1. edit[d] # NoEdit /\ edit[d].user = u
            BY <2>1, <2>3, <2>4
        <3>2. /\ edit[d].at = "saving" => edit[d].found = profile[u]
              /\ \A c \in Editors : edit[c] # NoEdit /\ edit[c].user = u => c = d
            BY <3>1 DEF EditInv
        <3> QED BY <3>1, <3>2, <2>1, <2>3, <2>4
    <2>8. EventInv'
        <3> HIDE DEF FindForSave
        <3> QED BY <2>1, <2>3, <2>4, <2>6 DEF EventInv
    <2> QED BY <2>5, <2>7, <2>8
<1>5. CASE SaveEdit(e)
    <2> USE <1>5 DEF SaveEdit, authVars
    <2> DEFINE u == edit[e].user
    <2>1. edit[e] # NoEdit /\ edit[e] \in EditRecord
        BY DEF UserTypes, NoEdit
    <2>2. /\ u \in Users /\ edit[e].copy \in Profile /\ edit[e].found \in Profile
          /\ profile[u] \in Profile
        BY <2>1 DEF EditRecord, UserTypes
    <2>3. /\ profile'[u] = Saved(edit[e].copy, edit[e].found, profile[u])
          /\ u \notin overlapped => asked'[u] = edit[e].copy
          /\ \A v \in Users : v # u => profile'[v] = profile[v] /\ asked'[v] = asked[v]
          /\ edit'[e] = NoEdit /\ \A d \in Editors : d # e => edit'[d] = edit[d]
        BY <2>2 DEF UserTypes
    <2>4. UserTypes'
        <3>1. profile' \in [Users -> Profile]
            BY <2>2, SavedType DEF UserTypes
        <3>2. asked' \in [Users -> Profile]
            BY <2>2, <3>1 DEF UserTypes
        <3> QED BY <3>1, <3>2 DEF UserTypes
    <2>5. u \notin overlapped => profile'[u] = asked'[u]
        BY <2>1, <2>2, <2>3, SavedWanted DEF EditInv
    <2>6. u \notin overlapped => \A d \in Editors : ~(edit'[d] # NoEdit /\ edit'[d].user = u)
        BY <2>1, <2>2, <2>3 DEF EditInv
    <2>7. EditInv'
        BY <2>2, <2>3, <2>5, <2>6 DEF EditInv
    <2>8. EventInv'
        BY <2>1, <2>2, <2>3 DEF EventInv
    <2> QED BY <2>4, <2>7, <2>8
<1>6. CASE AbandonEdit(e)
    <2> USE <1>6 DEF AbandonEdit, authVars, profileVars
    <2>1. edit'[e] = NoEdit /\ \A d \in Editors : d # e => edit'[d] = edit[d]
        BY DEF UserTypes
    <2>2. UserTypes'
        BY DEF UserTypes
    <2>3. EditInv'
        BY <2>1 DEF EditInv
    <2>4. EventInv'
        BY <2>1 DEF EventInv
    <2> QED BY <2>2, <2>3, <2>4
<1> QED BY <1>2, <1>3, <1>4, <1>5, <1>6 DEF EditStep

\* Every step of auth-service and user-service keeps the inductive invariant.
LEMMA AccountsStep == AccountsInv /\ [Next]_vars => AccountsInv'
<1> SUFFICES ASSUME AccountsInv, [Next]_vars
             PROVE  AccountsInv'
    OBVIOUS
<1> USE AccountsAssumption
<1>0. AuthTypes /\ UserTypes /\ ExchangeInv /\ ClosedInv /\ EditInv /\ EventInv
    BY DEF AccountsInv
<1>1. ASSUME UNCHANGED userVars PROVE UserTypes' /\ EditInv'
    BY <1>0, <1>1 DEF userVars, profileVars, editVars, UserTypes, EditInv
<1>2. ASSUME UNCHANGED <<authVars, event>> PROVE AuthTypes' /\ ExchangeInv' /\ ClosedInv'
    <2>1. AuthTypes'
        BY <1>0, <1>2 DEF authVars, tokenVars, AuthTypes
    <2> QED BY <1>0, <1>2, <2>1, EndKeepsExchanges DEF authVars, tokenVars
<1>3. CASE UNCHANGED vars
    <2>1. EventInv'
        BY <1>0, <1>3 DEF vars, authVars, userVars, profileVars, editVars, EventInv
    <2> QED BY <1>1, <1>2, <1>3, <2>1 DEF vars, AccountsInv
<1>4. ASSUME NEW r \in Requests, TokenStep(r) PROVE AccountsInv'
    <2>1. UNCHANGED userVars
        BY <1>4 DEF TokenStep, Register, Login, Refresh, IssueTokens, FailToIssue, Answer
    <2>2. \/ UNCHANGED <<account, event>>
          \/ \E u \in Users \ account : /\ account' = account \cup {u}
                                       /\ event' = [event EXCEPT ![u] = "pending"]
        BY <1>4 DEF TokenStep, Register, Login, Refresh, IssueTokens, FailToIssue, Answer
    <2>3. EventInv'
        <3>1. \A v \in Users : /\ event[v] = "published" => event'[v] = "published"
                               /\ event'[v] # "none" <=> v \in account'
            BY <1>0, <2>2 DEF AuthTypes, EventInv
        <3>2. UNCHANGED <<worker, created, profile, edit>>
            BY <2>1 DEF userVars, profileVars, editVars
        <3>3. created \subseteq Users /\ \A w \in Workers : worker[w] # NoUser => worker[w] \in Users
            BY <1>0 DEF UserTypes
        <3> QED BY <1>0, <3>1, <3>2, <3>3 DEF EventInv
    <2> QED BY <1>0, <1>1, <1>4, <2>1, <2>3, TokenStepKeeps DEF AccountsInv
<1>5. ASSUME NEW u \in Users, Logout(u) \/ SettleEvent(u) PROVE AccountsInv'
    <2>1. UNCHANGED userVars /\ UNCHANGED account
        BY <1>5 DEF Logout, SettleEvent, authVars
    <2>2. \A v \in Users : event'[v] = event[v] \/
              (event[v] = "pending" /\ event'[v] \in {"published", "failed"})
        <3>1. CASE Logout(u)
            BY <3>1 DEF Logout
        <3>2. CASE SettleEvent(u)
            BY <1>0, <3>2 DEF SettleEvent, AuthTypes
        <3> QED BY <1>5, <3>1, <3>2
    <2>3. EventInv'
        <3>1. \A v \in Users : /\ event[v] = "published" => event'[v] = "published"
                               /\ event'[v] # "none" <=> event[v] # "none"
            BY <2>2
        <3>2. UNCHANGED <<worker, created, profile, edit, account>>
            BY <2>1 DEF userVars, profileVars, editVars
        <3>3. created \subseteq Users /\ \A w \in Workers : worker[w] # NoUser => worker[w] \in Users
            BY <1>0 DEF UserTypes
        <3> QED BY <1>0, <3>1, <3>2, <3>3 DEF EventInv
    <2> QED BY <1>0, <1>1, <1>5, <2>1, <2>3, LogoutKeeps DEF AccountsInv
<1>6. ASSUME NEW w \in Workers, ProfileStep(w) PROVE AccountsInv'
    <2>1. UNCHANGED <<authVars, event, editVars, profile, asked>>
        BY <1>6 DEF ProfileStep, CheckProfile, SaveProfile, AbandonProfile, profileVars
    <2>2. UserTypes'
        BY <1>0, <1>6, <2>1 DEF ProfileStep, CheckProfile, SaveProfile, AbandonProfile,
            UserTypes, profileVars, editVars
    <2>3. EditInv'
        BY <1>0, <2>1 DEF EditInv, editVars
    <2>4. EventInv'
        BY <1>0, <1>6, <2>1 DEF ProfileStep, CheckProfile, SaveProfile, AbandonProfile,
            UserTypes, EventInv, authVars, profileVars, editVars
    <2> QED BY <1>2, <2>1, <2>2, <2>3, <2>4 DEF AccountsInv
<1>7. ASSUME NEW e \in Editors, EditStep(e) PROVE AccountsInv'
    <2>1. UNCHANGED <<authVars, event>>
        BY <1>7 DEF EditStep, Remove, Update, ReadProfile, FindForSave, SaveEdit, AbandonEdit
    <2> QED BY <1>0, <1>2, <1>7, <2>1, EditStepKeeps DEF AccountsInv
<1> QED BY <1>3, <1>4, <1>5, <1>6, <1>7 DEF Next

\* A step that signs a pair keeps ReplayNeedsRace: a token that was exchanged
\* already has a rival by IssuingInv.
LEMMA IssueKeepsReplay ==
    ASSUME AccountsInv, ReplayNeedsRace, NEW r \in Requests, IssueTokens(r)
    PROVE  ReplayNeedsRace'
<1> DEFINE u == request[r].user
           p == request[r].from
           k == Len(tokens[u]) + 1
<1>1. AuthTypes /\ UserTypes /\ Fresh(u, p) /\ u \in Users /\ p \in Nat
    BY RecordTypes DEF AccountsInv, ExchangeInv, IssuingInv, IssueTokens, IssuingRecord
<1>2. /\ tokens[u] \in Seq(Nat)
      /\ Len(tokens[u]) \in Nat
      /\ DOMAIN tokens[u] = 1..Len(tokens[u])
    BY <1>1, LenProperties DEF AuthTypes
<1>3. /\ tokens'[u] = Append(tokens[u], p)
      /\ rival[u] \subseteq rival'[u]
      /\ \A v \in Users : v # u => tokens'[v] = tokens[v] /\ rival'[v] = rival[v]
    BY <1>1 DEF IssueTokens, AuthTypes
<1>4. /\ DOMAIN tokens'[u] = 1..k
      /\ \A n \in 1..Len(tokens[u]) : tokens'[u][n] = tokens[u][n]
      /\ tokens'[u][k] = p
      /\ k \in Nat /\ k = Len(tokens[u]) + 1
    BY <1>1, <1>2, <1>3, AppendProperties
<1> HIDE DEF u, p, k
<1>5. ASSUME NEW m \in 1..k, NEW n \in 1..k, m < n, tokens'[u][m] = tokens'[u][n], tokens'[u][m] # 0
      PROVE  tokens'[u][m] \in rival'[u]
    <2>1. m \in 1..Len(tokens[u]) /\ tokens'[u][m] = tokens[u][m]
        BY <1>2, <1>4, <1>5
    <2>2. CASE n = k
        BY <2>1, <2>2, <1>1, <1>2, <1>3, <1>4, <1>5 DEF Fresh
    <2>3. CASE n # k
        <3>1. n \in 1..Len(tokens[u])
            BY <2>3, <1>2, <1>4
        <3> QED BY <2>1, <3>1, <1>1, <1>2, <1>3, <1>4, <1>5 DEF ReplayNeedsRace
    <2> QED BY <2>2, <2>3
<1> SUFFICES ASSUME NEW v \in Users, NEW m \in DOMAIN tokens'[v], NEW n \in DOMAIN tokens'[v],
                    m < n, tokens'[v][m] = tokens'[v][n], tokens'[v][m] # 0
             PROVE  tokens'[v][m] \in rival'[v]
    BY DEF ReplayNeedsRace
<1>6. CASE v = u
    BY <1>4, <1>5, <1>6
<1>7. CASE v # u
    <2>1. tokens'[v] = tokens[v] /\ rival'[v] = rival[v]
        BY <1>3, <1>7
    <2> QED BY <2>1 DEF ReplayNeedsRace
<1> QED BY <1>6, <1>7

\* The inductive invariant of auth-service and user-service holds in every
\* reachable state.
THEOREM AccountsCorrect == Spec => []AccountsInv
BY AccountsInitially, AccountsStep, PTL DEF Spec

\* update, remove and createProfile: edits that do not overlap hold, whatever
\* the handlers of user.registered do in between.
THEOREM EditsAreKept == Spec => []EditsHold
<1>1. AccountsInv => EditsHold
    BY DEF AccountsInv, EditInv, EditsHold
<1> QED BY <1>1, AccountsCorrect, PTL

\* logout: no token of a user who logged out undisturbed is accepted.
THEOREM LoggedOutStaysOut == Spec => []LogoutHolds
<1>1. AccountsInv => LogoutHolds
    BY DEF AccountsInv, ClosedInv, AuthTypes, Token, LogoutHolds
<1> QED BY <1>1, AccountsCorrect, PTL

\* refresh: a token yields two pairs only when its exchanges raced between
\* the check of the stored hash and its update.
THEOREM ReplayedOnlyInARace == Spec => []ReplayNeedsRace
<1>1. Init => ReplayNeedsRace
    BY DEF Init, ReplayNeedsRace
<1>2. ASSUME AccountsInv, ReplayNeedsRace, [Next]_vars
      PROVE  ReplayNeedsRace'
    <2>1. (\E r \in Requests : IssueTokens(r)) \/ UNCHANGED <<tokens, rival>>
        BY <1>2 DEF Next, vars, authVars, tokenVars, TokenStep, Register, Login, Refresh,
            FailToIssue, Answer, Logout, SettleEvent, ProfileStep, CheckProfile, SaveProfile,
            AbandonProfile, EditStep, Update, Remove, ReadProfile, FindForSave, SaveEdit, AbandonEdit
    <2>2. CASE UNCHANGED <<tokens, rival>>
        BY <1>2, <2>2 DEF ReplayNeedsRace
    <2> QED BY <1>2, <2>1, <2>2, IssueKeepsReplay
<1> QED BY <1>1, <1>2, AccountsCorrect, PTL DEF Spec

=============================================================================
