------------------------ MODULE SessionFamilyProofs ------------------------
(***************************************************************************)
(* Proofs about SessionFamily, for any number of users, tokens and         *)
(* requests.  The properties are proved together: that a new family starts *)
(* clean needs families to be named by issued tokens, that an end is an    *)
(* end needs all live tokens of a user's part in a family to be revoked    *)
(* with it, and both need that a request's token is still an issued one.   *)
(* A family may have two users (FamilyHasOneOwner): the unit of the        *)
(* argument is not the family but the part of one user in it.              *)
(***************************************************************************)
EXTENDS SessionFamily, TLAPS

\* A family is named by a token of its own that was issued; so is an ended one.
Rooted ==
  /\ \A t \in Issued : family[t] \in Issued
  /\ ended \subseteq Issued \X Users

\* The cookies a request presented are of issued tokens; a refresh is by the owner.
ReqOwns ==
  \A r \in Requests : stage[r] = "loaded" =>
    /\ req[r].tok \in Cookies /\ req[r].acc \in Cookies
    /\ req[r].kind = "refresh" =>
         req[r].tok \in Issued /\ req[r].user = owner[req[r].tok]

\* The part of EndedStaysDead that is inductive.
EndedRevoked == \A t \in Issued : Part(t) \in ended => t \in revoked

IInv ==
  /\ Rooted /\ ReqOwns
  /\ OneLiveToken /\ EndedRevoked /\ SessionUnbroken /\ FamilyHasOneClass

LEMMA InitHolds == Init => TypeOK /\ IInv
<1> SUFFICES ASSUME Init PROVE TypeOK /\ IInv
  OBVIOUS
<1> USE TokensAssumption DEF Init
<1>1. Issued = SignedIn /\ (\A t \in SignedIn : family[t] = t)
  BY DEF Issued
<1>2. AnyUser \in Users
  BY DEF AnyUser
<1>3. TypeOK
  <2>1. req \in [Requests -> [kind : Kinds, user : Users, tok : Tokens \cup {NoToken},
                              acc : Tokens \cup {NoToken}, ver : Nat, epoch : Nat]]
    BY <1>2 DEF Kinds
  <2> QED BY <1>1, <2>1 DEF TypeOK
<1>4. Rooted /\ ReqOwns /\ OneLiveToken /\ EndedRevoked /\ FamilyHasOneClass
  BY <1>1 DEF Rooted, ReqOwns, OneLiveToken, EndedRevoked, FamilyHasOneClass, Live,
                Cookies, Part
<1>5. SessionUnbroken
  BY <1>1 DEF SessionUnbroken, Kin, Live, Of
<1> QED BY <1>3, <1>4, <1>5 DEF IInv

-----------------------------------------------------------------------------
(* Steps that leave tokens, revocations and ended families alone           *)

Quiet == UNCHANGED <<tokenVars, revoked, ended>>

LEMMA QuietKeeps ==
  ASSUME TypeOK, IInv, Quiet, ReqOwns'
  PROVE  IInv'
<1>1. Issued' = Issued /\ Live' = Live
  BY DEF Quiet, tokenVars, Issued, Live
<1>2. \A t \in Issued : Kin(t)' = Kin(t) /\ Of(owner[t])' = Of(owner[t]) /\ Part(t)' = Part(t)
  BY <1>1 DEF Quiet, tokenVars, Kin, Of, Part
<1>3. Rooted' /\ OneLiveToken' /\ EndedRevoked' /\ FamilyHasOneClass'
  BY <1>1, <1>2 DEF IInv, Quiet, tokenVars, Rooted, OneLiveToken, EndedRevoked, Live,
                    FamilyHasOneClass
<1>4. SessionUnbroken'
  BY <1>1, <1>2 DEF IInv, SessionUnbroken, Quiet, tokenVars
<1> QED BY <1>3, <1>4 DEF IInv

(* Steps that revoke K, end the parts D and issue nothing                  *)

Ends(K, D) ==
  /\ UNCHANGED tokenVars
  /\ revoked' = revoked \cup K
  /\ ended' = ended \cup D

\* Whatever is ended is revoked, and whatever is revoked is ended.
Covers(K, D) == \A t \in Issued : t \in K <=> Part(t) \in D

LEMMA EndsKeeps ==
  ASSUME NEW K \in SUBSET Issued, NEW D \in SUBSET (Issued \X Users),
         TypeOK, IInv, Ends(K, D), ReqOwns', Covers(K, D)
  PROVE  IInv'
<1> USE DEF Ends, tokenVars
<1>1. Issued' = Issued /\ Live' \subseteq Live
  BY DEF Issued, Live
<1>2. \A t \in Issued : Part(t)' = Part(t) /\ Kin(t)' = Kin(t) /\ Of(owner[t])' = Of(owner[t])
  BY <1>1 DEF Part, Kin, Of
<1>3. Rooted'
  BY <1>1 DEF IInv, Rooted
<1>4. OneLiveToken' /\ FamilyHasOneClass'
  <2>1. \A t \in Live' : t \in Issued
    BY <1>1 DEF Live
  <2> QED BY <1>1, <1>2, <2>1 DEF IInv, OneLiveToken, FamilyHasOneClass
<1>5. EndedRevoked'
  BY <1>1, <1>2 DEF IInv, EndedRevoked, Covers
<1>6. ASSUME NEW t \in Issued, Part(t) \notin ended'
      PROVE  (Kin(t) \cap Live \cap Of(owner[t]))' # {}
  <2>1. PICK s \in Kin(t) : s \in Live /\ s \in Of(owner[t])
    BY <1>6 DEF IInv, SessionUnbroken
  <2>2. s \in Issued /\ Part(s) = Part(t)
    BY <2>1 DEF Kin, Of, Part
  <2>3. s \notin K
    BY <2>2, <1>6 DEF Covers
  <2>4. s \in Live'
    BY <1>1, <2>1, <2>3 DEF Live
  <2> QED BY <1>2, <2>1, <2>4
<1>7. SessionUnbroken'
  BY <1>1, <1>2, <1>6 DEF SessionUnbroken
<1> QED BY <1>3, <1>4, <1>5, <1>7 DEF IInv

\* What logout, reuse and age end is the family for everybody, what a password change,
\* a reset and a deletion end is the part of the user in every family.
LEMMA KinCovered ==
  ASSUME NEW t \in Issued, TypeOK, IInv
  PROVE  /\ Kin(t) \in SUBSET Issued
         /\ {family[t]} \X Users \in SUBSET (Issued \X Users)
         /\ Covers(Kin(t), {family[t]} \X Users)
<1>1. family[t] \in Issued /\ \A s \in Issued : owner[s] \in Users
  BY DEF IInv, Rooted, TypeOK, Issued
<1> QED BY <1>1 DEF Kin, Covers, Part

LEMMA OfCovered ==
  ASSUME NEW u \in Users, TypeOK, IInv
  PROVE  /\ Of(u) \in SUBSET Issued
         /\ {Part(s) : s \in Of(u)} \in SUBSET (Issued \X Users)
         /\ Covers(Of(u), {Part(s) : s \in Of(u)})
<1>1. \A s \in Of(u) : s \in Issued /\ Part(s) = <<family[s], u>>
  BY DEF Of, Part
<1>2. \A s \in Issued : family[s] \in Issued
  BY DEF IInv, Rooted
<1>3. Covers(Of(u), {Part(s) : s \in Of(u)})
  <2>1. ASSUME NEW t \in Issued, NEW s \in Of(u), Part(t) = Part(s) PROVE t \in Of(u)
    BY <2>1 DEF Part, Of
  <2> QED BY <2>1 DEF Covers
<1> QED BY <1>1, <1>2, <1>3

-----------------------------------------------------------------------------
(* Steps that issue the token n to u into the family g, revoke K and end   *)
(* the parts D                                                             *)

Issues(n, g, u, K, D) ==
  /\ family' = [family EXCEPT ![n] = g]
  /\ owner' = [owner EXCEPT ![n] = u]
  /\ \A s \in Issued : s \in card' <=> s \in card
  /\ revoked' = revoked \cup K
  /\ ended' = (ended \cup D) \ {<<g, u>>}

\* g is a new family, or that of a token of the same class.
Joins(n, g) == g = n \/ \E s \in Issued : g = family[s] /\ (s \in card <=> n \in card')

\* No live token of u in g survives the step, and but for those K are what D ends.
Clears(g, u, K, D) ==
  /\ \A s \in Live : Part(s) = <<g, u>> => s \in K
  /\ \A s \in K : Part(s) = <<g, u>> \/ Part(s) \in D
  /\ \A t \in Issued : Part(t) \in D => t \in K

LEMMA IssuesKeeps ==
  ASSUME NEW n \in Tokens \ Issued, NEW g \in Tokens, NEW u \in Users,
         NEW K \in SUBSET Issued, NEW D \in SUBSET (Issued \X Users),
         TypeOK, IInv, Issues(n, g, u, K, D), Joins(n, g), Clears(g, u, K, D), ReqOwns'
  PROVE  IInv'
<1> USE TokensAssumption DEF Issues
<1>1. /\ Issued' = Issued \cup {n} /\ family'[n] = g /\ owner'[n] = u
      /\ \A s \in Issued : s # n /\ family'[s] = family[s] /\ owner'[s] = owner[s]
  BY DEF TypeOK, Issued
<1>2. Part(n)' = <<g, u>> /\ \A s \in Issued : Part(s)' = Part(s)
  BY <1>1 DEF Part
<1>3. /\ n \notin revoked' /\ n \notin K
      /\ Live' = (Live \ K) \cup {n}
  BY <1>1 DEF TypeOK, Live
<1>4. \A t \in Issued : family[t] \in Issued
  BY DEF IInv, Rooted
<1>5. g \in Issued'
  BY <1>1, <1>4 DEF Joins
<1>6. Rooted'
  BY <1>1, <1>4, <1>5 DEF IInv, Rooted
<1>7. OneLiveToken'
  <2>1. \A s \in Live \ K : s \in Issued /\ Part(s)' # <<g, u>>
    BY <1>2 DEF Clears, Live
  <2>2. \A s, t \in Live \ K : Part(s)' = Part(t)' => s = t
    BY <1>2, <2>1 DEF IInv, OneLiveToken
  <2> QED BY <1>2, <1>3, <2>1, <2>2 DEF OneLiveToken
<1>8. EndedRevoked'
  BY <1>1, <1>2 DEF IInv, EndedRevoked, Clears
<1>9. FamilyHasOneClass'
  <2>1. CASE g = n
    BY <2>1, <1>1, <1>4 DEF IInv, FamilyHasOneClass
  <2>2. ASSUME NEW s \in Issued, g = family[s], s \in card <=> n \in card'
        PROVE  FamilyHasOneClass'
    BY <2>2, <1>1 DEF IInv, FamilyHasOneClass
  <2> QED BY <2>1, <2>2 DEF Joins
<1>10. SessionUnbroken'
  <2>1. ASSUME NEW t \in Issued', Part(t)' \notin ended'
        PROVE  \E s \in Live' : Part(s)' = Part(t)'
    <3>1. CASE Part(t)' = <<g, u>>
      BY <3>1, <1>2, <1>3
    <3>2. CASE Part(t)' # <<g, u>>
      <4>1. t \in Issued /\ Part(t) # <<g, u>> /\ Part(t) \notin ended /\ Part(t) \notin D
        BY <3>2, <2>1, <1>1, <1>2
      <4>2. PICK s \in Kin(t) \cap Of(owner[t]) : s \in Live
        BY <4>1 DEF IInv, SessionUnbroken
      <4>3. s \in Issued /\ Part(s) = Part(t)
        BY <4>2 DEF Kin, Of, Part
      <4>4. s \notin K
        BY <4>1, <4>3 DEF Clears
      <4> QED BY <4>1, <4>2, <4>3, <4>4, <1>2, <1>3
    <3> QED BY <3>1, <3>2
  <2>2. \A s \in Live' : s \in Issued'
    BY <1>1, <1>3 DEF Live
  <2>3. ASSUME NEW t \in Issued', NEW s \in Issued', Part(s)' = Part(t)'
        PROVE  s \in (Kin(t) \cap Of(owner[t]))'
    BY <2>3 DEF Part, Kin, Of
  <2> QED BY <2>1, <2>2, <2>3 DEF SessionUnbroken
<1> QED BY <1>6, <1>7, <1>8, <1>9, <1>10 DEF IInv

-----------------------------------------------------------------------------
(* Types                                                                   *)

LEMMA LoadKeepsType ==
  ASSUME NEW r \in Requests, NEW kind \in Kinds, NEW u \in Users,
         NEW t \in Tokens \cup {NoToken}, NEW a \in Tokens \cup {NoToken}, NEW e \in Nat,
         TypeOK, Load(r, kind, u, t, a, e)
  PROVE  TypeOK'
<1>1. version[u] \in Nat
  BY DEF TypeOK
<1>2. req' \in [Requests -> [kind : Kinds, user : Users, tok : Tokens \cup {NoToken},
                             acc : Tokens \cup {NoToken}, ver : Nat, epoch : Nat]]
  BY <1>1 DEF Load, TypeOK
<1> QED BY <1>2 DEF Load, TypeOK, Issued, tokenVars, userVars

LEMMA IssueKeepsType ==
  ASSUME NEW r \in Requests, NEW f \in Tokens \cup {NoToken}, NEW c \in BOOLEAN,
         NEW v \in Nat, TypeOK, Issue(r, f, c, v)
  PROVE  /\ family' \in [Tokens -> Tokens \cup {NoToken}]
         /\ owner' \in [Tokens -> Users]
         /\ tv' \in [Tokens -> Nat] /\ epoch' \in [Tokens -> Nat]
         /\ Issued \subseteq Issued' /\ card' \subseteq Issued'
<1>1. PICK n \in Tokens \ Issued :
        /\ family' = [family EXCEPT ![n] = FamilyOf(n, f)]
        /\ owner' = [owner EXCEPT ![n] = req[r].user]
        /\ card' = IF c THEN card \cup {n} ELSE card
        /\ tv' = [tv EXCEPT ![n] = v]
        /\ epoch' = [epoch EXCEPT ![n] = req[r].epoch]
  BY DEF Issue
<1>2. req[r].user \in Users /\ req[r].epoch \in Nat
  BY DEF TypeOK
<1>3. FamilyOf(n, f) \in Tokens
  BY DEF FamilyOf
<1>4. Issued' = Issued \cup {n}
  BY <1>1, <1>3, TokensAssumption DEF TypeOK, Issued
<1>5. card' \subseteq card \cup {n}
  BY <1>1
<1> QED BY <1>1, <1>2, <1>3, <1>4, <1>5 DEF TypeOK

-----------------------------------------------------------------------------
(* Each action preserves the invariant                                     *)

LEMMA LoadKeeps ==
  ASSUME NEW r \in Requests, NEW kind \in Kinds, NEW u \in Users,
         NEW t \in Cookies, NEW a \in Cookies, NEW e \in Nat,
         TypeOK, IInv, Load(r, kind, u, t, a, e),
         kind = "refresh" => t \in Issued /\ u = owner[t]
  PROVE  TypeOK' /\ IInv'
<1>1. TypeOK'
  BY LoadKeepsType DEF Cookies, Issued
<1>2. Quiet
  BY DEF Load, Quiet
<1>3. Issued' = Issued /\ owner' = owner /\ Cookies' = Cookies
  BY <1>2 DEF Quiet, tokenVars, Issued, Cookies
<1>4. req'[r].kind = kind /\ req'[r].tok = t /\ req'[r].acc = a /\ req'[r].user = u
  BY DEF Load, TypeOK
<1>5. \A q \in Requests \ {r} : req'[q] = req[q] /\ stage'[q] = stage[q]
  BY DEF Load, TypeOK
<1>6. ReqOwns'
  BY <1>3, <1>4, <1>5 DEF ReqOwns, IInv
<1> QED BY <1>1, <1>2, <1>6, QuietKeeps

LEMMA ReadKeeps ==
  ASSUME NEW r \in Requests, TypeOK, IInv, Read(r)
  PROVE  TypeOK' /\ IInv'
<1>1. NoToken \in Cookies /\ Issued \subseteq Cookies /\ AnyUser \in Users
  BY TokensAssumption DEF Cookies, AnyUser
<1>2. ASSUME NEW u \in Users, LoginLoad(r, u)
      PROVE  TypeOK' /\ IInv'
  <2>1. resets[u] \in Nat /\ "login" \in Kinds
    BY DEF TypeOK, Kinds
  <2> QED BY <1>1, <1>2, <2>1, LoadKeeps DEF LoginLoad
<1>3. ASSUME NEW u \in Users, NEW kind \in Kinds, AdminLoad(r, u, kind)
      PROVE  TypeOK' /\ IInv'
  <2>1. resets[u] \in Nat
    BY DEF TypeOK
  <2>2. kind # "refresh"
    BY <1>3 DEF AdminLoad
  <2> QED BY <1>1, <1>3, <2>1, <2>2, LoadKeeps DEF AdminLoad
<1>4. ASSUME NEW t \in Tokens, RefreshLoad(r, t)
      PROVE  TypeOK' /\ IInv'
  <2>1. epoch[t] \in Nat /\ owner[t] \in Users /\ "refresh" \in Kinds
    BY DEF TypeOK, Kinds
  <2> QED BY <1>1, <1>4, <2>1, LoadKeeps DEF RefreshLoad
<1>5. ASSUME NEW t \in Cookies, NEW a \in Cookies, LogoutLoad(r, t, a)
      PROVE  TypeOK' /\ IInv'
  <2>1. "logout" \in Kinds /\ 0 \in Nat
    BY DEF Kinds
  <2> QED BY <1>1, <1>5, <2>1, LoadKeeps DEF LogoutLoad
<1>6. ASSUME NEW t \in Cookies, NEW a \in Cookies, ChangeLoad(r, t, a)
      PROVE  TypeOK' /\ IInv'
  <2>1. a \in Issued /\ epoch[a] \in Nat /\ owner[a] \in Users /\ "change" \in Kinds
    BY <1>6 DEF ChangeLoad, AccessValid, TypeOK, Kinds, Issued
  <2> QED BY <1>1, <1>6, <2>1, LoadKeeps DEF ChangeLoad
<1> QED BY <1>2, <1>3, <1>4, <1>5, <1>6 DEF Read

\* What a write leaves of the requests.
LEMMA WriteKeepsReq ==
  ASSUME NEW r \in Requests, TypeOK, IInv, UNCHANGED req,
         stage' = [stage EXCEPT ![r] = "end"],
         Issued \subseteq Issued', \A t \in Issued : owner'[t] = owner[t]
  PROVE  /\ ReqOwns'
         /\ stage' \in [Requests -> {"free", "loaded", "end"}]
<1>1. Cookies \subseteq Cookies'
  BY DEF Cookies
<1> QED BY <1>1 DEF ReqOwns, IInv, TypeOK

\* The cookies a request came with.
LEMMA Presented ==
  ASSUME NEW r \in Requests, TypeOK, IInv, stage[r] = "loaded"
  PROVE  /\ req[r].user \in Users
         /\ req[r].acc # NoToken => req[r].acc \in Issued
         /\ req[r].kind = "refresh" =>
              req[r].tok \in Issued /\ req[r].user = owner[req[r].tok]
         /\ req[r].tok # NoToken \/ req[r].kind = "refresh" =>
              /\ req[r].tok \in Issued /\ req[r].tok \in Tokens
              /\ family[req[r].tok] \in Issued /\ family[req[r].tok] \in Tokens
BY DEF IInv, ReqOwns, Rooted, TypeOK, Issued, Cookies

\* A write that ends the parts D.
LEMMA EndingWrite ==
  ASSUME NEW r \in Requests, NEW K \in SUBSET Issued, NEW D \in SUBSET (Issued \X Users),
         TypeOK, IInv, Ends(K, D), Covers(K, D),
         UNCHANGED req, stage' = [stage EXCEPT ![r] = "end"],
         denied' \subseteq Issued, aged' = aged,
         version' \in [Users -> Nat], active' \subseteq Users, present' \subseteq Users,
         resets' \in [Users -> Nat]
  PROVE  TypeOK' /\ IInv'
<1>1. Issued' = Issued
  BY DEF Ends, tokenVars, Issued
<1>2. ReqOwns' /\ stage' \in [Requests -> {"free", "loaded", "end"}]
  BY <1>1, WriteKeepsReq DEF Ends, tokenVars
<1>3. ended' \subseteq Tokens \X Users /\ revoked' \subseteq Issued
  BY DEF Ends, TypeOK, IInv, Rooted, Issued
<1>4. TypeOK'
  BY <1>1, <1>2, <1>3 DEF TypeOK, Ends, tokenVars
<1> QED BY <1>2, <1>4, EndsKeeps

\* A write that changes no token.
LEMMA QuietWrite ==
  ASSUME NEW r \in Requests, TypeOK, IInv, Quiet,
         UNCHANGED req, stage' = [stage EXCEPT ![r] = "end"],
         denied' \subseteq Issued, aged' = aged, resets' = resets,
         version' \in [Users -> Nat], active' \subseteq Users, present' \subseteq Users
  PROVE  TypeOK' /\ IInv'
<1>1. Issued' = Issued
  BY DEF Quiet, tokenVars, Issued
<1>2. ReqOwns' /\ stage' \in [Requests -> {"free", "loaded", "end"}]
  BY <1>1, WriteKeepsReq DEF Quiet, tokenVars
<1>3. TypeOK'
  BY <1>1, <1>2 DEF TypeOK, Quiet, tokenVars
<1> QED BY <1>2, <1>3, QuietKeeps

LEMMA BumpType ==
  ASSUME NEW r \in Requests, TypeOK, Bump(r)
  PROVE  version' \in [Users -> Nat] /\ req[r].ver + 1 \in Nat
<1>1. req[r].ver + 1 \in Nat
  BY DEF TypeOK
<1> QED BY <1>1 DEF Bump, TypeOK

\* A write that issues a token into the family f (a new one when f is NoToken).
IssuingStep(r, f, c, v, K, D) ==
  /\ Issue(r, f, c, v)
  /\ UNCHANGED <<req, denied, aged, active, present, resets>>
  /\ stage' = [stage EXCEPT ![r] = "end"]
  /\ version' \in [Users -> Nat]
  /\ revoked' = revoked \cup K
  /\ ended' = (ended \cup D) \ {<<f, req[r].user>>}
  /\ f # NoToken => \E s \in Issued : f = family[s] /\ (s \in card <=> c)
  /\ Clears(f, req[r].user, K, D)

LEMMA IssuingWrite ==
  ASSUME NEW r \in Requests, NEW f \in Tokens \cup {NoToken}, NEW c \in BOOLEAN,
         NEW v \in Nat, NEW K \in SUBSET Issued, NEW D \in SUBSET (Issued \X Users),
         TypeOK, IInv, IssuingStep(r, f, c, v, K, D)
  PROVE  TypeOK' /\ IInv'
<1> USE TokensAssumption DEF IssuingStep
<1>1. PICK n \in Tokens \ Issued :
        /\ family' = [family EXCEPT ![n] = FamilyOf(n, f)]
        /\ owner' = [owner EXCEPT ![n] = req[r].user]
        /\ card' = IF c THEN card \cup {n} ELSE card
  BY DEF Issue
<1> DEFINE g == FamilyOf(n, f)
           u == req[r].user
<1>2. g \in Tokens /\ (f = NoToken => g = n) /\ (f # NoToken => g = f) /\ u \in Users
  BY DEF FamilyOf, TypeOK
<1>3. /\ family' \in [Tokens -> Tokens \cup {NoToken}]
      /\ owner' \in [Tokens -> Users]
      /\ tv' \in [Tokens -> Nat] /\ epoch' \in [Tokens -> Nat]
      /\ Issued \subseteq Issued' /\ card' \subseteq Issued'
  BY IssueKeepsType
<1>4. \A t \in Issued : owner'[t] = owner[t]
  BY <1>1 DEF TypeOK, Issued
<1>5. ReqOwns' /\ stage' \in [Requests -> {"free", "loaded", "end"}]
  BY <1>3, <1>4, WriteKeepsReq
<1>6. \A s \in Issued : family[s] \in Issued /\ family[s] # NoToken
  BY DEF IInv, Rooted, Issued
<1>7. ended' \subseteq Tokens \X Users /\ revoked' \subseteq Issued
  BY DEF TypeOK, Issued
<1>8. TypeOK'
  BY <1>3, <1>5, <1>7 DEF TypeOK
<1>9. n \notin card /\ (n \in card' <=> c)
  BY <1>1 DEF TypeOK
<1>10. Joins(n, g)
  BY <1>2, <1>9 DEF Joins
<1>11. <<n, u>> \notin ended \cup D /\ <<NoToken, u>> \notin ended \cup D
  BY DEF IInv, Rooted, Issued
<1>12. ended' = (ended \cup D) \ {<<g, u>>}
  BY <1>2, <1>11
<1>13. \A s \in Issued : s \in card' <=> s \in card
  BY <1>1
<1>14. Issues(n, g, u, K, D)
  BY <1>1, <1>12, <1>13 DEF Issues
<1>15. Clears(g, u, K, D)
  <2>1. CASE f # NoToken
    BY <2>1, <1>2
  <2>2. CASE f = NoToken
    <3>1. \A s \in Issued : Part(s) # <<n, u>> /\ Part(s) # <<f, u>>
      BY <1>6, <2>2 DEF Part
    <3>2. \A s \in Live : s \in Issued
      BY DEF Live
    <3>3. \A s \in K : s \in Issued
      OBVIOUS
    <3>4. g = n
      BY <1>2, <2>2
    <3>5. Clears(f, u, K, D)
      OBVIOUS
    <3> HIDE DEF g, u
    <3> QED BY <3>1, <3>2, <3>3, <3>4, <3>5 DEF Clears
  <2> QED BY <2>1, <2>2
<1>16. IInv'
  <2> HIDE DEF g, u
  <2> QED BY <1>2, <1>5, <1>10, <1>14, <1>15, IssuesKeeps
<1> QED BY <1>8, <1>16

LEMMA RefreshKeeps ==
  ASSUME NEW r \in Requests, TypeOK, IInv,
         RefreshReused(r) \/ RefreshRefused(r) \/ RefreshTooOld(r) \/ RefreshRotates(r)
  PROVE  TypeOK' /\ IInv'
<1> DEFINE t == req[r].tok
<1> USE DEF Writes
<1>1. /\ stage[r] = "loaded" /\ req[r].kind = "refresh"
      /\ UNCHANGED req /\ stage' = [stage EXCEPT ![r] = "end"]
  BY DEF RefreshReused, RefreshRefused, RefreshTooOld, RefreshRotates
<1>2. /\ t \in Issued /\ req[r].user = owner[t] /\ family[t] \in Issued
      /\ req[r].user \in Users /\ t \in Tokens /\ family[t] \in Tokens
  BY <1>1, Presented
<1>3. CASE RefreshReused(r) \/ RefreshTooOld(r)
  <2>1. /\ UNCHANGED <<denied, aged, userVars>> /\ Ends(Kin(t), {family[t]} \X Users)
    BY <1>3 DEF RefreshReused, RefreshTooOld, End, KinOf, Ends
  <2>2. /\ denied' \subseteq Issued /\ version' \in [Users -> Nat] /\ active' \subseteq Users
        /\ present' \subseteq Users /\ resets' \in [Users -> Nat] /\ aged' = aged
    BY <2>1 DEF TypeOK, userVars
  <2> HIDE DEF t
  <2> QED BY <1>1, <1>2, <2>1, <2>2, KinCovered, EndingWrite
<1>4. CASE RefreshRefused(r)
  BY <1>1, <1>4, QuietWrite DEF RefreshRefused, Quiet, userVars, TypeOK
<1>5. CASE RefreshRotates(r)
  <2>1. t \notin revoked /\ Part(t) \notin ended /\ Part(t) = <<family[t], req[r].user>>
    BY <1>2, <1>5 DEF RefreshRotates, Reused, IInv, EndedRevoked, Part
  <2>2. /\ Issue(r, family[t], t \in card, version[owner[t]])
        /\ revoked' = revoked \cup {t}
        /\ UNCHANGED <<denied, aged, userVars, ended>>
    BY <1>5 DEF RefreshRotates, CardOf
  <2>3. ended' = (ended \cup {}) \ {<<family[t], req[r].user>>}
    BY <2>1, <2>2
  <2>4. Clears(family[t], req[r].user, {t}, {})
    BY <1>2, <2>1 DEF IInv, OneLiveToken, Live, Clears
  <2>5. version[owner[t]] \in Nat /\ version' \in [Users -> Nat]
    BY <1>2, <2>2 DEF TypeOK, userVars
  <2>6. {t} \in SUBSET Issued /\ {} \in SUBSET (Issued \X Users)
    BY <1>2
  <2>7. PICK c \in BOOLEAN : c <=> t \in card
    OBVIOUS
  <2>8. Issue(r, family[t], c, version[owner[t]])
    BY <2>2, <2>7 DEF Issue
  <2>9. \E s \in Issued : family[t] = family[s] /\ (s \in card <=> c)
    BY <1>2, <2>7
  <2>10. UNCHANGED <<denied, aged, active, present, resets, req>>
    BY <1>1, <2>2 DEF userVars
  <2> HIDE DEF t
  <2>12. IssuingStep(r, family[t], c, version[owner[t]], {t}, {})
    BY <1>1, <2>2, <2>3, <2>4, <2>5, <2>8, <2>9, <2>10 DEF IssuingStep
  <2>13. family[t] \in Tokens \cup {NoToken} /\ version[owner[t]] \in Nat
    BY <1>2, <2>5
  <2> QED BY <2>6, <2>12, <2>13, IssuingWrite
<1> QED BY <1>3, <1>4, <1>5

LEMMA LoginKeeps ==
  ASSUME NEW r \in Requests, NEW c \in BOOLEAN, TypeOK, IInv, LoginWrite(r, c)
  PROVE  TypeOK' /\ IInv'
<1> USE TokensAssumption
<1>1. \A s \in Live : Part(s) # <<NoToken, req[r].user>>
  BY DEF Issued, Live, Part
<1>2. <<NoToken, req[r].user>> \notin ended
  BY DEF IInv, Rooted, Issued
<1>3. /\ Issue(r, NoToken, c, req[r].ver)
      /\ stage' = [stage EXCEPT ![r] = "end"]
      /\ UNCHANGED <<req, revoked, denied, aged, userVars, ended>>
  BY DEF LoginWrite, Writes
<1>4. req[r].ver \in Nat /\ version' \in [Users -> Nat]
  BY <1>3 DEF TypeOK, userVars
<1>5. revoked' = revoked \cup {} /\ ended' = (ended \cup {}) \ {<<NoToken, req[r].user>>}
  BY <1>2, <1>3
<1>6. Clears(NoToken, req[r].user, {}, {})
  BY <1>1 DEF Clears
<1>7. IssuingStep(r, NoToken, c, req[r].ver, {}, {})
  BY <1>3, <1>4, <1>5, <1>6 DEF IssuingStep, userVars
<1> QED BY <1>4, <1>7, IssuingWrite

LEMMA LogoutKeeps ==
  ASSUME NEW r \in Requests, TypeOK, IInv, LogoutWrite(r)
  PROVE  TypeOK' /\ IInv'
<1> DEFINE t == req[r].tok
<1>1. /\ stage[r] = "loaded" /\ req[r].kind = "logout"
      /\ UNCHANGED req /\ stage' = [stage EXCEPT ![r] = "end"]
      /\ UNCHANGED <<tokenVars, aged, userVars>>
  BY DEF LogoutWrite, Writes
<1>2. denied' \subseteq Issued
  BY <1>1, Presented DEF LogoutWrite, TypeOK
<1>3. /\ version' \in [Users -> Nat] /\ active' \subseteq Users /\ present' \subseteq Users
      /\ resets' \in [Users -> Nat] /\ aged' = aged /\ resets' = resets
  BY <1>1 DEF TypeOK, userVars
<1>4. CASE t = NoToken
  <2>1. Quiet
    BY <1>1, <1>4 DEF LogoutWrite, Quiet
  <2> QED BY <1>1, <1>2, <1>3, <2>1, QuietWrite
<1>5. CASE t # NoToken
  <2>1. t \in Issued
    BY <1>1, <1>5, Presented
  <2>2. Ends(Kin(t), {family[t]} \X Users)
    BY <1>1, <1>5 DEF LogoutWrite, End, KinOf, Ends
  <2> HIDE DEF t
  <2> QED BY <1>1, <1>2, <1>3, <2>1, <2>2, KinCovered, EndingWrite
<1> QED BY <1>4, <1>5

LEMMA ChangeKeeps ==
  ASSUME NEW r \in Requests, TypeOK, IInv, ChangeWrite(r)
  PROVE  TypeOK' /\ IInv'
<1> DEFINE t == req[r].tok
           u == req[r].user
           kept == IF t \in card THEN family[t] ELSE NoToken
           D == {Part(s) : s \in Of(u)}
<1> USE TokensAssumption
<1>1. /\ stage[r] = "loaded"
      /\ UNCHANGED req /\ stage' = [stage EXCEPT ![r] = "end"]
  BY DEF ChangeWrite, Writes
<1>2. u \in Users /\ (t # NoToken => t \in Issued /\ family[t] \in Tokens)
  BY <1>1, Presented
<1>3. /\ Bump(r)
      /\ revoked' = revoked \cup Of(u)
      /\ ended' = (ended \cup D) \ {<<kept, u>>}
      /\ UNCHANGED <<denied, aged, active, present, resets>>
  BY DEF ChangeWrite
<1>4. PICK c \in BOOLEAN :
        /\ t # NoToken => (c <=> t \in card)
        /\ Issue(r, kept, c, req[r].ver + 1)
  BY DEF ChangeWrite
<1>5. version' \in [Users -> Nat] /\ req[r].ver + 1 \in Nat
  BY <1>3, BumpType
<1>6. NoToken \notin card
  BY DEF TypeOK, Issued
<1>7. kept \in Tokens \cup {NoToken}
  BY <1>2, <1>6
<1>8. kept # NoToken => \E s \in Issued : kept = family[s] /\ (s \in card <=> c)
  BY <1>2, <1>4, <1>6
<1>9. Of(u) \in SUBSET Issued /\ D \in SUBSET (Issued \X Users) /\ Covers(Of(u), D)
  BY <1>2, OfCovered
<1>10. Clears(kept, u, Of(u), D)
  <2>1. \A s \in Live : Part(s) = <<kept, u>> => s \in Of(u)
    BY DEF Live, Part, Of
  <2>2. \A s \in Of(u) : Part(s) \in D
    OBVIOUS
  <2> HIDE DEF kept, D, u
  <2> QED BY <1>9, <2>1, <2>2 DEF Clears, Covers
<1>11. IssuingStep(r, kept, c, req[r].ver + 1, Of(u), D)
  <2> HIDE DEF kept, t, D
  <2> QED BY <1>1, <1>3, <1>4, <1>5, <1>8, <1>10 DEF IssuingStep
<1> HIDE DEF kept, t, u, D
<1> QED BY <1>5, <1>7, <1>9, <1>11, IssuingWrite

LEMMA AdminKeeps ==
  ASSUME NEW r \in Requests, TypeOK, IInv,
         ResetWrite(r) \/ DemoteWrite(r) \/ DisableWrite(r) \/ DeleteWrite(r)
  PROVE  TypeOK' /\ IInv'
<1> DEFINE u == req[r].user
           D == {Part(s) : s \in Of(u)}
<1>1. u \in Users
  BY DEF TypeOK
<1>2. Of(u) \in SUBSET Issued /\ D \in SUBSET (Issued \X Users) /\ Covers(Of(u), D)
  BY <1>1, OfCovered
<1>3. /\ UNCHANGED req /\ stage' = [stage EXCEPT ![r] = "end"] /\ aged' = aged
      /\ denied' \subseteq Issued
  BY DEF ResetWrite, DemoteWrite, DisableWrite, DeleteWrite, Writes, TypeOK
<1>4. CASE ResetWrite(r)
  <2>1. Ends(Of(u), D) /\ Bump(r) /\ UNCHANGED <<active, present>>
    BY <1>4 DEF ResetWrite, Ends
  <2>2. resets' \in [Users -> Nat]
    BY <1>4 DEF ResetWrite, TypeOK
  <2>3. version' \in [Users -> Nat]
    BY <2>1, BumpType
  <2>4. active' \subseteq Users /\ present' \subseteq Users
    BY <2>1 DEF TypeOK
  <2> HIDE DEF u, D
  <2> QED BY <1>2, <1>3, <2>1, <2>2, <2>3, <2>4, EndingWrite
<1>5. CASE DeleteWrite(r)
  <2>1. Ends(Of(u), D) /\ present' \subseteq present /\ UNCHANGED <<active, version, resets>>
    BY <1>5 DEF DeleteWrite, Ends
  <2>2. /\ active' \subseteq Users /\ present' \subseteq Users
        /\ version' \in [Users -> Nat] /\ resets' \in [Users -> Nat]
    BY <2>1 DEF TypeOK
  <2> HIDE DEF u, D
  <2> QED BY <1>2, <1>3, <2>1, <2>2, EndingWrite
<1>6. CASE DemoteWrite(r) \/ DisableWrite(r)
  <2>1. Quiet /\ Bump(r) /\ active' \subseteq active /\ UNCHANGED <<present, resets>>
    BY <1>6 DEF DemoteWrite, DisableWrite, Quiet
  <2>2. version' \in [Users -> Nat]
    BY <2>1, BumpType
  <2>3. active' \subseteq Users /\ present' \subseteq Users
    BY <2>1 DEF TypeOK
  <2> QED BY <1>3, <2>1, <2>2, <2>3, QuietWrite
<1> QED BY <1>4, <1>5, <1>6

LEMMA StepKeeps == TypeOK /\ IInv /\ [Next]_vars => TypeOK' /\ IInv'
<1> SUFFICES ASSUME TypeOK, IInv, [Next]_vars PROVE TypeOK' /\ IInv'
  OBVIOUS
<1>1. ASSUME NEW r \in Requests, Read(r) PROVE TypeOK' /\ IInv'
  BY <1>1, ReadKeeps
<1>2. ASSUME NEW r \in Requests, Rollback(r) PROVE TypeOK' /\ IInv'
  BY <1>2, QuietWrite DEF Rollback, Quiet, userVars, TypeOK
<1>3. ASSUME NEW r \in Requests, Write(r) PROVE TypeOK' /\ IInv'
  BY <1>2, <1>3, LoginKeeps, RefreshKeeps, LogoutKeeps, ChangeKeeps, AdminKeeps DEF Write
<1>4. ASSUME NEW f \in Tokens, Age(f) PROVE TypeOK' /\ IInv'
  <2>1. Quiet /\ UNCHANGED <<denied, userVars, stage, req>> /\ aged' \subseteq Tokens
    BY <1>4 DEF Age, Quiet, TypeOK
  <2>2. ReqOwns' /\ TypeOK'
    BY <2>1 DEF Quiet, tokenVars, userVars, ReqOwns, IInv, TypeOK, Issued, Cookies
  <2> QED BY <2>1, <2>2, QuietKeeps
<1>5. CASE UNCHANGED vars
  <2>1. Quiet /\ ReqOwns' /\ TypeOK'
    BY <1>5 DEF vars, Quiet, tokenVars, userVars, ReqOwns, IInv, TypeOK, Issued, Cookies
  <2> QED BY <2>1, QuietKeeps
<1> QED BY <1>1, <1>3, <1>4, <1>5 DEF Next

-----------------------------------------------------------------------------
LEMMA Inductive == Spec => [](TypeOK /\ IInv)
BY InitHolds, StepKeeps, PTL DEF Spec

\* Every variable keeps its type: revocations and denials are of issued tokens.
THEOREM TypeCorrect == Spec => []TypeOK
BY Inductive, PTL

\* However many requests race for a refresh token (auth.py:233), no user has two live
\* ones in a family, whosever family it is.
THEOREM OneLiveTokenHolds == Spec => []OneLiveToken
<1>1. IInv => OneLiveToken
  BY DEF IInv
<1> QED BY <1>1, Inductive, PTL

\* A user's part of a family, ended by logout, reuse, age, reset, deletion or a password
\* change, is not redeemable again, and opens no app, whatever was under way and
\* whosever cookies it came with (auth.py:305); but for the user whose own password
\* change went on in that family.
THEOREM EndedStaysDeadHolds == Spec => []EndedStaysDead
<1>1. ASSUME IInv, NEW t \in Issued, Part(t) \in ended
      PROVE  t \in revoked /\ ~ProxyValid(t)
  <2>1. \A s \in Kin(t) \cap Of(owner[t]) : s \in revoked
    BY <1>1 DEF IInv, EndedRevoked, Kin, Of, Part
  <2> QED BY <2>1, <1>1 DEF IInv, EndedRevoked, ProxyValid, Live
<1>2. IInv => EndedStaysDead
  BY <1>1 DEF EndedStaysDead
<1> QED BY <1>2, Inductive, PTL

\* A session nobody ended has a live token of its owner at every commit: no refused,
\* failed or crashed refresh strands it (auth.py:252), nor does another user's change
\* of password in the same family.
THEOREM SessionUnbrokenHolds == Spec => []SessionUnbroken
<1>1. IInv => SessionUnbroken
  BY DEF IInv
<1> QED BY <1>1, Inductive, PTL

\* All tokens of a family have one lifetime class, so that refresh and the proxy check,
\* which read different rows of it, apply the same age limit (auth.py:258, deps.py:91).
\* They need not have one owner (FamilyHasOneOwner is refuted).
THEOREM FamilyHasOneClassHolds == Spec => []FamilyHasOneClass
<1>1. IInv => FamilyHasOneClass
  BY DEF IInv
<1> QED BY <1>1, Inductive, PTL
=============================================================================
