---------------------------- MODULE Homework_proofs ----------------------------
(***************************************************************************)
(* Proofs about the kernel code of HW2 and HW3 and the threads of HW4: the *)
(* modules that MCHomework puts together.  They share no variable; each    *)
(* has theorems of its own specification.                                  *)
(***************************************************************************)
EXTENDS MCHomework, FiniteSetTheorems, SequenceTheorems, WellFoundedInduction, TLAPS

-----------------------------------------------------------------------------
(* Numbers: least and greatest ones, and induction, as a fact about sets.  *)

LEMMA Least ==
  ASSUME NEW S \in SUBSET Nat, S # {}
  PROVE  \E x \in S : \A y \in S : x <= y
<1> DEFINE R == OpToRel(<, Nat)
<1>1. IsWellFoundedOn(R, Nat)
  BY NatLessThanWellFounded
<1>2. \A x, y \in Nat : <<y, x>> \in R <=> y < x
  BY DEF OpToRel
<1> HIDE DEF R
<1>3. PICK x \in S : \A y \in S : ~(<<y, x>> \in R)
  BY <1>1, WFMin
<1>4. ASSUME NEW y \in S PROVE x <= y
  <2>1. x \in Nat /\ y \in Nat /\ ~(y < x)
    BY <1>2, <1>3
  <2> QED BY <2>1
<1> QED BY <1>4

LEMMA Induct ==
  ASSUME NEW S, 0 \in S, \A n \in Nat : n \in S => n + 1 \in S
  PROVE  Nat \subseteq S
<1> SUFFICES ASSUME Nat \ S # {} PROVE FALSE
  OBVIOUS
<1>1. PICK n \in Nat \ S : \A m \in Nat \ S : n <= m
  BY Least
<1>2. n # 0 /\ n - 1 \in Nat
  OBVIOUS
<1>3. n - 1 \in S
  BY <1>1, <1>2
<1> QED BY <1>2, <1>3

LEMMA MaxIs ==
  ASSUME NEW a \in Int, NEW b \in Int
  PROVE  Max({a, b}) = IF a >= b THEN a ELSE b
<1>1. \E x \in {a, b} : \A y \in {a, b} : x >= y
  OBVIOUS
<1>2. Max({a, b}) \in {a, b} /\ \A y \in {a, b} : Max({a, b}) >= y
  BY <1>1 DEF Max
<1> QED BY <1>2

LEMMA MinIs ==
  ASSUME NEW S \in SUBSET Nat, S # {}
  PROVE  Min(S) \in S /\ \A y \in S : Min(S) <= y
BY Least DEF Min

LEMMA LesserOf ==
  ASSUME NEW a \in Nat, NEW b \in Nat
  PROVE  Min({a, b}) = IF a <= b THEN a ELSE b
<1>1. {a, b} \in SUBSET Nat /\ {a, b} # {}
  OBVIOUS
<1>2. Min({a, b}) \in {a, b} /\ \A y \in {a, b} : Min({a, b}) <= y
  BY <1>1, MinIs
<1> QED BY <1>2

-----------------------------------------------------------------------------
(* SysCred: user and group ids.                                            *)

Ids == [r : Int, e : Int, s : Int, fs : Int]
CredTypes ==
  cred \in [uid : Ids, gid : Ids, user : Int, perm : SUBSET Caps, eff : SUBSET Caps]
CredInv == CredTypes /\ DroppedForGood

(* The ids of new are among those of old.                                  *)
Within(new, old) == IdSet(new) \subseteq IdSet(old) /\ new.fs \in IdSet(old) \cup {old.fs}

(* What IdsNeverGrow says of one step.                                     *)
Keeps == /\ "CAP_SETUID" \notin cred.eff => Within(cred'.uid, cred.uid)
         /\ "CAP_SETGID" \notin cred.eff => Within(cred'.gid, cred.gid)

LEMMA IdRecord ==
  ASSUME NEW r \in Int, NEW e \in Int, NEW s \in Int, NEW fs \in Int
  PROVE  [r |-> r, e |-> e, s |-> s, fs |-> fs] \in Ids
BY DEF Ids

LEMMA NewEffective ==
  ASSUME NEW old \in Ids, NEW id \in Int
  PROVE  LET new == [old EXCEPT !.e = id, !.fs = id]
         IN new \in Ids /\ (id \in IdSet(old) => Within(new, old))
<1> DEFINE new == [old EXCEPT !.e = id, !.fs = id]
<1>1. new \in Ids
  BY DEF Ids
<1>2. new.r = old.r /\ new.e = id /\ new.s = old.s /\ new.fs = id
  BY DEF Ids
<1> HIDE DEF new
<1>3. id \in IdSet(old) => Within(new, old)
  BY <1>2 DEF Within, IdSet
<1> QED BY <1>1, <1>3 DEF new

LEMMA InitCred == CredInit => CredInv
<1> SUFFICES ASSUME CredInit PROVE CredInv
  OBVIOUS
<1>1. PICK u \in Uids, o \in Uids, g \in Gids, h \in Gids :
        cred = LET caps == IF o = 0 THEN Caps ELSE {}
               IN [uid |-> [AllAre(o) EXCEPT !.r = u], gid |-> [AllAre(h) EXCEPT !.r = g],
                   user |-> u, perm |-> IF 0 \in {u, o} THEN Caps ELSE {}, eff |-> caps]
  BY DEF CredInit, CredStarts
<1>2. u \in Int /\ o \in Int /\ g \in Int /\ h \in Int
  BY CredAssumption
<1>3. /\ cred.uid = [r |-> u, e |-> o, s |-> o, fs |-> o]
      /\ cred.gid = [r |-> g, e |-> h, s |-> h, fs |-> h] /\ cred.user = u
      /\ cred.perm = IF 0 \in {u, o} THEN Caps ELSE {}
      /\ cred.eff = IF o = 0 THEN Caps ELSE {}
      /\ cred = [uid |-> cred.uid, gid |-> cred.gid, user |-> cred.user,
                 perm |-> cred.perm, eff |-> cred.eff]
  BY <1>1 DEF AllAre
<1>4. CredTypes
  <2>1. cred.uid \in Ids /\ cred.gid \in Ids /\ cred.user \in Int
    BY <1>2, <1>3, IdRecord
  <2>2. cred.perm \in SUBSET Caps /\ cred.eff \in SUBSET Caps
    BY <1>3
  <2> QED BY <1>3, <2>1, <2>2 DEF CredTypes
<1>5. DroppedForGood
  <2>1. IdSet(cred.uid) = {u, o} /\ cred.user = cred.uid.r
    BY <1>3 DEF IdSet
  <2> QED BY <1>3, <2>1 DEF DroppedForGood
<1> QED BY <1>4, <1>5 DEF CredInv

(* A step that leaves the credentials alone.                               *)
LEMMA SameCred == ASSUME CredInv, cred' = cred PROVE CredInv' /\ Keeps
BY DEF CredInv, CredTypes, DroppedForGood, Keeps, Within, IdSet

(* A commit of new user ids, which the caller may have.                    *)
LEMMA UidCall ==
  ASSUME CredInv, NEW new \in Ids, CommitUid(new),
         "CAP_SETUID" \notin cred.eff => Within(new, cred.uid)
  PROVE  CredInv' /\ Keeps
<1>1. CASE cred' = cred
  BY <1>1, SameCred
<1>2. CASE cred' = [FixSetuid(cred, new) EXCEPT !.user = new.r]
  <2> DEFINE drops == 0 \in IdSet(cred.uid) /\ 0 \notin IdSet(new)
  <2>1. /\ cred'.uid = new /\ cred'.gid = cred.gid /\ cred'.user = new.r
        /\ cred'.perm = IF drops THEN {} ELSE cred.perm
        /\ cred'.eff = CASE drops \/ (cred.uid.e = 0 /\ new.e # 0) -> {}
                         [] cred.uid.e # 0 /\ new.e = 0 -> cred.perm
                         [] OTHER -> cred.eff
        /\ cred' = [uid |-> cred'.uid, gid |-> cred'.gid, user |-> cred'.user,
                    perm |-> cred'.perm, eff |-> cred'.eff]
    BY <1>2 DEF FixSetuid, CredInv, CredTypes
  <2>2. /\ cred.gid \in Ids /\ new.r \in Int /\ cred.perm \in SUBSET Caps
        /\ cred.eff \subseteq cred.perm /\ cred.eff \in SUBSET Caps
    BY DEF CredInv, CredTypes, DroppedForGood, Ids
  <2>3. /\ cred'.eff = {} \/ (~ drops /\ cred'.eff \in {cred.perm, cred.eff})
        /\ cred'.perm = {} \/ (~ drops /\ cred'.perm = cred.perm)
        /\ cred'.eff = {} \/ cred'.perm = cred.perm
    <3>1. CASE drops
      <4>1. new.e # 0
        BY <3>1 DEF IdSet
      <4> QED BY <2>1, <3>1, <4>1
    <3>2. CASE ~ drops
      <4> DEFINE gives == cred.uid.e = 0 /\ new.e # 0
                 takes == cred.uid.e # 0 /\ new.e = 0
      <4>1. cred'.perm = cred.perm /\ ~ (gives /\ takes)
        BY <2>1, <3>2
      <4>2. cred'.eff = CASE gives -> {} [] takes -> cred.perm [] OTHER -> cred.eff
        BY <2>1, <3>2
      <4> HIDE DEF gives, takes, drops
      <4>3. cred'.eff \in {{}, cred.perm, cred.eff}
        BY <4>1, <4>2
      <4> QED BY <3>2, <4>1, <4>3
    <3> QED BY <3>1, <3>2
  <2>4. CredTypes'
    <3>1. cred'.perm \in SUBSET Caps /\ cred'.eff \in SUBSET Caps
      BY <2>2, <2>3
    <3>2. cred'.uid \in Ids /\ cred'.gid \in Ids /\ cred'.user \in Int
      BY <2>1, <2>2
    <3>3. cred' = [uid |-> cred'.uid, gid |-> cred'.gid, user |-> cred'.user,
                   perm |-> cred'.perm, eff |-> cred'.eff]
      BY <2>1
    <3> QED BY <3>1, <3>2, <3>3 DEF CredTypes
  <2>5. 0 \notin IdSet(new) => cred'.perm = {} /\ cred'.eff = {}
    <3> SUFFICES ASSUME 0 \notin IdSet(new) PROVE cred'.perm = {} /\ cred'.eff = {}
      OBVIOUS
    <3>1. CASE 0 \in IdSet(cred.uid)
      BY <2>3, <3>1
    <3>2. CASE 0 \notin IdSet(cred.uid)
      <4>1. cred.perm = {} /\ cred.eff = {}
        BY <3>2 DEF CredInv, DroppedForGood
      <4> QED BY <2>3, <4>1
    <3> QED BY <3>1, <3>2
  <2>6. DroppedForGood'
    BY <2>1, <2>2, <2>3, <2>5 DEF DroppedForGood
  <2>7. Keeps
    BY <2>1 DEF Keeps, Within
  <2> QED BY <2>4, <2>6, <2>7 DEF CredInv
<1> QED BY <1>1, <1>2 DEF CommitUid, Refused, credVars

(* A step that changes the group ids only, to some the caller may have.    *)
LEMMA GidCall ==
  ASSUME CredInv, NEW new \in Ids, CommitGid(new),
         "CAP_SETGID" \notin cred.eff => Within(new, cred.gid)
  PROVE  CredInv' /\ Keeps
<1>1. cred' = [cred EXCEPT !.gid = new]
  BY DEF CommitGid
<1>2. /\ cred'.uid = cred.uid /\ cred'.gid = new /\ cred'.user = cred.user
      /\ cred'.perm = cred.perm /\ cred'.eff = cred.eff
      /\ cred' \in [uid : Ids, gid : Ids, user : Int, perm : SUBSET Caps, eff : SUBSET Caps]
  BY <1>1 DEF CredInv, CredTypes
<1>3. Keeps
  BY <1>2 DEF Keeps, Within
<1> QED BY <1>2, <1>3 DEF CredInv, CredTypes, DroppedForGood

(* The ids that the rules of the calls let through.                        *)
LEMMA GivenId == ASSUME NEW id \in Int, NEW old \in Int PROVE Given(id, old) \in Int
BY DEF Given

LEMMA ReRule ==
  ASSUME NEW old \in Ids, NEW r \in Int, NEW e \in Int, NEW cap,
         MayRe(old, r, e, cap)
  PROVE  NewRe(old, r, e) \in Ids /\ (cap \notin cred.eff => Within(NewRe(old, r, e), old))
<1>1. old.r \in Int /\ old.e \in Int /\ old.s \in Int /\ old.fs \in Int
  BY DEF Ids
<1> DEFINE ne == Given(e, old.e)
           ns == IF r # NoId \/ e \notin {NoId, old.r} THEN ne ELSE old.s
<1>2. Given(r, old.r) \in Int /\ ne \in Int /\ ns \in Int
  BY <1>1, GivenId
<1>3. NewRe(old, r, e) = [r |-> Given(r, old.r), e |-> ne, s |-> ns, fs |-> ne]
  BY DEF NewRe
<1>4. ASSUME cap \notin cred.eff
      PROVE  Given(r, old.r) \in IdSet(old) /\ ne \in IdSet(old) /\ ns \in IdSet(old)
  BY <1>4 DEF MayRe, ns_capable, Given, IdSet
<1> HIDE DEF ne, ns
<1>5. /\ NewRe(old, r, e).r = Given(r, old.r) /\ NewRe(old, r, e).e = ne
      /\ NewRe(old, r, e).s = ns /\ NewRe(old, r, e).fs = ne
  BY <1>3
<1>6. cap \notin cred.eff => Within(NewRe(old, r, e), old)
  BY <1>4, <1>5 DEF Within, IdSet
<1> QED BY <1>2, <1>3, <1>6, IdRecord

LEMMA ResRule ==
  ASSUME NEW old \in Ids, NEW r \in Int, NEW e \in Int, NEW s \in Int, NEW cap,
         MayRes(old, r, e, s, cap)
  PROVE  /\ NewRes(old, r, e, s) \in Ids
         /\ cap \notin cred.eff => Within(NewRes(old, r, e, s), old)
<1>1. old.r \in Int /\ old.e \in Int /\ old.s \in Int
  BY DEF Ids
<1>2. Given(r, old.r) \in Int /\ Given(e, old.e) \in Int /\ Given(s, old.s) \in Int
  BY <1>1, GivenId
<1>3. NewRes(old, r, e, s) =
        [r |-> Given(r, old.r), e |-> Given(e, old.e), s |-> Given(s, old.s), fs |-> Given(e, old.e)]
  BY DEF NewRes
<1>4. ASSUME cap \notin cred.eff
      PROVE  {Given(r, old.r), Given(e, old.e), Given(s, old.s)} \subseteq IdSet(old)
  BY <1>4 DEF MayRes, ns_capable, Given, IdSet
<1>5. cap \notin cred.eff => Within(NewRes(old, r, e, s), old)
  BY <1>3, <1>4 DEF Within, IdSet
<1> QED BY <1>2, <1>3, <1>5, IdRecord

(* One of the calls.                                                       *)
LEMMA CredStep == CredInv /\ [CredNext]_credVars => CredInv' /\ Keeps
<1> SUFFICES ASSUME CredInv, [CredNext]_credVars PROVE CredInv' /\ Keeps
  OBVIOUS
<1>1. /\ cred.uid \in Ids /\ cred.gid \in Ids
      /\ \A x \in Uids \cup Gids \cup {NoId, Unmapped} : x \in Int
  BY CredAssumption DEF CredInv, CredTypes, NoId, Unmapped
<1>2. /\ \A f \in {"r", "e", "s", "fs"} : cred.uid[f] \in Int /\ cred.gid[f] \in Int
      /\ cred.uid = [r |-> cred.uid.r, e |-> cred.uid.e, s |-> cred.uid.s, fs |-> cred.uid.fs]
      /\ cred.gid = [r |-> cred.gid.r, e |-> cred.gid.e, s |-> cred.gid.s, fs |-> cred.gid.fs]
  BY <1>1 DEF Ids
<1>3. CASE Refused \/ UNCHANGED credVars
  BY <1>3, SameCred DEF Refused, credVars
<1>4. ASSUME NEW u \in Uids \cup {Unmapped}, setuid(u) PROVE CredInv' /\ Keeps
  <2>1. CASE ns_capable("CAP_SETUID") /\ CommitUid(AllAre(u))
    <3>1. AllAre(u) \in Ids
      BY <1>1, IdRecord DEF AllAre
    <3> QED BY <2>1, <3>1, UidCall DEF ns_capable
  <2>2. CASE u \in {cred.uid.r, cred.uid.s} /\ CommitUid([cred.uid EXCEPT !.e = u, !.fs = u])
    <3> DEFINE new == [cred.uid EXCEPT !.e = u, !.fs = u]
    <3>1. u \in IdSet(cred.uid)
      BY <2>2 DEF IdSet
    <3>2. new \in Ids /\ Within(new, cred.uid)
      BY <1>1, <3>1, NewEffective
    <3> HIDE DEF new
    <3>3. CommitUid(new)
      BY <2>2 DEF new
    <3> QED BY <3>2, <3>3, UidCall
  <2> QED BY <1>3, <1>4, <2>1, <2>2 DEF setuid
<1>5. ASSUME NEW u \in Uids \cup {Unmapped}, setfsuid(u) PROVE CredInv' /\ Keeps
  <2>1. CASE /\ ns_capable("CAP_SETUID") \/ u \in IdSet(cred.uid)
             /\ cred' = [cred EXCEPT !.uid.fs = u]
    <3> DEFINE new == [cred.uid EXCEPT !.fs = u]
    <3>1. new = [r |-> cred.uid.r, e |-> cred.uid.e, s |-> cred.uid.s, fs |-> u]
      BY <1>2
    <3>2. new \in Ids
      BY <1>1, <1>2, <3>1, IdRecord
    <3>3. /\ cred'.uid = new /\ cred'.gid = cred.gid /\ cred'.user = cred.user
          /\ cred'.perm = cred.perm /\ cred'.eff = cred.eff
          /\ cred' = [uid |-> cred'.uid, gid |-> cred'.gid, user |-> cred'.user,
                      perm |-> cred'.perm, eff |-> cred'.eff]
      BY <2>1 DEF CredInv, CredTypes
    <3>4. IdSet(new) = IdSet(cred.uid) /\ new.r = cred.uid.r /\ new.fs = u
      BY <3>1 DEF IdSet
    <3> HIDE DEF new
    <3>5. CredTypes'
      BY <1>1, <3>2, <3>3 DEF CredInv, CredTypes
    <3>6. DroppedForGood'
      BY <3>3, <3>4 DEF CredInv, DroppedForGood
    <3>7. Keeps
      BY <2>1, <3>3, <3>4 DEF Keeps, Within, ns_capable
    <3> QED BY <3>5, <3>6, <3>7 DEF CredInv
  <2> QED BY <1>3, <1>5, <2>1 DEF setfsuid
<1>6. ASSUME NEW g \in Gids \cup {Unmapped}, setgid(g) PROVE CredInv' /\ Keeps
  <2>1. CASE ns_capable("CAP_SETGID") /\ CommitGid(AllAre(g))
    <3>1. AllAre(g) \in Ids
      BY <1>1, IdRecord DEF AllAre
    <3> QED BY <2>1, <3>1, GidCall DEF ns_capable
  <2>2. CASE g \in {cred.gid.r, cred.gid.s} /\ CommitGid([cred.gid EXCEPT !.e = g, !.fs = g])
    <3> DEFINE new == [cred.gid EXCEPT !.e = g, !.fs = g]
    <3>1. g \in IdSet(cred.gid)
      BY <2>2 DEF IdSet
    <3>2. new \in Ids /\ Within(new, cred.gid)
      BY <1>1, <3>1, NewEffective
    <3> HIDE DEF new
    <3>3. CommitGid(new)
      BY <2>2 DEF new
    <3> QED BY <3>2, <3>3, GidCall
  <2> QED BY <1>3, <1>6, <2>1, <2>2 DEF setgid
<1>7. ASSUME NEW g \in Gids \cup {Unmapped}, setfsgid(g) PROVE CredInv' /\ Keeps
  <2>1. CASE /\ ns_capable("CAP_SETGID") \/ g \in IdSet(cred.gid)
             /\ CommitGid([cred.gid EXCEPT !.fs = g])
    <3> DEFINE new == [cred.gid EXCEPT !.fs = g]
    <3>1. new = [r |-> cred.gid.r, e |-> cred.gid.e, s |-> cred.gid.s, fs |-> g]
      BY <1>2
    <3>2. new \in Ids
      BY <1>1, <1>2, <3>1, IdRecord
    <3>3. g \in IdSet(cred.gid) => Within(new, cred.gid)
      BY <3>1 DEF Within, IdSet
    <3> QED BY <2>1, <3>2, <3>3, GidCall DEF ns_capable
  <2> QED BY <1>3, <1>7, <2>1 DEF setfsgid
<1>8. ASSUME NEW r \in Uids \cup {NoId, Unmapped}, NEW e \in Uids \cup {NoId, Unmapped},
             setreuid(r, e)
      PROVE  CredInv' /\ Keeps
  <2>1. CASE MayRe(cred.uid, r, e, "CAP_SETUID") /\ CommitUid(NewRe(cred.uid, r, e))
    BY <1>1, <2>1, ReRule, UidCall
  <2> QED BY <1>3, <1>8, <2>1 DEF setreuid
<1>9. ASSUME NEW r \in Uids \cup {NoId, Unmapped}, NEW e \in Uids \cup {NoId, Unmapped},
             NEW s \in Uids \cup {NoId, Unmapped}, setresuid(r, e, s)
      PROVE  CredInv' /\ Keeps
  <2>1. CASE MayRes(cred.uid, r, e, s, "CAP_SETUID") /\ CommitUid(NewRes(cred.uid, r, e, s))
    BY <1>1, <2>1, ResRule, UidCall
  <2> QED BY <1>3, <1>9, <2>1 DEF setresuid
<1>10. ASSUME NEW r \in Gids \cup {NoId, Unmapped}, NEW e \in Gids \cup {NoId, Unmapped},
              setregid(r, e)
       PROVE  CredInv' /\ Keeps
  <2>1. CASE MayRe(cred.gid, r, e, "CAP_SETGID") /\ CommitGid(NewRe(cred.gid, r, e))
    BY <1>1, <2>1, ReRule, GidCall
  <2> QED BY <1>3, <1>10, <2>1 DEF setregid
<1>11. ASSUME NEW r \in Gids \cup {NoId, Unmapped}, NEW e \in Gids \cup {NoId, Unmapped},
              NEW s \in Gids \cup {NoId, Unmapped}, setresgid(r, e, s)
       PROVE  CredInv' /\ Keeps
  <2>1. CASE MayRes(cred.gid, r, e, s, "CAP_SETGID") /\ CommitGid(NewRes(cred.gid, r, e, s))
    BY <1>1, <2>1, ResRule, GidCall
  <2> QED BY <1>3, <1>11, <2>1 DEF setresgid
<1> QED BY <1>3, <1>4, <1>5, <1>6, <1>7, <1>8, <1>9, <1>10, <1>11 DEF CredNext

LEMMA CredAlways == CredSpec => []CredInv
<1>1. CredInv /\ [CredNext]_credVars => CredInv'
  BY CredStep
<1> QED BY <1>1, InitCred, PTL DEF CredSpec

(* A process that is root in none of its three ids has no capability, and  *)
(* its capabilities in effect are among the permitted ones, whatever the   *)
(* set-user-id calls before and whatever the security module refused.      *)
THEOREM RootIsDropped == CredSpec => []DroppedForGood
<1>1. CredInv => DroppedForGood
  BY DEF CredInv
<1> QED BY <1>1, CredAlways, PTL

(* No call gives a process without the capability an id that was not its   *)
(* real, effective or saved id already.                                    *)
THEOREM IdsOnlyFewer == CredSpec => IdsNeverGrow
<1>1. CredInv /\ [CredNext]_credVars =>
        [ /\ "CAP_SETUID" \notin cred.eff =>
                IdSet(cred'.uid) \subseteq IdSet(cred.uid) /\ cred'.uid.fs \in IdSet(cred.uid) \cup {cred.uid.fs}
          /\ "CAP_SETGID" \notin cred.eff =>
                IdSet(cred'.gid) \subseteq IdSet(cred.gid) /\ cred'.gid.fs \in IdSet(cred.gid) \cup {cred.gid.fs}
        ]_cred
  BY CredStep DEF Keeps, Within
<1> QED BY <1>1, CredAlways, PTL DEF CredSpec, IdsNeverGrow

(* "A setuid program can completely drop its privileges": once root is     *)
(* none of the three ids, no call makes it one again.                      *)
RootStaysAway == [][0 \notin IdSet(cred.uid) => 0 \notin IdSet(cred'.uid)]_cred

THEOREM RootNeverReturns == CredSpec => RootStaysAway
<1>1. CredInv /\ [CredNext]_credVars =>
        [0 \notin IdSet(cred.uid) => 0 \notin IdSet(cred'.uid)]_cred
  <2> SUFFICES ASSUME CredInv, [CredNext]_credVars, 0 \notin IdSet(cred.uid)
               PROVE  0 \notin IdSet(cred'.uid)
    OBVIOUS
  <2>1. "CAP_SETUID" \notin cred.eff
    BY DEF CredInv, DroppedForGood
  <2> QED BY <2>1, CredStep DEF Keeps, Within
<1> QED BY <1>1, CredAlways, PTL DEF CredSpec, RootStaysAway

-----------------------------------------------------------------------------
(* SysProcess: process groups and sessions.                                *)

TaskFields == {"parent", "pgrp", "sess", "leader", "forknoexec", "tty",
               "is_child_subreaper", "has_child_subreaper"}
TaskTypes == Alive \subseteq Pids /\ \A p \in Alive : DOMAIN task[p] = TaskFields

(* A group named after a process that lives is in that process's session:  *)
(* the process cannot start another one while the group has members.       *)
GroupHome == \A p, q \in Alive : task[q].pgrp = p => task[q].sess = task[p].sess

(* A session named after a process that lives has that process as leader,  *)
(* which can start no other.                                               *)
SessionHome == \A p, q \in Alive : task[q].sess = p => task[p].leader

SameSession == \A p, q \in Alive :
                 /\ task[p].pgrp = task[q].pgrp => task[p].sess = task[q].sess
                 /\ task[p].sess = task[q].sess => task[p].tty = task[q].tty

ProcessInv == TaskTypes /\ GroupHome /\ SessionHome /\ SameSession

(* A step after which every process has the group, session and terminal of *)
(* a process before it, and is a leader if it was that process.            *)
LEMMA Inherited ==
  ASSUME ProcessInv, TaskTypes', NEW from \in [Alive' -> Alive],
         \A p \in Alive' : /\ task'[p].pgrp = task[from[p]].pgrp
                           /\ task'[p].sess = task[from[p]].sess
                           /\ task'[p].tty = task[from[p]].tty,
         \A p \in Alive' : \/ p = from[p] /\ task'[p].leader = task[p].leader
                           \/ \A q \in Alive : task[q].pgrp # p /\ task[q].sess # p
  PROVE  ProcessInv'
<1>1. \A p \in Alive' : from[p] \in Alive
  OBVIOUS
<1>2. SameSession'
  BY <1>1 DEF ProcessInv, SameSession
<1>3. ASSUME NEW p \in Alive', NEW q \in Alive', task'[q].pgrp = p
      PROVE  task'[q].sess = task'[p].sess
  <2>1. p = from[p]
    BY <1>1, <1>3
  <2> QED BY <1>1, <1>3, <2>1 DEF ProcessInv, GroupHome
<1>4. ASSUME NEW p \in Alive', NEW q \in Alive', task'[q].sess = p
      PROVE  task'[p].leader
  <2>1. p = from[p] /\ task'[p].leader = task[p].leader
    BY <1>1, <1>4
  <2> QED BY <1>1, <1>4, <2>1 DEF ProcessInv, SessionHome
<1>5. GroupHome' /\ SessionHome'
  BY <1>3, <1>4 DEF GroupHome, SessionHome
<1> QED BY <1>2, <1>5 DEF ProcessInv

LEMMA InitProcess == ProcessInit => ProcessInv
<1> SUFFICES ASSUME ProcessInit PROVE ProcessInv
  OBVIOUS
<1>1. /\ Alive = {Reaper} /\ DOMAIN task[Reaper] = TaskFields
      /\ task[Reaper].leader = TRUE /\ task[Reaper].sess = Reaper
  BY DEF ProcessInit, ProcessStart, Alive, TaskFields
<1> QED BY <1>1, ProcessAssumption
        DEF ProcessInv, TaskTypes, GroupHome, SessionHome, SameSession

LEMMA ForkStep == ASSUME ProcessInv, NEW me \in Alive, fork(me) PROVE ProcessInv'
<1>1. PICK c \in Pids \ (Alive \cup {task[p].pgrp : p \in Alive} \cup {task[p].sess : p \in Alive}) :
        task' = [p \in Alive \cup {c} |->
          IF p # c THEN task[p]
          ELSE [task[me] EXCEPT !.parent = me, !.leader = FALSE, !.forknoexec = TRUE,
                  !.is_child_subreaper = FALSE,
                  !.has_child_subreaper = task[me].has_child_subreaper \/ task[me].is_child_subreaper]]
  BY DEF fork
<1> DEFINE from == [p \in Alive' |-> IF p = c THEN me ELSE p]
<1>2. /\ Alive' = Alive \cup {c} /\ c \notin Alive
      /\ \A q \in Alive : task[q].pgrp # c /\ task[q].sess # c
  BY <1>1 DEF Alive
<1>3. \A p \in Alive : task'[p] = task[p]
  BY <1>1, <1>2
<1>4. /\ DOMAIN task'[c] = TaskFields /\ task'[c].pgrp = task[me].pgrp
      /\ task'[c].sess = task[me].sess /\ task'[c].tty = task[me].tty
  <2>1. DOMAIN task[me] = TaskFields
    BY DEF ProcessInv, TaskTypes
  <2>2. task'[c] =
          [task[me] EXCEPT !.parent = me, !.leader = FALSE, !.forknoexec = TRUE,
             !.is_child_subreaper = FALSE,
             !.has_child_subreaper = task[me].has_child_subreaper \/ task[me].is_child_subreaper]
    BY <1>1
  <2> QED BY <2>1, <2>2 DEF TaskFields
<1>5. TaskTypes'
  BY <1>2, <1>3, <1>4 DEF ProcessInv, TaskTypes
<1>6. from \in [Alive' -> Alive] /\ from[c] = me /\ \A p \in Alive : from[p] = p
  BY <1>2
<1> HIDE DEF from
<1>7. ASSUME NEW p \in Alive'
      PROVE  /\ task'[p].pgrp = task[from[p]].pgrp
             /\ task'[p].sess = task[from[p]].sess
             /\ task'[p].tty = task[from[p]].tty
             /\ \/ p = from[p] /\ task'[p].leader = task[p].leader
                \/ \A q \in Alive : task[q].pgrp # p /\ task[q].sess # p
  <2>1. CASE p = c
    BY <1>2, <1>4, <1>6, <2>1
  <2>2. CASE p # c
    BY <1>2, <1>3, <1>6, <2>2
  <2> QED BY <2>1, <2>2
<1> QED BY <1>5, <1>6, <1>7, Inherited

(* A step that changes neither group, session, leader nor terminal of the  *)
(* processes that remain.                                                  *)
LEMMA SameGroups ==
  ASSUME ProcessInv, Alive' \subseteq Alive,
         \A p \in Alive' : /\ DOMAIN task'[p] = TaskFields
                           /\ task'[p].pgrp = task[p].pgrp /\ task'[p].sess = task[p].sess
                           /\ task'[p].tty = task[p].tty /\ task'[p].leader = task[p].leader
  PROVE  ProcessInv'
<1> DEFINE from == [p \in Alive' |-> p]
<1>1. from \in [Alive' -> Alive] /\ \A p \in Alive' : from[p] = p
  OBVIOUS
<1>2. TaskTypes'
  BY DEF ProcessInv, TaskTypes
<1> HIDE DEF from
<1> QED BY <1>1, <1>2, Inherited

LEMMA ExecveStep == ASSUME ProcessInv, NEW me \in Alive, execve(me) PROVE ProcessInv'
<1>1. task' = [task EXCEPT ![me].forknoexec = FALSE] /\ Alive' = Alive
  BY DEF execve, Alive
<1>2. \A p \in Alive : DOMAIN task[p] = TaskFields
  BY DEF ProcessInv, TaskTypes
<1>3. ASSUME NEW p \in Alive
      PROVE  /\ DOMAIN task'[p] = TaskFields
             /\ task'[p].pgrp = task[p].pgrp /\ task'[p].sess = task[p].sess
             /\ task'[p].tty = task[p].tty /\ task'[p].leader = task[p].leader
  BY <1>1, <1>2 DEF TaskFields, Alive
<1> QED BY <1>1, <1>3, SameGroups

LEMMA ExitStep == ASSUME ProcessInv, NEW me \in Alive, exit(me) PROVE ProcessInv'
<1>1. /\ task' = [p \in Alive \ {me} |->
                    IF task[p].parent = me THEN [task[p] EXCEPT !.parent = NewReaper(me)] ELSE task[p]]
      /\ Alive' = Alive \ {me}
  BY DEF exit, Alive
<1>2. \A p \in Alive : DOMAIN task[p] = TaskFields
  BY DEF ProcessInv, TaskTypes
<1>3. ASSUME NEW p \in Alive \ {me}
      PROVE  /\ DOMAIN task'[p] = TaskFields
             /\ task'[p].pgrp = task[p].pgrp /\ task'[p].sess = task[p].sess
             /\ task'[p].tty = task[p].tty /\ task'[p].leader = task[p].leader
  <2>1. task'[p] = task[p] \/ task'[p] = [task[p] EXCEPT !.parent = NewReaper(me)]
    BY <1>1
  <2> QED BY <1>2, <2>1 DEF TaskFields
<1> QED BY <1>1, <1>3, SameGroups

LEMMA SubreaperStep ==
  ASSUME ProcessInv, NEW me \in Alive, NEW arg2 \in BOOLEAN, PrSetChildSubreaper(me, arg2)
  PROVE  ProcessInv'
<1> DEFINE marked == IF arg2 THEN propagate_has_child_subreaper(me) ELSE {}
<1>1. /\ task' = [p \in Alive |->
                    [task[p] EXCEPT !.is_child_subreaper = IF p = me THEN arg2 ELSE @,
                                    !.has_child_subreaper = @ \/ p \in marked]]
      /\ Alive' = Alive
  BY DEF PrSetChildSubreaper, Alive
<1>2. \A p \in Alive : DOMAIN task[p] = TaskFields
  BY DEF ProcessInv, TaskTypes
<1> HIDE DEF marked
<1>3. ASSUME NEW p \in Alive
      PROVE  /\ DOMAIN task'[p] = TaskFields
             /\ task'[p].pgrp = task[p].pgrp /\ task'[p].sess = task[p].sess
             /\ task'[p].tty = task[p].tty /\ task'[p].leader = task[p].leader
  BY <1>1, <1>2 DEF TaskFields
<1> QED BY <1>1, <1>3, SameGroups

(* A process moves to its own, new group or to one of its session.         *)
LEMMA SetpgidStep ==
  ASSUME ProcessInv, NEW me \in Alive, NEW pid, NEW pgid, setpgid(me, pid, pgid)
  PROVE  ProcessInv'
<1> DEFINE p == IF pid = 0 THEN me ELSE pid
           g == IF pgid = 0 THEN p ELSE pgid
<1>1. /\ MayMove(me, p)
      /\ g # p => \E q \in Group(g) : task[q].sess = task[me].sess
      /\ task' = [task EXCEPT ![p].pgrp = g]
  BY DEF setpgid
<1> HIDE DEF p, g
<1>2. p \in Alive /\ task[p].sess = task[me].sess
  BY <1>1 DEF MayMove
<1>3. Alive' = Alive /\ \A q \in Alive : DOMAIN task[q] = TaskFields
  BY <1>1 DEF Alive, ProcessInv, TaskTypes
<1>4. ASSUME NEW q \in Alive
      PROVE  /\ DOMAIN task'[q] = TaskFields
             /\ task'[q].pgrp = IF q = p THEN g ELSE task[q].pgrp
             /\ task'[q].sess = task[q].sess
             /\ task'[q].tty = task[q].tty /\ task'[q].leader = task[q].leader
  BY <1>1, <1>3 DEF TaskFields, Alive
<1>5. TaskTypes' /\ SessionHome'
  BY <1>3, <1>4 DEF ProcessInv, TaskTypes, SessionHome
<1>6. \A q \in Alive : task[q].pgrp = g => task[q].sess = task[p].sess
  <2>1. CASE g = p
    BY <1>2, <2>1 DEF ProcessInv, GroupHome
  <2>2. CASE g # p
    BY <1>1, <1>2, <2>2 DEF ProcessInv, SameSession, Group
  <2> QED BY <2>1, <2>2
<1>7. \A q \in Alive : q = g => task[q].sess = task[p].sess
  <2>1. CASE g = p
    BY <2>1
  <2>2. CASE g # p
    BY <1>1, <1>2, <2>2 DEF ProcessInv, GroupHome, Group
  <2> QED BY <2>1, <2>2
<1>8. GroupHome'
  BY <1>2, <1>3, <1>4, <1>6, <1>7 DEF ProcessInv, GroupHome
<1>9. SameSession'
  BY <1>2, <1>3, <1>4, <1>6 DEF ProcessInv, SameSession
<1> QED BY <1>5, <1>8, <1>9 DEF ProcessInv

(* A new session: no group has the caller's name, and no session either.   *)
LEMMA SetsidStep == ASSUME ProcessInv, NEW me \in Alive, setsid(me) PROVE ProcessInv'
<1>1. /\ ~ task[me].leader /\ Group(me) = {}
      /\ task' = [task EXCEPT ![me].leader = TRUE, ![me].sess = me, ![me].pgrp = me, ![me].tty = FALSE]
      /\ Alive' = Alive
  BY DEF setsid, set_special_pids, Alive
<1>2. \A q \in Alive : DOMAIN task[q] = TaskFields
  BY DEF ProcessInv, TaskTypes
<1>3. \A q \in Alive : task[q].pgrp # me /\ task[q].sess # me
  BY <1>1 DEF Group, ProcessInv, SessionHome
<1>4. /\ DOMAIN task'[me] = TaskFields /\ task'[me].pgrp = me /\ task'[me].sess = me
      /\ task'[me].leader = TRUE
      /\ \A q \in Alive \ {me} : task'[q] = task[q]
  BY <1>1, <1>2 DEF TaskFields, Alive
<1>5. TaskTypes' /\ GroupHome' /\ SessionHome'
  <2>1. TaskTypes'
    BY <1>1, <1>2, <1>4 DEF ProcessInv, TaskTypes
  <2>2. ASSUME NEW p \in Alive, NEW q \in Alive
        PROVE  /\ task'[q].pgrp = p => task'[q].sess = task'[p].sess
               /\ task'[q].sess = p => task'[p].leader
    <3>1. CASE q = me
      BY <1>4, <3>1
    <3>2. CASE q # me /\ p = me
      BY <1>3, <1>4, <3>2
    <3>3. CASE q # me /\ p # me
      BY <1>4, <3>3 DEF ProcessInv, GroupHome, SessionHome
    <3> QED BY <3>1, <3>2, <3>3
  <2> QED BY <1>1, <2>1, <2>2 DEF GroupHome, SessionHome
<1>6. SameSession'
  <2> SUFFICES ASSUME NEW p \in Alive, NEW q \in Alive
               PROVE  /\ task'[p].pgrp = task'[q].pgrp => task'[p].sess = task'[q].sess
                      /\ task'[p].sess = task'[q].sess => task'[p].tty = task'[q].tty
    BY <1>1 DEF SameSession
  <2>1. CASE p = me \/ q = me
    BY <1>3, <1>4, <2>1
  <2>2. CASE p # me /\ q # me
    BY <1>4, <2>2 DEF ProcessInv, SameSession
  <2> QED BY <2>1, <2>2
<1> QED BY <1>5, <1>6 DEF ProcessInv

LEMMA ProcessAlways == ProcessSpec => []ProcessInv
<1>1. ProcessInv /\ [ProcessNext]_task => ProcessInv'
  <2> SUFFICES ASSUME ProcessInv, [ProcessNext]_task PROVE ProcessInv'
    OBVIOUS
  <2>1. CASE UNCHANGED task
    BY <2>1 DEF ProcessInv, TaskTypes, GroupHome, SessionHome, SameSession, Alive
  <2>2. ASSUME NEW me \in Alive,
               fork(me) \/ execve(me) \/ exit(me) \/ setsid(me)
        PROVE  ProcessInv'
    BY <2>2, ForkStep, ExecveStep, ExitStep, SetsidStep
  <2>3. ASSUME NEW me \in Alive, NEW pid \in Pids \cup {0}, NEW pgid \in Pids \cup {0, -1},
               setpgid(me, pid, pgid)
        PROVE  ProcessInv'
    BY <2>3, SetpgidStep
  <2>4. ASSUME NEW me \in Alive, NEW arg2 \in BOOLEAN, PrSetChildSubreaper(me, arg2)
        PROVE  ProcessInv'
    BY <2>4, SubreaperStep
  <2> QED BY <2>1, <2>2, <2>3, <2>4 DEF ProcessNext
<1> QED BY <1>1, InitProcess, PTL DEF ProcessSpec

(* The members of a process group are all in one session, and those of a   *)
(* session all have its terminal or none, whatever order processes fork,   *)
(* move, start sessions and exit in: setsid and setpgid look only at the   *)
(* caller and at one member of the group.                                  *)
THEOREM GroupsInOneSession == ProcessSpec => []PgrpInOneSession
<1>1. ProcessInv => PgrpInOneSession
  <2> SUFFICES ASSUME ProcessInv PROVE PgrpInOneSession
    OBVIOUS
  <2>1. \A p \in Alive : p # 0
    BY ProcessAssumption DEF ProcessInv, TaskTypes
  <2> QED BY <2>1 DEF PgrpInOneSession, getpgid, getsid, ProcessInv, SameSession
<1> QED BY <1>1, ProcessAlways, PTL

-----------------------------------------------------------------------------
(* PthreadSub: the stream pointer the three threads share.                 *)

Kids == {"child1", "child2"}
NotYet(t) == pc[t] \in {"none", "open", "gone"}
LogUsable == logging \in open \cup {NULL}

(* Main makes the threads in order, and child 1 is gone once it has closed *)
(* the log.                                                                *)
OrderInv ==
  /\ DOMAIN pc = Thread
  /\ pc["main"] \in {"open", "create1"} => pc["child1"] = "none"
  /\ pc["main"] \in {"open", "create1", "create2"} => pc["child2"] = "none"
  /\ closed1 => pc["child1"] = "gone"

(* While a child may write, logging is a stream that is open, or NULL.     *)
WriteInv == \/ pc["main"] = "returned" \/ closed1 \/ \A t \in Kids : NotYet(t)
            \/ LogUsable

PthreadInv == OrderInv /\ WriteInv /\ StreamsOpenForChildren

LEMMA InitPthread == PthreadInit => PthreadInv
BY DEF PthreadInit, PthreadInv, OrderInv, WriteInv, StreamsOpenForChildren, NotYet, Kids, Thread

(* A step that leaves the log and its streams alone, and in which a child  *)
(* misuses the log only when it writes to a stream that is closed.         *)
LEMMA LogKept ==
  ASSUME PthreadInv, pc["main"] # "returned", UNCHANGED <<logging, open, closed1>>,
         OrderInv', \A t \in Kids : NotYet(t) => NotYet(t)',
         \/ misused' \cap Kids \subseteq misused
         \/ ~ LogUsable /\ \E t \in Kids : ~ NotYet(t)
  PROVE  PthreadInv'
<1>1. LogUsable' = LogUsable
  BY DEF LogUsable
<1>2. WriteInv'
  BY <1>1 DEF PthreadInv, WriteInv
<1>3. StreamsOpenForChildren'
  <2>1. misused \cap Kids # {} => closed1
    BY DEF PthreadInv, StreamsOpenForChildren, Kids
  <2>2. misused' \cap Kids # {} => closed1
    BY <2>1 DEF PthreadInv, WriteInv
  <2> QED BY <2>2 DEF StreamsOpenForChildren, Kids
<1> QED BY <1>2, <1>3 DEF PthreadInv

(* A thread that runs goes on, except that main is done with creating.     *)
LEMMA OrderStep ==
  ASSUME OrderInv, NEW t \in Thread, NEW to, pc' = [pc EXCEPT ![t] = to],
         UNCHANGED closed1, pc[t] \notin {"none", "gone"} \/ t = "main",
         t = "main" => to \notin {"open", "create1", "create2"}
  PROVE  OrderInv' /\ \A k \in Thread \ {t} : pc'[k] = pc[k]
<1>1. DOMAIN pc = Thread /\ DOMAIN pc' = Thread
  BY DEF OrderInv
<1>2. pc'[t] = to /\ \A k \in Thread \ {t} : pc'[k] = pc[k]
  BY <1>1
<1>3. {"main", "child1", "child2"} = Thread
  BY DEF Thread
<1>4. CASE t = "main"
  BY <1>1, <1>2, <1>3, <1>4 DEF OrderInv
<1>5. CASE t = "child1"
  BY <1>1, <1>2, <1>3, <1>5 DEF OrderInv
<1>6. CASE t = "child2"
  BY <1>1, <1>2, <1>3, <1>6 DEF OrderInv
<1> QED BY <1>2, <1>3, <1>4, <1>5, <1>6

(* The same for the whole invariant, when the thread writes nothing.       *)
LEMMA GoesStep ==
  ASSUME PthreadInv, pc["main"] # "returned", UNCHANGED <<logging, open, closed1, misused>>,
         NEW t \in Thread, NEW to, pc' = [pc EXCEPT ![t] = to],
         pc[t] \notin {"none", "open", "gone"} \/ (pc[t] = "open" /\ to = "gone") \/ t = "main",
         t = "main" => to \notin {"open", "create1", "create2"}
  PROVE  PthreadInv'
<1>1. OrderInv' /\ \A k \in Thread \ {t} : pc'[k] = pc[k]
  BY OrderStep DEF PthreadInv
<1>2. DOMAIN pc = Thread /\ Kids \subseteq Thread /\ "main" \notin Kids
  BY DEF PthreadInv, OrderInv, Kids, Thread
<1>3. \A k \in Kids : NotYet(k) => NotYet(k)'
  BY <1>1, <1>2 DEF NotYet
<1> QED BY <1>1, <1>3, LogKept

LEMMA CrashStep ==
  ASSUME PthreadInv, pc["main"] # "returned", Crash,
         UNCHANGED <<logging, open, closed1, misused>>
  PROVE  PthreadInv'
BY GoesStep DEF Crash, Thread

(* fprintf to the log, by a thread that has begun.                         *)
LEMMA PrintStep ==
  ASSUME PthreadInv, pc["main"] # "returned", UNCHANGED <<logging, open, closed1>>,
         NEW t \in Thread, NEW from, NEW to, FprintfLog(t, from, to),
         from \notin {"none", "open", "gone"},
         t = "main" => to \notin {"open", "create1", "create2"}
  PROVE  PthreadInv'
<1>1. /\ pc[t] = from
      /\ misused' = IF logging \in open \cup {NULL} THEN misused ELSE misused \cup {t}
      /\ pc' = [pc EXCEPT ![t] = to] \/ pc' = [pc EXCEPT !["main"] = "crashed"]
  BY DEF FprintfLog, Crash
<1>2. DOMAIN pc = Thread /\ Kids \subseteq Thread /\ "main" \notin Kids /\ "main" \in Thread
  BY DEF PthreadInv, OrderInv, Kids, Thread
<1>3. OrderInv' /\ \A k \in Kids \ {t} : pc'[k] = pc[k]
  BY <1>1, <1>2, OrderStep DEF PthreadInv
<1>4. \A k \in Kids : NotYet(k) => NotYet(k)'
  BY <1>1, <1>3 DEF NotYet
<1>5. misused' \cap Kids \subseteq misused \/ (~ LogUsable /\ \E k \in Kids : ~ NotYet(k))
  BY <1>1 DEF LogUsable, NotYet
<1> QED BY <1>3, <1>4, <1>5, LogKept

(* fopen by a child: whatever it found, logging is now usable.             *)
LEMMA OpenLogStep ==
  ASSUME PthreadInv, NEW t \in Kids, pc[t] \notin {"none", "gone"}, NEW to,
         pc' = [pc EXCEPT ![t] = to], FopenLog, UNCHANGED <<closed1, misused>>
  PROVE  PthreadInv'
<1>1. LogUsable'
  BY DEF FopenLog, LogUsable
<1>2. OrderInv'
  BY OrderStep DEF PthreadInv, Kids, Thread
<1>3. WriteInv' /\ StreamsOpenForChildren'
  BY <1>1 DEF WriteInv, PthreadInv, StreamsOpenForChildren
<1> QED BY <1>2, <1>3 DEF PthreadInv

LEMMA MainStep == ASSUME PthreadInv, Main PROVE PthreadInv'
<1>1. main /\ pc["main"] \notin {"returned", "crashed"}
  BY DEF Main, Ended
<1>2. DOMAIN pc = Thread /\ Thread = {"main", "child1", "child2"}
  BY DEF PthreadInv, OrderInv, Thread
<1>3. CASE /\ Goes("main", "open", "create1")
           /\ UNCHANGED <<open, closed1, misused>>
  <2>1. /\ pc'["main"] = "create1" /\ pc'["child1"] = "none" /\ pc'["child2"] = "none"
        /\ DOMAIN pc' = Thread /\ ~ closed1
    BY <1>2, <1>3 DEF Goes, PthreadInv, OrderInv
  <2>2. OrderInv' /\ WriteInv' /\ StreamsOpenForChildren'
    BY <1>3, <2>1 DEF OrderInv, WriteInv, StreamsOpenForChildren, NotYet, Kids, PthreadInv
  <2> QED BY <2>2 DEF PthreadInv
<1>4. CASE /\ Goes("main", "open", "returned") \/ Goes("main", "join1", "join2")
              \/ Goes("main", "join2", "returned")
           /\ UNCHANGED <<logging, open, closed1, misused>>
  BY <1>1, <1>2, <1>4, GoesStep DEF Goes
<1>5. CASE /\ pc["main"] = "create1"
           /\ \/ pc' = [pc EXCEPT !["main"] = "create2", !["child1"] = "open"]
              \/ pc' = [pc EXCEPT !["main"] = "create2", !["child1"] = "gone"]
           /\ UNCHANGED <<logging, open, closed1, misused>>
  <2>1. /\ pc["child1"] = "none" /\ pc["child2"] = "none" /\ ~ closed1
    BY <1>5 DEF PthreadInv, OrderInv
  <2>2. /\ pc'["main"] = "create2" /\ pc'["child1"] \in {"open", "gone"}
        /\ pc'["child2"] = "none" /\ DOMAIN pc' = Thread
    BY <1>2, <1>5, <2>1
  <2>3. OrderInv' /\ WriteInv' /\ StreamsOpenForChildren'
    BY <1>5, <2>1, <2>2 DEF OrderInv, WriteInv, StreamsOpenForChildren, NotYet, Kids, PthreadInv
  <2> QED BY <2>3 DEF PthreadInv
<1>6. CASE /\ pc["main"] = "create2"
           /\ \/ pc' = [pc EXCEPT !["main"] = "join1", !["child2"] = "open"]
              \/ pc' = [pc EXCEPT !["main"] = "join1", !["child2"] = "gone"]
           /\ UNCHANGED <<logging, open, closed1, misused>>
  <2>1. /\ pc'["main"] = "join1" /\ pc'["child2"] \in {"open", "gone"}
        /\ pc'["child1"] = pc["child1"] /\ DOMAIN pc' = Thread
    BY <1>2, <1>6
  <2>2. OrderInv'
    BY <1>6, <2>1 DEF OrderInv, PthreadInv
  <2>3. \A k \in Kids : NotYet(k) => NotYet(k)'
    BY <2>1 DEF NotYet, Kids
  <2> QED BY <1>1, <1>6, <2>2, <2>3, LogKept
<1>7. CASE FprintfLog("main", "join1", "join2") /\ UNCHANGED <<logging, open, closed1>>
  BY <1>1, <1>2, <1>7, PrintStep
<1>8. CASE /\ FprintfLog("main", "join2", "returned") /\ open' = open \ {logging}
           /\ UNCHANGED <<logging, closed1>>
  <2>1. \/ pc' = [pc EXCEPT !["main"] = "returned"]
        \/ pc' = [pc EXCEPT !["main"] = "crashed"] /\ (logging = NULL \/ logging \notin open)
    BY <1>8 DEF FprintfLog, Crash
  <2>2. OrderInv' /\ \A k \in Kids : pc'[k] = pc[k]
    BY <1>2, <1>8, <2>1, OrderStep DEF PthreadInv, Kids
  <2>3. WriteInv'
    <3>1. CASE pc'["main"] = "returned"
      BY <3>1 DEF WriteInv
    <3>2. CASE logging = NULL \/ logging \notin open
      <4>1. LogUsable => LogUsable'
        BY <1>8, <3>2 DEF LogUsable
      <4> QED BY <1>1, <1>8, <2>2, <4>1 DEF WriteInv, PthreadInv, NotYet
    <3> QED BY <1>2, <2>1, <3>1, <3>2
  <2>4. misused' \cap Kids \subseteq misused
    BY <1>8 DEF FprintfLog, Kids
  <2>5. StreamsOpenForChildren'
    BY <1>8, <2>4 DEF StreamsOpenForChildren, PthreadInv, Kids
  <2> QED BY <2>2, <2>3, <2>5 DEF PthreadInv
<1> QED BY <1>1, <1>3, <1>4, <1>5, <1>6, <1>7, <1>8 DEF main

LEMMA Child1Step == ASSUME PthreadInv, Child1 PROVE PthreadInv'
<1>1. child1_funct /\ pc["main"] # "returned"
  BY DEF Child1, Ended
<1>2. DOMAIN pc = Thread /\ "child1" \in Thread /\ "child1" \in Kids /\ "child1" # "main"
  BY DEF PthreadInv, OrderInv, Thread, Kids
<1>3. CASE Goes("child1", "open", "greet") /\ FopenLog /\ UNCHANGED <<closed1, misused>>
  BY <1>2, <1>3, OpenLogStep DEF Goes
<1>4. CASE Greet("child1") /\ UNCHANGED <<logging, open, closed1>>
  <2>1. CASE FprintfLog("child1", "greet", "greeted")
    BY <1>1, <1>2, <1>4, <2>1, PrintStep
  <2>2. CASE Goes("child1", "greet", "greeted") /\ UNCHANGED misused
    BY <1>1, <1>2, <1>4, <2>2, GoesStep DEF Goes
  <2> QED BY <1>4, <2>1, <2>2 DEF Greet
<1>5. CASE Goes("child1", "greeted", "print") /\ UNCHANGED <<logging, open, closed1, misused>>
  BY <1>1, <1>2, <1>5, GoesStep DEF Goes
<1>6. CASE Crash /\ UNCHANGED <<logging, open, closed1, misused>>
  BY <1>1, <1>6, CrashStep
<1>7. CASE /\ FprintfLog("child1", "print", "print") \/ FprintfLog("child1", "print", "close")
           /\ UNCHANGED <<logging, open, closed1>>
  BY <1>1, <1>2, <1>7, PrintStep
<1>8. CASE /\ pc["child1"] = "close" /\ open' = open \ {logging} /\ closed1' = (logging # NULL)
           /\ IF logging = NULL THEN Crash ELSE Goes("child1", "close", "gone")
           /\ UNCHANGED <<logging, misused>>
  <2>1. ~ closed1
    BY <1>8 DEF PthreadInv, OrderInv
  <2>2. CASE logging = NULL
    <3>1. pc' = [pc EXCEPT !["main"] = "crashed"] /\ ~ closed1' /\ LogUsable'
      BY <1>8, <2>2 DEF Crash, LogUsable
    <3>2. OrderInv'
      BY <1>2, <3>1, <2>1 DEF OrderInv, PthreadInv, Thread
    <3>3. WriteInv' /\ StreamsOpenForChildren'
      BY <1>8, <2>1, <3>1 DEF WriteInv, StreamsOpenForChildren, PthreadInv
    <3> QED BY <3>2, <3>3 DEF PthreadInv
  <2>3. CASE logging # NULL
    <3>1. pc' = [pc EXCEPT !["child1"] = "gone"] /\ closed1'
      BY <1>8, <2>3 DEF Goes
    <3>2. OrderInv'
      BY <1>2, <1>8, <3>1 DEF OrderInv, PthreadInv, Thread
    <3>3. WriteInv' /\ StreamsOpenForChildren'
      BY <3>1 DEF WriteInv, StreamsOpenForChildren
    <3> QED BY <3>2, <3>3 DEF PthreadInv
  <2> QED BY <2>2, <2>3
<1> QED BY <1>1, <1>3, <1>4, <1>5, <1>6, <1>7, <1>8 DEF child1_funct

LEMMA Child2Step == ASSUME PthreadInv, Child2 PROVE PthreadInv'
<1>1. child2_funct /\ pc["main"] # "returned"
  BY DEF Child2, Ended
<1>2. DOMAIN pc = Thread /\ "child2" \in Thread /\ "child2" \in Kids /\ "child2" # "main"
  BY DEF PthreadInv, OrderInv, Thread, Kids
<1>3. CASE /\ Goes("child2", "open", "greet") \/ Goes("child2", "loop", "report")
           /\ FopenLog /\ UNCHANGED <<closed1, misused>>
  BY <1>2, <1>3, OpenLogStep DEF Goes
<1>4. CASE Greet("child2") /\ UNCHANGED <<logging, open, closed1>>
  <2>1. CASE FprintfLog("child2", "greet", "greeted")
    BY <1>1, <1>2, <1>4, <2>1, PrintStep
  <2>2. CASE Goes("child2", "greet", "greeted") /\ UNCHANGED misused
    BY <1>1, <1>2, <1>4, <2>2, GoesStep DEF Goes
  <2> QED BY <1>4, <2>1, <2>2 DEF Greet
<1>5. CASE /\ Goes("child2", "greeted", "loop") \/ Goes("child2", "reported", "loop")
           /\ UNCHANGED <<logging, open, closed1, misused>>
  BY <1>1, <1>2, <1>5, GoesStep DEF Goes
<1>6. CASE Crash /\ UNCHANGED <<logging, open, closed1, misused>>
  BY <1>1, <1>6, CrashStep
<1>7. CASE FprintfLog("child2", "report", "reported") /\ UNCHANGED <<logging, open, closed1>>
  BY <1>1, <1>2, <1>7, PrintStep
<1> QED BY <1>1, <1>3, <1>4, <1>5, <1>6, <1>7 DEF child2_funct, ReportDone

LEMMA SignalStep == ASSUME PthreadInv, Signals PROVE PthreadInv'
<1>1. pc["main"] # "returned"
  BY DEF Signals, Ended
<1>2. CASE TimerSignal
  BY <1>2 DEF TimerSignal, threadVars, PthreadInv, OrderInv, WriteInv, NotYet, LogUsable,
              StreamsOpenForChildren
<1>3. CASE KillSignal
  <2>1. PICK t \in Living : pc' = [pc EXCEPT ![t] = "gone"]
    BY <1>3 DEF KillSignal, handler
  <2>2. UNCHANGED <<logging, open, closed1, misused>>
    BY <1>3 DEF KillSignal
  <2>3. t \in Thread /\ pc[t] \notin {"none", "gone"}
    BY DEF Living
  <2> QED BY <1>1, <2>1, <2>2, <2>3, GoesStep
<1> QED BY <1>2, <1>3 DEF Signals

LEMMA PthreadAlways == PthreadInit /\ [][PthreadNext]_pthreadVars => []PthreadInv
<1>1. PthreadInv /\ [PthreadNext]_pthreadVars => PthreadInv'
  <2> SUFFICES ASSUME PthreadInv, [PthreadNext]_pthreadVars PROVE PthreadInv'
    OBVIOUS
  <2>1. CASE UNCHANGED pthreadVars
    BY <2>1 DEF pthreadVars, threadVars, PthreadInv, OrderInv, WriteInv, NotYet, LogUsable,
                StreamsOpenForChildren
  <2> QED BY <2>1, MainStep, Child1Step, Child2Step, SignalStep DEF PthreadNext
<1> QED BY <1>1, InitPthread, PTL

(* For every number of streams, timer and kill signals: before child 1     *)
(* closes the log, neither child writes to a closed stream, whichever of   *)
(* them assigned logging last and whichever threads the signals end.       *)
THEOREM ChildrenKeepTheLog == PthreadSpec => []StreamsOpenForChildren
<1>1. PthreadInv => StreamsOpenForChildren
  BY DEF PthreadInv
<1>2. PthreadSpec => PthreadInit /\ [][PthreadNext]_pthreadVars
  BY DEF PthreadSpec
<1> QED BY <1>1, <1>2, PthreadAlways, PTL

-----------------------------------------------------------------------------
(* SysLimits: limits of every width.                                       *)

LimitTypes ==
  /\ DOMAIN lim = {"bits", "res", "cur", "max", "cap", "timer"}
  /\ lim.bits \in {32, 64} /\ lim.res \in Resources /\ lim.cap \in {"none", "ns", "init"}
  /\ lim.cur \in 0..RLIM_INFINITY /\ lim.max \in 0..RLIM_INFINITY
  /\ lim.timer \in 0..RLIM_INFINITY

LimitInv ==
  /\ LimitTypes
  /\ lim.cur <= lim.max \/ (lim.res = "RLIMIT_CPU" /\ lim.max = 0 /\ lim.cur = 1)
  /\ lim.res = "RLIMIT_NOFILE" => lim.max <= NR_OPEN
  /\ lim.res = "RLIMIT_CPU" => lim.cur # 0
  /\ CpuLimitArmed

(* What fits a width is kept by a cast to it.                              *)
LEMMA CastKeeps == ASSUME NEW m \in Nat, NEW x \in 0..m PROVE x % (m + 1) = x
OBVIOUS

LEMMA Widths == /\ RLIM_INFINITY \in Nat /\ COMPAT_RLIM_INFINITY \in Nat
                /\ OLD_MAX \in Nat /\ NR_OPEN \in Nat
                /\ OLD_MAX < COMPAT_RLIM_INFINITY
                /\ COMPAT_RLIM_INFINITY < RLIM_INFINITY /\ 1 < RLIM_INFINITY
BY LimitAssumption

LEMMA LimitOrder ==
  ASSUME NEW c \in 0..RLIM_INFINITY, NEW m \in 0..RLIM_INFINITY, c <= m
  PROVE  ~ (m > m) /\ (m <= OLD_MAX => ~ (c > OLD_MAX) /\ ~ (m > OLD_MAX))
BY Widths

LEMMA InitLimit == LimitInit => LimitInv
<1> SUFFICES ASSUME LimitInit PROVE LimitInv
  OBVIOUS
<1>1. /\ lim \in [bits : {32, 64}, res : Resources, cur : 0..RLIM_INFINITY,
                  max : 0..RLIM_INFINITY, cap : {"none", "ns", "init"},
                  timer : 0..RLIM_INFINITY]
      /\ lim.cur <= lim.max
      /\ lim.res = "RLIMIT_NOFILE" => lim.max <= NR_OPEN
      /\ lim.timer = IF lim.res = "RLIMIT_CPU" THEN lim.cur ELSE RLIM_INFINITY
      /\ lim.res = "RLIMIT_CPU" => lim.cur > 0
  BY DEF LimitInit, LimitStarts
<1>2. LimitTypes
  BY <1>1 DEF LimitTypes
<1> QED BY <1>1, <1>2, Widths DEF LimitInv, LimitTypes, CpuLimitArmed

(* A limit that do_prlimit accepted.                                       *)
LEMMA SetStep ==
  ASSUME LimitInv, NEW c \in 0..RLIM_INFINITY, NEW m \in 0..RLIM_INFINITY, Set(Rlim(c, m))
  PROVE  LimitInv'
<1> DEFINE cpu == lim.res = "RLIMIT_CPU"
           k == IF cpu /\ c = 0 THEN 1 ELSE c
           at == IF cpu /\ k # RLIM_INFINITY THEN update_rlimit_cpu(k) ELSE lim.timer
<1>1. /\ c <= m /\ (lim.res = "RLIMIT_NOFILE" => m <= NR_OPEN)
      /\ lim' = [lim EXCEPT !.cur = k, !.max = m, !.timer = at]
  BY DEF Set, Accepted, do_prlimit, Rlim
<1>2. k \in 0..RLIM_INFINITY /\ at \in 0..RLIM_INFINITY
      /\ (cpu /\ k # RLIM_INFINITY => at <= k) /\ (k <= m \/ (cpu /\ m = 0 /\ k = 1))
      /\ (cpu => k # 0)
  BY <1>1, Widths DEF LimitInv, LimitTypes, update_rlimit_cpu, Bounded
<1> HIDE DEF k, at
<1>3. /\ DOMAIN lim' = DOMAIN lim /\ lim'.cur = k /\ lim'.max = m /\ lim'.timer = at
      /\ lim'.bits = lim.bits /\ lim'.res = lim.res /\ lim'.cap = lim.cap
  BY <1>1 DEF LimitInv, LimitTypes
<1>4. LimitTypes'
  BY <1>2, <1>3 DEF LimitInv, LimitTypes
<1> QED BY <1>1, <1>2, <1>3, <1>4 DEF LimitInv, CpuLimitArmed

LEMMA FromWide ==
  ASSUME LimitTypes, NEW c \in 0..RLIM64_INFINITY, NEW m \in 0..RLIM64_INFINITY
  PROVE  \E d, n \in 0..RLIM_INFINITY : rlim64_to_rlim(Rlim(c, m)) = Rlim(d, n)
<1> DEFINE f(x) == IF rlim64_is_infinity(x) THEN RLIM_INFINITY ELSE x % (RLIM_INFINITY + 1)
<1>1. rlim64_to_rlim(Rlim(c, m)) = Rlim(f(c), f(m))
  BY DEF rlim64_to_rlim, Both, Rlim
<1>2. c \in Nat /\ m \in Nat
  BY Widths DEF RLIM64_INFINITY
<1>3. ASSUME NEW x \in 0..RLIM64_INFINITY PROVE f(x) \in 0..RLIM_INFINITY
  <2>1. CASE rlim64_is_infinity(x)
    BY <2>1, Widths
  <2>2. CASE ~ rlim64_is_infinity(x)
    <3>1. x \in 0..RLIM_INFINITY
      BY <2>2, Widths DEF RLIM64_INFINITY, rlim64_is_infinity, LimitTypes
    <3> QED BY <2>2, <3>1, Widths, CastKeeps
  <2> QED BY <2>1, <2>2
<1> HIDE DEF f
<1> QED BY <1>1, <1>3

LEMMA LimitAlways == LimitSpec => []LimitInv
<1>1. LimitInv /\ [LimitNext]_lim => LimitInv'
  <2> SUFFICES ASSUME LimitInv, [LimitNext]_lim PROVE LimitInv'
    OBVIOUS
  <2>1. CASE UNCHANGED lim
    BY <2>1 DEF LimitInv, LimitTypes, CpuLimitArmed
  <2>2. ASSUME NEW c \in 0..RLIM_INFINITY, NEW m \in 0..RLIM_INFINITY, setrlimit(Rlim(c, m))
        PROVE  LimitInv'
    BY <2>2, SetStep DEF setrlimit
  <2>3. ASSUME NEW c \in 0..COMPAT_RLIM_INFINITY, NEW m \in 0..COMPAT_RLIM_INFINITY,
               compat_setrlimit(Rlim(c, m))
        PROVE  LimitInv'
    <3> DEFINE f(x) == IF x = COMPAT_RLIM_INFINITY THEN RLIM_INFINITY ELSE x
    <3>1. compat_rlim(Rlim(c, m)) = Rlim(f(c), f(m))
      BY DEF compat_rlim, Both, Rlim
    <3>2. f(c) \in 0..RLIM_INFINITY /\ f(m) \in 0..RLIM_INFINITY
      BY Widths
    <3> HIDE DEF f
    <3> QED BY <2>3, <3>1, <3>2, SetStep DEF compat_setrlimit
  <2>4. ASSUME NEW c \in 0..RLIM64_INFINITY, NEW m \in 0..RLIM64_INFINITY,
               NEW self \in BOOLEAN, NEW match \in BOOLEAN, prlimit64(self, match, Rlim(c, m))
        PROVE  LimitInv'
    BY <2>4, FromWide, SetStep DEF prlimit64, LimitInv
  <2>5. CASE CpuTimerFires
    <3>1. /\ DOMAIN lim' = DOMAIN lim /\ lim'.cur = lim.cur /\ lim'.max = lim.max
          /\ lim'.timer = lim.cur /\ lim'.bits = lim.bits /\ lim'.res = lim.res
          /\ lim'.cap = lim.cap
      BY <2>5 DEF CpuTimerFires, LimitInv, LimitTypes
    <3>2. LimitTypes'
      BY <3>1 DEF LimitInv, LimitTypes
    <3>3. CpuLimitArmed'
      BY <3>1, Widths DEF CpuLimitArmed, LimitInv, LimitTypes
    <3> QED BY <3>1, <3>2, <3>3 DEF LimitInv
  <2> QED BY <2>1, <2>2, <2>3, <2>4, <2>5 DEF LimitNext
<1> QED BY <1>1, InitLimit, PTL DEF LimitSpec

(* A limit that is written back as it was read is accepted and kept.       *)
LEMMA WrittenBack ==
  ASSUME LimitInv, lim.res # "beyond RLIM_NLIMITS", lim.cur <= lim.max
  PROVE  /\ Accepted(Rlim(lim.cur, lim.max))
         /\ do_prlimit(Rlim(lim.cur, lim.max)).cur = lim.cur
         /\ do_prlimit(Rlim(lim.cur, lim.max)).max = lim.max
<1>1. Accepted(Rlim(lim.cur, lim.max))
  <2>1. /\ lim.cur \in 0..RLIM_INFINITY /\ lim.max \in 0..RLIM_INFINITY
        /\ lim.res = "RLIMIT_NOFILE" => lim.max <= NR_OPEN
    BY DEF LimitInv, LimitTypes
  <2>2. ~ (lim.max > lim.max)
    BY <2>1, LimitOrder, Zenon
  <2>3. Rlim(lim.cur, lim.max).cur = lim.cur /\ Rlim(lim.cur, lim.max).max = lim.max
    BY DEF Rlim
  <2> QED BY <2>1, <2>2, <2>3, Zenon DEF Accepted
<1>2. /\ DOMAIN lim = {"bits", "res", "cur", "max", "cap", "timer"}
      /\ lim.res = "RLIMIT_CPU" => lim.cur # 0
  BY DEF LimitInv, LimitTypes
<1>3. PICK at : do_prlimit(Rlim(lim.cur, lim.max))
                  = [lim EXCEPT !.cur = lim.cur, !.max = lim.max, !.timer = at]
  <2> DEFINE cpu == lim.res = "RLIMIT_CPU"
             k == IF cpu /\ lim.cur = 0 THEN 1 ELSE lim.cur
             at == IF cpu /\ k # RLIM_INFINITY THEN update_rlimit_cpu(k) ELSE lim.timer
  <2>1. do_prlimit(Rlim(lim.cur, lim.max)) = [lim EXCEPT !.cur = k, !.max = lim.max, !.timer = at]
    BY DEF do_prlimit, Rlim
  <2>2. k = lim.cur
    BY <1>2
  <2> HIDE DEF k, at
  <2> QED BY <2>1, <2>2
<1> QED BY <1>1, <1>2, <1>3

(* What any call stored reads back unchanged through every call that can   *)
(* express it, for limits of any width, and a process with a CPU limit is  *)
(* checked no later than at that limit.                                    *)
THEOREM LimitsAreKept == LimitSpec => []LimitsHold
<1>1. LimitInv => LimitsHold
  <2> SUFFICES ASSUME LimitInv PROVE LimitsReadBack
    BY DEF LimitsHold, LimitInv
  <2> SUFFICES ASSUME lim.res \in {"RLIMIT_CPU", "RLIMIT_NOFILE", "RLIMIT_DATA"},
                      ~ (lim.res = "RLIMIT_CPU" /\ lim.max = 0 /\ lim.cur = 1)
               PROVE  LET Kept(r) == Accepted(r) /\ Rlim(do_prlimit(r).cur, do_prlimit(r).max) = getrlimit
                      IN /\ Kept(getrlimit)
                         /\ Kept(rlim64_to_rlim(prlimit64_old))
                         /\ (lim.bits = 64 /\ {lim.cur, lim.max} \subseteq 0..(COMPAT_RLIM_INFINITY - 1) \cup {RLIM_INFINITY})
                              => Kept(compat_rlim(compat_getrlimit))
                         /\ lim.max <= OLD_MAX => old_getrlimit = getrlimit
    BY DEF LimitsReadBack
  <2> DEFINE Kept(r) == Accepted(r) /\ Rlim(do_prlimit(r).cur, do_prlimit(r).max) = getrlimit
  <2>1. /\ lim.cur \in 0..RLIM_INFINITY /\ lim.max \in 0..RLIM_INFINITY /\ lim.cur <= lim.max
        /\ lim.bits \in {32, 64} /\ lim.res # "beyond RLIM_NLIMITS"
    BY DEF LimitInv, LimitTypes
  <2>2. Kept(getrlimit)
    BY <2>1, WrittenBack DEF getrlimit
  <2>3. rlim64_to_rlim(prlimit64_old) = getrlimit
    <3> DEFINE wide(x) == IF x = RLIM_INFINITY THEN RLIM64_INFINITY ELSE x
               back(x) == IF rlim64_is_infinity(x) THEN RLIM_INFINITY ELSE x % (RLIM_INFINITY + 1)
    <3>1. prlimit64_old = Rlim(wide(lim.cur), wide(lim.max))
      BY DEF prlimit64_old, rlim_to_rlim64, getrlimit, Both, Rlim
    <3>2. ASSUME NEW x, NEW y PROVE rlim64_to_rlim(Rlim(x, y)) = Rlim(back(x), back(y))
      BY DEF rlim64_to_rlim, Both, Rlim
    <3>3. ASSUME NEW x \in 0..RLIM_INFINITY PROVE back(wide(x)) = x
      <4>1. CASE x = RLIM_INFINITY
        <5>1. wide(x) = RLIM64_INFINITY
          BY <4>1
        <5>2. rlim64_is_infinity(RLIM64_INFINITY)
          <6>1. CASE lim.bits = 64
            BY <6>1, Zenon DEF rlim64_is_infinity
          <6>2. CASE lim.bits = 32
            <7>1. lim.bits # 64
              BY <6>2
            <7>2. RLIM64_INFINITY = RLIM_INFINITY + 2
              BY <7>1, Zenon DEF RLIM64_INFINITY
            <7>3. RLIM_INFINITY + 2 >= RLIM_INFINITY
              BY Widths
            <7> QED BY <7>1, <7>2, <7>3, Zenon DEF rlim64_is_infinity
          <6> QED BY <2>1, <6>1, <6>2
        <5>3. back(RLIM64_INFINITY) = RLIM_INFINITY
          BY <5>2
        <5> HIDE DEF wide, back
        <5> QED BY <4>1, <5>1, <5>3, Zenon
      <4>2. CASE x # RLIM_INFINITY
        <5>1. wide(x) = x
          BY <4>2
        <5>2. ~ rlim64_is_infinity(x)
          BY <4>2, Widths DEF RLIM64_INFINITY, rlim64_is_infinity
        <5>3. x % (RLIM_INFINITY + 1) = x
          BY Widths, CastKeeps
        <5>4. back(x) = x
          BY <5>2, <5>3, Zenon
        <5> HIDE DEF wide, back
        <5> QED BY <5>1, <5>4, Zenon
      <4> HIDE DEF wide, back
      <4> QED BY <4>1, <4>2
    <3> HIDE DEF wide, back
    <3>4. rlim64_to_rlim(prlimit64_old) = Rlim(back(wide(lim.cur)), back(wide(lim.max)))
      BY <3>1, <3>2, Zenon
    <3>5. back(wide(lim.cur)) = lim.cur /\ back(wide(lim.max)) = lim.max
      BY <2>1, <3>3, Zenon
    <3> QED BY <3>4, <3>5, Zenon DEF getrlimit
  <2>4. ASSUME {lim.cur, lim.max} \subseteq 0..(COMPAT_RLIM_INFINITY - 1) \cup {RLIM_INFINITY}
        PROVE  compat_rlim(compat_getrlimit) = getrlimit
    <3> DEFINE narrow(x) == Bounded(x, COMPAT_RLIM_INFINITY)
               back(x) == IF x = COMPAT_RLIM_INFINITY THEN RLIM_INFINITY ELSE x
    <3>1. compat_getrlimit = Rlim(narrow(lim.cur), narrow(lim.max))
      BY DEF compat_getrlimit, getrlimit, Both, Rlim
    <3>2. \A x, y : compat_rlim(Rlim(x, y)) = Rlim(back(x), back(y))
      BY DEF compat_rlim, Both, Rlim
    <3>3. ASSUME NEW x \in 0..(COMPAT_RLIM_INFINITY - 1) \cup {RLIM_INFINITY}
          PROVE  back(narrow(x)) = x
      BY Widths DEF Bounded
    <3>4. back(narrow(lim.cur)) = lim.cur /\ back(narrow(lim.max)) = lim.max
      BY <2>4, <3>3
    <3> HIDE DEF narrow, back
    <3> QED BY <3>1, <3>2, <3>4 DEF getrlimit
  <2>5. ASSUME lim.max <= OLD_MAX PROVE old_getrlimit = getrlimit
    <3>1. old_getrlimit = Rlim(Bounded(lim.cur, OLD_MAX), Bounded(lim.max, OLD_MAX))
      BY DEF old_getrlimit, getrlimit, Both, Rlim
    <3>2. Bounded(lim.cur, OLD_MAX) = lim.cur /\ Bounded(lim.max, OLD_MAX) = lim.max
      <4>1. ~ (lim.cur > OLD_MAX) /\ ~ (lim.max > OLD_MAX)
        BY <2>1, <2>5, LimitOrder, Zenon
      <4> QED BY <4>1, Zenon DEF Bounded
    <3> QED BY <3>1, <3>2 DEF getrlimit
  <2> QED BY <2>2, <2>3, <2>4, <2>5
<1> QED BY <1>1, LimitAlways, PTL

-----------------------------------------------------------------------------
(* SysMm: maps and auxiliary vectors of every size.                        *)

MmInv ==
  /\ DOMAIN mm = {"map", "auxv", "exe", "mapped", "caps"}
  /\ mm.map \in [MapFields -> Int] /\ validate_prctl_map(mm.map)
  /\ mm.auxv \in [1..AT_VECTOR_SIZE -> {AT_NULL, 1}]
  /\ mm.auxv[AT_VECTOR_SIZE - 1] = AT_NULL /\ mm.auxv[AT_VECTOR_SIZE] = AT_NULL

LEMMA VectorSize == /\ AT_VECTOR_SIZE \in Nat /\ AT_VECTOR_SIZE > 2
                    /\ AT_VECTOR_SIZE - 1 \in 1..AT_VECTOR_SIZE
                    /\ AT_VECTOR_SIZE \in 1..AT_VECTOR_SIZE
BY MmAssumption

(* A write of any length leaves the end of the vector null if it was null. *)
LEMMA VectorEnds ==
  ASSUME NEW old \in [1..AT_VECTOR_SIZE -> {AT_NULL, 1}],
         old[AT_VECTOR_SIZE - 1] = AT_NULL, old[AT_VECTOR_SIZE] = AT_NULL,
         NEW user \in [1..AT_VECTOR_SIZE -> {AT_NULL, 1}], NEW len \in Nat
  PROVE  /\ AuxvWith(old, user, len) \in [1..AT_VECTOR_SIZE -> {AT_NULL, 1}]
         /\ AuxvWith(old, user, len)[AT_VECTOR_SIZE - 1] = AT_NULL
         /\ AuxvWith(old, user, len)[AT_VECTOR_SIZE] = AT_NULL
<1> DEFINE at(j) == IF j > len THEN old[j]
                    ELSE IF j > AT_VECTOR_SIZE - 2 THEN AT_NULL ELSE user[j]
<1>1. AuxvWith(old, user, len) = [j \in 1..AT_VECTOR_SIZE |-> at(j)]
  BY DEF AuxvWith
<1>2. ASSUME NEW j \in 1..AT_VECTOR_SIZE PROVE at(j) \in {AT_NULL, 1}
  OBVIOUS
<1>3. at(AT_VECTOR_SIZE - 1) = AT_NULL /\ at(AT_VECTOR_SIZE) = AT_NULL
  BY VectorSize
<1> HIDE DEF at
<1> QED BY <1>1, <1>2, <1>3, VectorSize

LEMMA InitMm == MmInit => MmInv
<1> SUFFICES ASSUME MmInit PROVE MmInv
  OBVIOUS
<1> DEFINE first == [j \in 1..AT_VECTOR_SIZE |-> IF j = 1 THEN 1 ELSE AT_NULL]
<1>1. /\ mm \in [map : Maps, auxv : {first}, exe : {"a"}, mapped : {{"a"}},
                 caps : {{}, {"CAP_SYS_RESOURCE", "CAP_SYS_ADMIN"}}]
      /\ validate_prctl_map(mm.map)
  BY DEF MmInit, MmStarts
<1>2. first \in [1..AT_VECTOR_SIZE -> {AT_NULL, 1}]
  OBVIOUS
<1>3. first[AT_VECTOR_SIZE - 1] = AT_NULL /\ first[AT_VECTOR_SIZE] = AT_NULL
  BY VectorSize
<1> HIDE DEF first
<1>4. mm.map \in Maps /\ mm.auxv = first /\ DOMAIN mm = {"map", "auxv", "exe", "mapped", "caps"}
  BY <1>1
<1>5. Maps \subseteq [MapFields -> Int]
  BY MmAssumption
<1> QED BY <1>1, <1>2, <1>3, <1>4, <1>5 DEF MmInv

LEMMA MmStep == ASSUME MmInv, [MmNext]_mm PROVE MmInv'
<1>1. CASE mm' = mm
  BY <1>1 DEF MmInv, validate_prctl_map, DataFits
<1>2. ASSUME NEW f \in Files, mmap(f) \/ munmap(f) \/ PrSetMmExeFile(f) PROVE MmInv'
  <2>1. mm'.map = mm.map /\ mm'.auxv = mm.auxv /\ DOMAIN mm' = DOMAIN mm
    BY <1>2 DEF mmap, munmap, PrSetMmExeFile, MmInv
  <2> QED BY <2>1 DEF MmInv
<1>3. ASSUME NEW user \in Auxv, NEW len \in 0..AT_VECTOR_SIZE + 1, prctl_set_auxv(user, len)
      PROVE  MmInv'
  <2>1. mm' = [mm EXCEPT !.auxv = AuxvWith(mm.auxv, user, len)]
    BY <1>3 DEF prctl_set_auxv
  <2>2. len \in Nat /\ user \in [1..AT_VECTOR_SIZE -> {AT_NULL, 1}]
    BY DEF Auxv
  <2> DEFINE new == AuxvWith(mm.auxv, user, len)
  <2>3. /\ new \in [1..AT_VECTOR_SIZE -> {AT_NULL, 1}]
        /\ new[AT_VECTOR_SIZE - 1] = AT_NULL /\ new[AT_VECTOR_SIZE] = AT_NULL
    BY <2>2, VectorEnds DEF MmInv
  <2> HIDE DEF new
  <2>4. mm'.map = mm.map /\ mm'.auxv = new /\ DOMAIN mm' = DOMAIN mm
    BY <2>1 DEF MmInv, new
  <2> QED BY <2>3, <2>4 DEF MmInv
<1>4. ASSUME NEW m \in Maps, NEW user \in Auxv, NEW size \in 0..AT_VECTOR_SIZE,
             NEW fd \in Files \cup {NoFd}, prctl_set_mm_map(m, user, size, fd)
      PROVE  MmInv'
  <2> DEFINE zeros == [j \in 1..AT_VECTOR_SIZE |-> AT_NULL]
             padded == [j \in 1..AT_VECTOR_SIZE |-> IF j <= size THEN user[j] ELSE AT_NULL]
             new == IF size = 0 THEN mm.auxv ELSE AuxvWith(zeros, padded, AT_VECTOR_SIZE)
             exe == IF fd = NoFd THEN mm.exe ELSE fd
  <2>1. validate_prctl_map(m) /\ mm' = [mm EXCEPT !.map = m, !.exe = exe, !.auxv = new]
    BY <1>4 DEF prctl_set_mm_map
  <2>2. user \in [1..AT_VECTOR_SIZE -> {AT_NULL, 1}]
    BY DEF Auxv
  <2>3. zeros \in [1..AT_VECTOR_SIZE -> {AT_NULL, 1}] /\ padded \in [1..AT_VECTOR_SIZE -> {AT_NULL, 1}]
    BY <2>2
  <2>4. zeros[AT_VECTOR_SIZE - 1] = AT_NULL /\ zeros[AT_VECTOR_SIZE] = AT_NULL
    BY VectorSize
  <2>5. /\ new \in [1..AT_VECTOR_SIZE -> {AT_NULL, 1}]
        /\ new[AT_VECTOR_SIZE - 1] = AT_NULL /\ new[AT_VECTOR_SIZE] = AT_NULL
    <3> HIDE DEF zeros, padded
    <3> QED BY <2>3, <2>4, VectorEnds, VectorSize DEF MmInv
  <2>6. m \in [MapFields -> Int]
    BY MmAssumption
  <2> HIDE DEF new, exe
  <2>7. mm'.map = m /\ mm'.auxv = new /\ DOMAIN mm' = DOMAIN mm
    BY <2>1 DEF MmInv
  <2> QED BY <2>1, <2>5, <2>6, <2>7 DEF MmInv
<1>5. ASSUME NEW f \in MapFields, NEW addr \in 0..VmaTop + 1, prctl_set_mm(f, addr)
      PROVE  MmInv'
  <2>1. /\ validate_prctl_map([mm.map EXCEPT ![f] = addr])
        /\ mm' = [mm EXCEPT !.map[f] = addr] /\ addr \in Int
    BY <1>5 DEF prctl_set_mm, Addr
  <2> DEFINE new == [mm.map EXCEPT ![f] = addr]
  <2>2. new \in [MapFields -> Int]
    BY <2>1 DEF MmInv
  <2>3. mm'.map = new /\ mm'.auxv = mm.auxv /\ DOMAIN mm' = DOMAIN mm
    BY <2>1 DEF MmInv
  <2> HIDE DEF new
  <2> QED BY <2>1, <2>2, <2>3 DEF MmInv, new
<1> QED BY <1>1, <1>2, <1>3, <1>4, <1>5 DEF MmNext

(* However a process rewrites its memory map, for address spaces, data     *)
(* limits and vectors of every size: text, data and heap stay in order and *)
(* within the limit, and the auxiliary vector ends in two nulls although   *)
(* PR_SET_MM_AUXV copies only as much of its buffer as it was given.       *)
THEOREM MapsStaySane == MmSpec => []MapStaysSane
<1>1. MmInv => MapStaysSane
  BY DEF MmInv, validate_prctl_map, MapStaysSane
<1>2. MmInv /\ [MmNext]_mm => MmInv'
  BY MmStep
<1> QED BY <1>1, <1>2, InitMm, PTL DEF MmSpec

-----------------------------------------------------------------------------
(* KernelModules: the timer of first_kernel_module.                        *)

TimerStates ==
  [state : {"out", "in", "leaving", "gone"}, pending : BOOLEAN, callback : {"idle", "prints"}, fired : Int,
   overtaken : BOOLEAN]

(* Before the module is loaded there is no timer; while it is loaded the   *)
(* timer is queued or runs, not both, so that del_timer leaves nothing but *)
(* a function that runs.                                                   *)
TimerInv ==
  /\ tm \in TimerStates
  /\ tm.state = "out" => ~tm.pending /\ tm.callback = "idle"
  /\ tm.state = "in" => (tm.pending <=> tm.callback = "idle")
  /\ NoTimerAfterUnload

TimerSpec == TimerInit /\ [][TimerNext]_tm

LEMMA InitTimer == TimerInit => TimerInv
BY DEF TimerInit, TimerInv, TimerStates, NoTimerAfterUnload

LEMMA TimerStep == TimerInv /\ [TimerNext]_tm => TimerInv'
<1> SUFFICES ASSUME TimerInv, [TimerNext]_tm PROVE TimerInv'
  OBVIOUS
<1> USE DEF TimerInv, TimerStates, NoTimerAfterUnload
<1>1. CASE hello_init
  BY <1>1 DEF hello_init
<1>2. CASE TimerFires
  <2>1. PICK n : n = (tm.fired + 1) % CountMod
    OBVIOUS
  <2>2. n \in Int
    BY <2>1 DEF CountMod
  <2> QED BY <1>2, <2>1, <2>2 DEF TimerFires
<1>3. CASE print_name_timer_fired
  BY <1>3 DEF print_name_timer_fired
<1>4. CASE hello_exit
  BY <1>4 DEF hello_exit
<1>5. CASE FreeModule
  BY <1>5 DEF FreeModule
<1>6. CASE UNCHANGED tm
  BY <1>6
<1> QED BY <1>1, <1>2, <1>3, <1>4, <1>5, <1>6 DEF TimerNext

(* Whatever the machine, nothing of the timer runs or is queued once       *)
(* hello_exit has been called, unless del_timer was called while the       *)
(* timer's function ran, which del_timer does not wait for.                *)
THEOREM TimerEndsWithModule == TimerSpec => []NoTimerAfterUnload
<1>1. TimerInv => NoTimerAfterUnload
  BY DEF TimerInv
<1> QED BY <1>1, InitTimer, TimerStep, PTL DEF TimerSpec

-----------------------------------------------------------------------------
(* SysProcess: child subreapers.                                           *)

(* The processes are a tree with init at its root: each one has a rank     *)
(* above that of its parent.                                               *)
Ranks == {r \in [Alive -> Nat] : /\ r[Reaper] = 0
                                 /\ \A p \in Alive \ {Reaper} : r[getppid(p)] < r[p]}
Tree == /\ Reaper \in Alive /\ Ranks # {}
        /\ \A p \in Alive \ {Reaper} : getppid(p) \in Alive

TreeInv == TaskTypes /\ Tree /\ SubreapersCovered

Has(p) == task[p].has_child_subreaper
Flagged(p) == task[p].is_child_subreaper \/ Has(p)

(* What passes from a parent to its children holds of every process.       *)
LEMMA DownTheTree ==
  ASSUME Tree, NEW S, Reaper \in S, \A p \in Alive \ {Reaper} : getppid(p) \in S => p \in S
  PROVE  Alive \subseteq S
<1>1. PICK r \in Ranks : TRUE
  BY DEF Tree
<1>2. r \in [Alive -> Nat] /\ \A p \in Alive \ {Reaper} : r[getppid(p)] < r[p]
  BY <1>1 DEF Ranks
<1> DEFINE Level(n) == {p \in Alive : r[p] = n}
           N == {n \in Nat : ~(Level(n) \subseteq S)}
<1> SUFFICES ASSUME N # {} PROVE FALSE
  BY <1>2
<1>3. PICK n \in N : \A m \in N : n <= m
  <2>1. N \in SUBSET Nat
    OBVIOUS
  <2> HIDE DEF N
  <2> QED BY <2>1, Least
<1>4. PICK p \in Alive : r[p] = n /\ p \notin S
  BY <1>3
<1>5. p # Reaper /\ getppid(p) \in Alive /\ getppid(p) \notin S
  BY <1>4 DEF Tree
<1>6. r[getppid(p)] \in N /\ r[getppid(p)] < n
  BY <1>2, <1>4, <1>5
<1>7. n \in Nat /\ r[getppid(p)] \in Nat /\ n <= r[getppid(p)]
  BY <1>2, <1>3, <1>5, <1>6
<1> QED BY <1>6, <1>7

(* Above satisfies its equation, since one function does: what is in every *)
(* set that holds the parent of p and is closed under parents.             *)
LEMMA AboveIs ==
  ASSUME Tree
  PROVE  /\ Above[Reaper] = {}
         /\ \A p \in Alive \ {Reaper} : Above[p] = {getppid(p)} \cup Above[getppid(p)]
<1> DEFINE Closed(p) == {U \in SUBSET Alive : \A q \in U \cup {p} : q # Reaper => getppid(q) \in U}
           g == [p \in Alive |-> {a \in Alive : \A U \in Closed(p) : a \in U}]
           F(f) == [p \in Alive |-> IF p = Reaper THEN {} ELSE {task[p].parent} \cup f[task[p].parent]]
<1>1. g[Reaper] = {}
  <2>1. {} \in Closed(Reaper) /\ Reaper \in Alive
    BY DEF Tree
  <2> QED BY <2>1
<1>2. ASSUME NEW p \in Alive \ {Reaper} PROVE g[p] = {getppid(p)} \cup g[getppid(p)]
  <2>1. getppid(p) \in Alive
    BY DEF Tree
  <2>2. ASSUME NEW U \in Closed(p) PROVE getppid(p) \in U /\ U \in Closed(getppid(p))
    OBVIOUS
  <2>3. ASSUME NEW U \in Closed(getppid(p)) PROVE U \cup {getppid(p)} \in Closed(p)
    BY <2>1
  <2> HIDE DEF Closed
  <2>4. {getppid(p)} \cup g[getppid(p)] \subseteq g[p]
    BY <2>1, <2>2
  <2>5. ASSUME NEW a \in g[p], a # getppid(p) PROVE a \in g[getppid(p)]
    <3>1. a \in Alive
      OBVIOUS
    <3>2. ASSUME NEW U \in Closed(getppid(p)) PROVE a \in U
      BY <2>3, <2>5
    <3> QED BY <2>1, <3>1, <3>2
  <2> HIDE DEF g
  <2> QED BY <2>4, <2>5
<1>3. g = F(g)
  BY <1>1, <1>2 DEF getppid
<1> HIDE DEF g
<1>4. Above = F(Above)
  BY <1>3 DEF Above
<1> QED BY <1>4 DEF Tree, getppid

(* Those above a process are of lower rank, and a process below one with   *)
(* either flag has the inherited one.                                      *)
LEMMA AboveMeans ==
  ASSUME Tree, SubreapersCovered, NEW r \in Ranks, NEW p \in Alive, NEW a \in Above[p]
  PROVE  a \in Alive /\ r[a] < r[p] /\ (Flagged(a) => Has(p))
<1> DEFINE S == {q \in Alive : \A b \in Above[q] : b \in Alive /\ r[b] < r[q] /\ (Flagged(b) => Has(q))}
<1>1. Reaper \in S
  BY AboveIs DEF Tree
<1>2. ASSUME NEW q \in Alive \ {Reaper}, getppid(q) \in S PROVE q \in S
  <2>1. /\ getppid(q) \in Alive /\ r[getppid(q)] < r[q] /\ r \in [Alive -> Nat]
        /\ Above[q] = {getppid(q)} \cup Above[getppid(q)]
    BY AboveIs DEF Tree, Ranks
  <2>2. Flagged(getppid(q)) => Has(q)
    BY DEF SubreapersCovered, Flagged, Has
  <2>3. ASSUME NEW b \in Above[getppid(q)] PROVE b \in Alive /\ r[b] < r[q] /\ (Flagged(b) => Has(q))
    <3>1. b \in Alive /\ r[b] < r[getppid(q)] /\ (Flagged(b) => Has(getppid(q)))
      BY <1>2
    <3>2. r[b] < r[q]
      BY <2>1, <3>1
    <3> QED BY <2>2, <3>1, <3>2 DEF Flagged
  <2> QED BY <2>1, <2>2, <2>3
<1> HIDE DEF S
<1>3. p \in S
  BY <1>1, <1>2, DownTheTree
<1> QED BY <1>3 DEF S

(* Every process but init is below init.                                   *)
LEMMA ReaperIsAbove == ASSUME Tree, NEW p \in Alive \ {Reaper} PROVE Reaper \in Above[p]
<1> DEFINE S == {q \in Alive : q = Reaper \/ Reaper \in Above[q]}
<1>1. Reaper \in S
  BY DEF Tree
<1>2. ASSUME NEW q \in Alive \ {Reaper}, getppid(q) \in S PROVE q \in S
  BY <1>2, AboveIs
<1> HIDE DEF S
<1>3. p \in S
  BY <1>1, <1>2, DownTheTree
<1> QED BY <1>3 DEF S

(* If there are subreapers above a process, one of them is nearest: the    *)
(* others are above that one.                                              *)
LEMMA NearestExists ==
  ASSUME Tree, NEW p \in Alive, NEW x \in Above[p], task[x].is_child_subreaper
  PROVE  \E a \in Above[p] : /\ task[a].is_child_subreaper
                             /\ \A b \in Above[p] : task[b].is_child_subreaper => b \in {a} \cup Above[a]
<1> DEFINE Sub(q) == {b \in Above[q] : task[b].is_child_subreaper}
           S == {q \in Alive : Sub(q) # {} => \E a \in Sub(q) : Sub(q) \subseteq {a} \cup Above[a]}
<1>1. Reaper \in S
  BY AboveIs DEF Tree
<1>2. ASSUME NEW q \in Alive \ {Reaper}, getppid(q) \in S PROVE q \in S
  <2>1. Above[q] = {getppid(q)} \cup Above[getppid(q)]
    BY AboveIs
  <2>2. CASE task[getppid(q)].is_child_subreaper
    <3>1. getppid(q) \in Sub(q) /\ Sub(q) \subseteq {getppid(q)} \cup Above[getppid(q)]
      BY <2>1, <2>2
    <3> QED BY <3>1
  <2>3. CASE ~task[getppid(q)].is_child_subreaper
    <3>1. Sub(q) = Sub(getppid(q))
      BY <2>1, <2>3
    <3> QED BY <1>2, <3>1
  <2> QED BY <2>2, <2>3
<1>3. x \in Sub(p)
  OBVIOUS
<1> HIDE DEF S
<1>4. p \in S
  BY <1>1, <1>2, DownTheTree
<1> QED BY <1>3, <1>4 DEF S

(* The new parent of the children of a process that exits.                 *)
LEMMA NewReaperIs ==
  ASSUME Tree, SubreapersCovered, NEW r \in Ranks, NEW me \in Alive \ {Reaper}
  PROVE  /\ NewReaper(me) \in Alive /\ r[NewReaper(me)] < r[me]
         /\ Flagged(NewReaper(me)) => Has(me)
<1>1. CASE Has(me) /\ \E x \in Above[me] : task[x].is_child_subreaper
  <2> DEFINE subreapers == {a \in Above[me] : task[a].is_child_subreaper}
             nearest == {a \in subreapers : subreapers \subseteq {a} \cup Above[a]}
  <2>1. nearest # {}
    <3>1. PICK x \in Above[me] : task[x].is_child_subreaper
      BY <1>1
    <3>2. PICK a \in Above[me] : /\ task[a].is_child_subreaper
                                 /\ \A b \in Above[me] : task[b].is_child_subreaper => b \in {a} \cup Above[a]
      BY <3>1, NearestExists
    <3>3. a \in nearest
      BY <3>2
    <3> QED BY <3>3
  <2>2. NewReaper(me) = CHOOSE a \in nearest : TRUE
    BY <1>1 DEF NewReaper, Has
  <2>3. NewReaper(me) \in Above[me]
    <3>1. nearest \subseteq Above[me]
      OBVIOUS
    <3> HIDE DEF nearest
    <3> QED BY <2>1, <2>2, <3>1
  <2> QED BY <1>1, <2>3, AboveMeans
<1>2. CASE ~(Has(me) /\ \E x \in Above[me] : task[x].is_child_subreaper)
  <2>1. NewReaper(me) = Reaper
    BY <1>2 DEF NewReaper, Has
  <2> QED BY <2>1, ReaperIsAbove, AboveMeans DEF Tree
<1> QED BY <1>1, <1>2

LEMMA ForkTree == ASSUME TreeInv, NEW me \in Alive, fork(me) PROVE TreeInv'
<1>1. PICK c \in Pids \ Alive :
        task' = [p \in Alive \cup {c} |->
          IF p # c THEN task[p]
          ELSE [task[me] EXCEPT !.parent = me, !.leader = FALSE, !.forknoexec = TRUE,
                  !.is_child_subreaper = FALSE,
                  !.has_child_subreaper = task[me].has_child_subreaper \/ task[me].is_child_subreaper]]
  BY DEF fork
<1>2. Alive' = Alive \cup {c} /\ c \notin Alive /\ \A p \in Alive : task'[p] = task[p]
  BY <1>1 DEF Alive
<1>3. /\ DOMAIN task'[c] = TaskFields /\ task'[c].parent = me
      /\ task'[c].has_child_subreaper = (task[me].has_child_subreaper \/ task[me].is_child_subreaper)
  <2>1. DOMAIN task[me] = TaskFields
    BY DEF TreeInv, TaskTypes
  <2> QED BY <1>1, <1>2, <2>1 DEF TaskFields
<1>4. TaskTypes'
  BY <1>2, <1>3 DEF TreeInv, TaskTypes
<1>5. Tree'
  <2>1. PICK r \in Ranks : TRUE
    BY DEF TreeInv, Tree
  <2>2. /\ r \in [Alive -> Nat] /\ r[Reaper] = 0 /\ Reaper \in Alive
        /\ \A p \in Alive \ {Reaper} : r[getppid(p)] < r[p] /\ getppid(p) \in Alive
    BY <2>1 DEF TreeInv, Tree, Ranks
  <2>3. /\ c # Reaper /\ getppid(c)' = me
        /\ \A p \in Alive : getppid(p)' = getppid(p)
    BY <1>2, <1>3, <2>2 DEF getppid
  <2> DEFINE s == [p \in Alive' |-> IF p = c THEN r[me] + 1 ELSE r[p]]
  <2>4. s \in [Alive' -> Nat] /\ s[Reaper] = 0 /\ s[c] = r[me] + 1 /\ \A p \in Alive : s[p] = r[p]
    BY <1>2, <2>2, <2>3
  <2> HIDE DEF s
  <2>5. ASSUME NEW p \in Alive' \ {Reaper} PROVE getppid(p)' \in Alive' /\ s[getppid(p)'] < s[p]
    <3>1. CASE p = c
      BY <1>2, <2>2, <2>3, <2>4, <3>1
    <3>2. CASE p # c
      BY <1>2, <2>2, <2>3, <2>4, <3>2
    <3> QED BY <3>1, <3>2
  <2>6. s \in Ranks'
    BY <2>4, <2>5 DEF Ranks
  <2> QED BY <1>2, <2>2, <2>5, <2>6 DEF Tree
<1>6. SubreapersCovered'
  <2>1. ASSUME NEW p \in Alive' \ {Reaper}, (task[getppid(p)].is_child_subreaper \/ task[getppid(p)].has_child_subreaper)'
        PROVE  task'[p].has_child_subreaper
    <3>1. CASE p = c
      BY <1>2, <1>3, <2>1, <3>1 DEF getppid
    <3>2. CASE p # c
      BY <1>2, <2>1, <3>2 DEF TreeInv, Tree, SubreapersCovered, getppid
    <3> QED BY <3>1, <3>2
  <2> QED BY <2>1 DEF SubreapersCovered
<1> QED BY <1>4, <1>5, <1>6 DEF TreeInv

(* A step that changes neither the parents nor the flags.                  *)
LEMMA SameTree ==
  ASSUME TreeInv, Alive' = Alive, TaskTypes',
         \A p \in Alive : /\ task'[p].parent = task[p].parent
                          /\ task'[p].is_child_subreaper = task[p].is_child_subreaper
                          /\ task'[p].has_child_subreaper = task[p].has_child_subreaper
  PROVE  TreeInv'
<1>1. \A p \in Alive : getppid(p)' = getppid(p)
  BY DEF getppid
<1>2. Tree'
  <2>1. PICK r \in Ranks : TRUE
    BY DEF TreeInv, Tree
  <2>2. r \in Ranks'
    BY <1>1, <2>1 DEF TreeInv, Tree, Ranks
  <2> QED BY <1>1, <2>2 DEF TreeInv, Tree
<1>3. SubreapersCovered'
  BY <1>1 DEF TreeInv, Tree, SubreapersCovered
<1> QED BY <1>2, <1>3 DEF TreeInv

LEMMA ExitTree == ASSUME TreeInv, NEW me \in Alive, exit(me) PROVE TreeInv'
<1>1. /\ me # Reaper
      /\ task' = [p \in Alive \ {me} |->
           IF task[p].parent = me THEN [task[p] EXCEPT !.parent = NewReaper(me)] ELSE task[p]]
  BY DEF exit
<1> DEFINE new == NewReaper(me)
<1>2. PICK r \in Ranks : TRUE
  BY DEF TreeInv, Tree
<1>3. new \in Alive /\ r[new] < r[me] /\ (Flagged(new) => Has(me))
  BY <1>1, <1>2, NewReaperIs DEF TreeInv
<1> HIDE DEF new
<1>4. /\ Alive' = Alive \ {me}
      /\ \A p \in Alive' : /\ DOMAIN task'[p] = TaskFields
                           /\ task'[p].parent = IF task[p].parent = me THEN new ELSE task[p].parent
                           /\ task'[p].is_child_subreaper = task[p].is_child_subreaper
                           /\ task'[p].has_child_subreaper = task[p].has_child_subreaper
  <2>1. Alive' = Alive \ {me}
    BY <1>1 DEF Alive
  <2>2. ASSUME NEW p \in Alive'
        PROVE  /\ DOMAIN task'[p] = TaskFields
               /\ task'[p].parent = IF task[p].parent = me THEN new ELSE task[p].parent
               /\ task'[p].is_child_subreaper = task[p].is_child_subreaper
               /\ task'[p].has_child_subreaper = task[p].has_child_subreaper
    <3>1. DOMAIN task[p] = TaskFields
      BY <2>1 DEF TreeInv, TaskTypes
    <3> QED BY <1>1, <2>1, <3>1 DEF TaskFields, new
  <2> QED BY <2>1, <2>2
<1>5. /\ r \in [Alive -> Nat] /\ r[Reaper] = 0 /\ Reaper \in Alive /\ new # me
      /\ \A p \in Alive \ {Reaper} : r[getppid(p)] < r[p] /\ getppid(p) \in Alive
  BY <1>2, <1>3 DEF TreeInv, Tree, Ranks
<1>6. TaskTypes'
  BY <1>4 DEF TreeInv, TaskTypes
<1>7. Tree'
  <2> DEFINE s == [p \in Alive' |-> r[p]]
  <2>1. s \in [Alive' -> Nat] /\ s[Reaper] = 0 /\ \A p \in Alive' : s[p] = r[p]
    BY <1>1, <1>4, <1>5
  <2> HIDE DEF s
  <2>2. ASSUME NEW p \in Alive' \ {Reaper} PROVE getppid(p)' \in Alive' /\ s[getppid(p)'] < s[p]
    <3>1. CASE task[p].parent = me
      <4>1. getppid(p)' = new /\ r[me] < r[p] /\ p \in Alive
        BY <1>4, <1>5, <3>1 DEF getppid
      <4>2. r[new] < r[p]
        BY <1>3, <1>5, <4>1
      <4> QED BY <1>3, <1>4, <1>5, <2>1, <4>1, <4>2
    <3>2. CASE task[p].parent # me
      <4>1. getppid(p)' = getppid(p) /\ p \in Alive /\ getppid(p) # me
        BY <1>4, <3>2 DEF getppid
      <4> QED BY <1>4, <1>5, <2>1, <4>1
    <3> QED BY <3>1, <3>2
  <2>3. s \in Ranks'
    BY <2>1, <2>2 DEF Ranks
  <2> QED BY <1>1, <1>4, <1>5, <2>2, <2>3 DEF Tree
<1>8. SubreapersCovered'
  <2>1. ASSUME NEW p \in Alive' \ {Reaper}, (task[getppid(p)].is_child_subreaper \/ task[getppid(p)].has_child_subreaper)'
        PROVE  task'[p].has_child_subreaper
    <3>1. CASE task[p].parent = me
      <4>1. getppid(p)' = new /\ new \in Alive'
        BY <1>3, <1>4, <1>5, <3>1 DEF getppid
      <4>2. Flagged(new)
        BY <1>4, <2>1, <4>1 DEF Flagged, Has
      <4> QED BY <1>3, <1>4, <3>1, <4>2 DEF TreeInv, SubreapersCovered, getppid, Has
    <3>2. CASE task[p].parent # me
      <4>1. getppid(p)' = getppid(p) /\ p \in Alive /\ getppid(p) \in Alive'
        BY <1>4, <1>5, <3>2 DEF getppid
      <4> QED BY <1>4, <2>1, <4>1 DEF TreeInv, SubreapersCovered
    <3> QED BY <3>1, <3>2
  <2> QED BY <2>1 DEF SubreapersCovered
<1> QED BY <1>6, <1>7, <1>8 DEF TreeInv

LEMMA SetSubreaperTree ==
  ASSUME TreeInv, NEW me \in Alive, NEW arg2 \in BOOLEAN, PrSetChildSubreaper(me, arg2)
  PROVE  TreeInv'
<1> DEFINE marked == IF arg2 THEN propagate_has_child_subreaper(me) ELSE {}
<1>1. task' = [p \in Alive |->
        [task[p] EXCEPT !.is_child_subreaper = IF p = me THEN arg2 ELSE @,
                        !.has_child_subreaper = @ \/ p \in marked]]
  BY DEF PrSetChildSubreaper
<1> HIDE DEF marked
<1>2. Alive' = Alive
  BY <1>1 DEF Alive
<1>3. ASSUME NEW p \in Alive
      PROVE  /\ DOMAIN task'[p] = TaskFields /\ task'[p].parent = task[p].parent
             /\ task'[p].is_child_subreaper = IF p = me THEN arg2 ELSE task[p].is_child_subreaper
             /\ task'[p].has_child_subreaper = (task[p].has_child_subreaper \/ p \in marked)
  <2>1. DOMAIN task[p] = TaskFields
    BY DEF TreeInv, TaskTypes
  <2> QED BY <1>1, <2>1 DEF TaskFields
<1>4. TaskTypes'
  BY <1>2, <1>3 DEF TreeInv, TaskTypes
<1>5. \A p \in Alive : getppid(p)' = getppid(p)
  BY <1>3 DEF getppid
<1>6. PICK r \in Ranks : TRUE
  BY DEF TreeInv, Tree
<1>7. Tree'
  <2>1. r \in Ranks'
    BY <1>2, <1>5, <1>6 DEF TreeInv, Tree, Ranks
  <2> QED BY <1>2, <1>5, <2>1 DEF TreeInv, Tree
<1>8. ASSUME NEW p \in Alive \ {Reaper}, Flagged(getppid(p))' PROVE Has(p)'
  <2>1. PICK up \in Alive : up = getppid(p)
    BY DEF TreeInv, Tree
  <2>2. Above[p] = {up} \cup Above[up] /\ (Flagged(up) => Has(p))
    BY <2>1, AboveIs DEF TreeInv, SubreapersCovered, Flagged, Has
  <2>3. Has(p) \/ p \in marked => Has(p)'
    BY <1>3 DEF Has
  <2>4. (task'[up].is_child_subreaper \/ task'[up].has_child_subreaper)
    BY <1>5, <1>8, <2>1 DEF Flagged, Has
  <2>5. Flagged(up) \/ (up = me /\ arg2) \/ up \in marked
    <3>1. CASE task'[up].has_child_subreaper
      BY <1>3, <2>1, <3>1 DEF Flagged, Has
    <3>2. CASE task'[up].is_child_subreaper
      <4>1. CASE up = me
        BY <1>3, <2>1, <3>2, <4>1
      <4>2. CASE up # me
        BY <1>3, <2>1, <3>2, <4>2 DEF Flagged
      <4> QED BY <4>1, <4>2
    <3> QED BY <2>4, <3>1, <3>2
  <2>6. CASE Flagged(up)
    BY <2>2, <2>3, <2>6
  <2>7. CASE (up = me /\ arg2) \/ up \in marked
    <3>1. arg2 /\ me \in Above[p]
      <4>1. marked # {} => arg2
        BY DEF marked
      <4>2. up \in marked => me \in Above[up]
        BY DEF marked, propagate_has_child_subreaper, Descendants
      <4> QED BY <2>2, <2>7, <4>1, <4>2
    <3>2. CASE \E d \in Descendants(me) : Has(d) /\ p \in {d} \cup Descendants(d)
      <4>1. PICK d \in Descendants(me) : Has(d) /\ p \in {d} \cup Descendants(d)
        BY <3>2
      <4>2. Has(p)
        BY <1>6, <4>1, AboveMeans DEF TreeInv, Descendants, Flagged
      <4> QED BY <2>3, <4>2
    <3>3. CASE ~\E d \in Descendants(me) : Has(d) /\ p \in {d} \cup Descendants(d)
      <4>1. p \in Descendants(me)
        BY <3>1 DEF Descendants
      <4>2. p \in marked
        BY <3>1, <3>3, <4>1 DEF marked, propagate_has_child_subreaper, Has
      <4> QED BY <2>3, <4>2
    <3> QED BY <3>2, <3>3
  <2> QED BY <2>6, <2>7, <2>5
<1>9. SubreapersCovered'
  BY <1>2, <1>8 DEF SubreapersCovered, Flagged, Has
<1> QED BY <1>4, <1>7, <1>9 DEF TreeInv

LEMMA InitTree == ProcessInit => TreeInv
<1> SUFFICES ASSUME ProcessInit PROVE TreeInv
  OBVIOUS
<1>1. Alive = {Reaper} /\ DOMAIN task[Reaper] = TaskFields
  BY DEF ProcessInit, ProcessStart, Alive, TaskFields
<1>2. [p \in {Reaper} |-> 0] \in Ranks
  BY <1>1 DEF Ranks
<1> QED BY <1>1, <1>2, ProcessAssumption DEF TreeInv, TaskTypes, Tree, SubreapersCovered

(* The calls that change other fields.                                     *)
LEMMA OtherCallsTree ==
  ASSUME TreeInv, NEW me \in Alive,
         \/ execve(me) \/ setsid(me)
         \/ \E pid \in Pids \cup {0}, pgid \in Pids \cup {0, -1} : setpgid(me, pid, pgid)
  PROVE  TreeInv'
<1> DEFINE Kept(p) == /\ DOMAIN task'[p] = TaskFields /\ task'[p].parent = task[p].parent
                      /\ task'[p].is_child_subreaper = task[p].is_child_subreaper
                      /\ task'[p].has_child_subreaper = task[p].has_child_subreaper
<1> SUFFICES Alive' = Alive /\ \A p \in Alive : Kept(p)
  BY SameTree DEF TreeInv, TaskTypes
<1>1. \A p \in Alive : DOMAIN task[p] = TaskFields
  BY DEF TreeInv, TaskTypes
<1>2. CASE execve(me)
  <2>1. task' = [task EXCEPT ![me].forknoexec = FALSE]
    BY <1>2 DEF execve
  <2> QED BY <1>1, <2>1 DEF Alive, TaskFields
<1>3. CASE setsid(me)
  <2>1. task' = [task EXCEPT ![me].leader = TRUE, ![me].sess = me, ![me].pgrp = me, ![me].tty = FALSE]
    BY <1>3 DEF setsid, set_special_pids
  <2> QED BY <1>1, <2>1 DEF Alive, TaskFields
<1>4. ASSUME NEW pid \in Pids \cup {0}, NEW pgid \in Pids \cup {0, -1}, setpgid(me, pid, pgid)
      PROVE  Alive' = Alive /\ \A p \in Alive : Kept(p)
  <2>1. PICK q, g : task' = [task EXCEPT ![q].pgrp = g]
    BY <1>4 DEF setpgid
  <2> QED BY <1>1, <2>1 DEF Alive, TaskFields
<1> QED BY <1>2, <1>3, <1>4

LEMMA TreeStep == TreeInv /\ [ProcessNext]_task => TreeInv'
<1> SUFFICES ASSUME TreeInv, [ProcessNext]_task PROVE TreeInv'
  OBVIOUS
<1>1. CASE UNCHANGED task
  <2>1. Alive' = Alive /\ TaskTypes'
    BY <1>1 DEF TreeInv, TaskTypes, Alive
  <2> QED BY <1>1, <2>1, SameTree
<1> QED BY <1>1, ForkTree, ExitTree, SetSubreaperTree, OtherCallsTree DEF ProcessNext

(* Whatever processes fork, move, start sessions, ask to be subreapers and *)
(* exit, for any set of pids: groups lie in one session, and whatever has  *)
(* a subreaper above it has the flag that lets the subreaper adopt its     *)
(* orphans, however the tree was reshaped since.                           *)
THEOREM TreeStaysSound == ProcessSpec => []ProcessTreeSound
<1>1. TreeInv => SubreapersCovered
  BY DEF TreeInv
<1> QED BY <1>1, InitTree, TreeStep, GroupsInOneSession, PTL DEF ProcessSpec, ProcessTreeSound

-----------------------------------------------------------------------------
(* SysPriority: what one call does, from any priorities.                   *)

LEMMA ClampInts == \A v \in Int : Clamp(v) \in MIN_NICE..MAX_NICE
BY DEF Clamp, MIN_NICE, MAX_NICE

LEMMA EachCallExact ==
  ASSUME NEW me \in NiceTasks, NEW which \in Whiches, NEW who \in Whos, NEW v \in NiceInputs,
         NEW out \in setpriority(me, which, who, v)
  PROVE  /\ out.ret = 0 => /\ \A p \in Selected(me, which, who) : out.nice[p] = Clamp(v)
                           /\ getpriority(me, which, who, out.nice) = nice_to_rlimit(Clamp(v))
         /\ \A p \in NiceTasks \ Selected(me, which, who) : out.nice[p] = prio.nice[p]
<1> DEFINE n == Clamp(v)
           sel == Selected(me, which, who)
           errs == {set_one_prio(me, p, n) : p \in sel}
           set == {p \in sel : set_one_prio(me, p, n) = 0}
<1>1. sel \subseteq NiceTasks
  BY DEF Selected
<1>2. /\ out.nice = [p \in NiceTasks |-> IF p \in set THEN n ELSE prio.nice[p]]
      /\ out.ret \in IF which = "other" THEN {EINVAL} ELSE PrioResults(errs)
  <2> DEFINE error == [p \in sel |-> set_one_prio(me, p, n)]
  <2>1. {p \in DOMAIN error : error[p] = 0} = set
    OBVIOUS
  <2>2. {error[p] : p \in DOMAIN error} = errs
    OBVIOUS
  <2> HIDE DEF error, set, errs
  <2> QED BY <2>1, <2>2 DEF setpriority, error
<1> HIDE DEF sel
<1>3. \A p \in NiceTasks \ sel : out.nice[p] = prio.nice[p]
  BY <1>2
<1>4. ASSUME out.ret = 0 PROVE which # "other" /\ sel # {} /\ set = sel
  <2>1. which # "other" /\ 0 \in PrioResults(errs)
    BY <1>2, <1>4 DEF EINVAL
  <2>2. errs = {0}
    BY <2>1 DEF PrioResults, ESRCH
  <2> QED BY <2>1, <2>2
<1>5. ASSUME out.ret = 0 PROVE \A p \in sel : out.nice[p] = n
  BY <1>1, <1>2, <1>4, <1>5
<1>6. ASSUME out.ret = 0 PROVE getpriority(me, which, who, out.nice) = nice_to_rlimit(n)
  <2> DEFINE top == nice_to_rlimit(n)
  <2>1. {nice_to_rlimit(out.nice[p]) : p \in sel} = {top}
    BY <1>4, <1>5, <1>6
  <2>2. top \in Int /\ ESRCH \in Int /\ ESRCH <= top
    <3>1. n \in MIN_NICE..MAX_NICE
      BY ClampInts, PriorityAssumption
    <3> QED BY <3>1 DEF nice_to_rlimit, MAX_NICE, MIN_NICE, ESRCH
  <2>3. Max({ESRCH, top}) = top
    <3> HIDE DEF top
    <3> QED BY <2>2, MaxIs
  <2>4. {ESRCH} \cup {top} = {ESRCH, top}
    OBVIOUS
  <2> HIDE DEF top, n
  <2> QED BY <1>4, <1>6, <2>1, <2>3, <2>4 DEF getpriority, sel, top
<1> QED BY <1>3, <1>5, <1>6 DEF sel

(* setpriority says 0 only when every selected task, and at least one, has *)
(* the new value, which getpriority then reports, for any tasks, groups    *)
(* and users: the error of one task is never covered by the success of a   *)
(* later one.                                                              *)
THEOREM PriorityAnswersHold == PrioAllOrError
BY EachCallExact DEF PrioAllOrError

-----------------------------------------------------------------------------
(* SysPrctl: the policy for machine checks.                                *)

PrctlInv ==
  /\ pr \in [pdeath_signal : Nat, dumpable : Nat, slack : Nat, mce_process : BOOLEAN,
             mce_early : BOOLEAN, no_new_privs : BOOLEAN, thp_disable : BOOLEAN, comm : {"init", "a", "b"}]
  /\ McePolicyReported

Policies == McePolicy.LATE = 0 /\ McePolicy.EARLY = 1 /\ McePolicy.DEFAULT = 2

LEMMA PolicyNumbers == Policies /\ \A x : (\E p \in DOMAIN McePolicy : McePolicy[p] = x) <=> x \in {0, 1, 2}
<1>1. Policies
  BY DEF McePolicy, Policies
<1>2. DOMAIN McePolicy = {"LATE", "EARLY", "DEFAULT"}
  BY DEF McePolicy
<1> QED BY <1>1, <1>2 DEF Policies

LEMMA InitPrctl == PrctlInit => PrctlInv
<1>1. DefaultSlack \in Nat
  BY PrctlAssumption
<1> QED BY <1>1 DEF PrctlInit, PrctlInv, McePolicyReported, MceReported

LEMMA PrctlStep == PrctlInv /\ [PrctlNext]_prctlVars => PrctlInv'
<1> SUFFICES ASSUME PrctlInv, [PrctlNext]_prctlVars PROVE PrctlInv'
  OBVIOUS
<1> USE DEF PrctlInv, McePolicyReported, MceReported
<1>0. Args \subseteq Nat /\ DefaultSlack \in Nat
  BY PrctlAssumption
<1>1. ASSUME NEW ret, Fails(ret) PROVE PrctlInv'
  BY <1>1 DEF Fails
<1>2. ASSUME NEW arg \in Args, PrSetPdeathsig(arg) \/ PrSetDumpable(arg) \/ PrSetTimerslack(arg)
      PROVE PrctlInv'
  BY <1>0, <1>1, <1>2 DEF PrSetPdeathsig, PrSetDumpable, PrSetTimerslack, Done
<1>3. ASSUME NEW arg \in Args, PrSetThpDisable(arg) \/ PrSetNoNewPrivs(arg) PROVE PrctlInv'
  BY <1>1, <1>3 DEF PrSetThpDisable, PrSetNoNewPrivs, Done
<1>4. ASSUME NEW arg \in Args, PrMceKillClear(arg) PROVE PrctlInv'
  BY <1>1, <1>4 DEF PrMceKillClear
<1>5. ASSUME NEW arg \in Args, PrMceKillSet(arg) PROVE PrctlInv'
  <2>1. pr' = MceFlags(arg) /\ policy' = IF arg \in {0, 1, 2} THEN arg ELSE Spoiled
    BY <1>5, PolicyNumbers DEF PrMceKillSet
  <2>2. CASE arg = 1
    <3>1. pr' = [pr EXCEPT !.mce_process = TRUE, !.mce_early = TRUE] /\ policy' = 1
      BY <2>1, <2>2, PolicyNumbers DEF MceFlags, Policies
    <3>2. pr'.mce_process = TRUE /\ pr'.mce_early = TRUE
      BY <3>1
    <3>3. McePolicyReported'
      BY <3>1, <3>2, PolicyNumbers DEF Policies
    <3> QED BY <3>1, <3>3
  <2>3. CASE arg = 0
    <3>1. pr' = [pr EXCEPT !.mce_process = TRUE, !.mce_early = FALSE] /\ policy' = 0
      BY <2>1, <2>3, PolicyNumbers DEF MceFlags, Policies
    <3>2. pr'.mce_process = TRUE /\ pr'.mce_early = FALSE
      BY <3>1
    <3>3. McePolicyReported'
      BY <3>1, <3>2, PolicyNumbers DEF Policies
    <3> QED BY <3>1, <3>3
  <2>4. CASE arg = 2
    <3>1. pr' = [pr EXCEPT !.mce_process = FALSE, !.mce_early = FALSE] /\ policy' = 2
      BY <2>1, <2>4, PolicyNumbers DEF MceFlags, Policies
    <3>2. pr'.mce_process = FALSE /\ pr'.mce_early = FALSE
      BY <3>1
    <3>3. McePolicyReported'
      BY <3>1, <3>2, PolicyNumbers DEF Policies
    <3> QED BY <3>1, <3>3
  <2>5. CASE arg \notin {0, 1, 2}
    BY <2>1, <2>5, PolicyNumbers DEF MceFlags, Policies
  <2> QED BY <2>2, <2>3, <2>4, <2>5
<1>6. ASSUME NEW name \in {"a", "b"}, PrSetName(name) PROVE PrctlInv'
  BY <1>1, <1>6 DEF PrSetName, Done
<1>7. CASE PrMceKillGet \/ PrGet
  BY <1>1, <1>7 DEF PrMceKillGet, PrGet, Reports
<1>8. CASE UNCHANGED prctlVars
  BY <1>8 DEF prctlVars
<1> QED BY <1>2, <1>3, <1>4, <1>5, <1>6, <1>7, <1>8 DEF PrctlNext

-----------------------------------------------------------------------------
(* SysInfo: sizes of memory.                                               *)

InfoInv == /\ memory \in [totalram : Nat, freeram : Nat, totalswap : Nat]
           /\ memory.freeram <= memory.totalram
           /\ memory.totalram < MaxPages + Step /\ memory.totalswap < MaxPages + Step

LEMMA InitInfo == InfoInit => InfoInv
BY InfoAssumption DEF InfoInit, InfoInv

LEMMA InfoStep == InfoInv /\ [InfoNext]_memory => InfoInv'
<1> SUFFICES ASSUME InfoInv, [InfoNext]_memory PROVE InfoInv'
  OBVIOUS
<1>1. MaxPages \in Nat /\ Step \in Nat
  BY InfoAssumption
<1> QED BY <1>1 DEF InfoInv, InfoNext, Uses, Swapon, AddMemory

(* A number of at most two words, reduced to one.                          *)
LEMMA OneWord ==
  ASSUME NEW w \in Nat \ {0}, NEW n \in Nat, n < 2 * w
  PROVE  n % w = IF n < w THEN n ELSE n - w
<1>1. CASE n < w
  BY <1>1
<1>2. CASE ~(n < w)
  <2>1. n - w \in 0..w - 1
    BY <1>2
  <2>2. n = w + (n - w)
    OBVIOUS
  <2> QED BY <1>2, <2>1, <2>2
<1> QED BY <1>1, <1>2

LEMMA FitsMeans ==
  ASSUME InfoInv
  PROVE  FitsInBytes <=> 4 * (memory.totalram + memory.totalswap) < WORD
<1>1. /\ memory.totalram \in Nat /\ memory.totalswap \in Nat /\ WORD \in Nat \ {0}
      /\ memory.totalram < WORD /\ memory.totalswap < WORD
  BY InfoAssumption DEF InfoInv
<1>2. PICK w \in Nat \ {0}, r \in Nat, s \in Nat :
        w = WORD /\ r = memory.totalram /\ s = memory.totalswap /\ r < w /\ s < w
  BY <1>1
<1>3. PICK n \in Nat : n = r + s
  OBVIOUS
<1>4. PICK total \in Nat : total = n % w
  OBVIOUS
<1>5. PICK twice \in Nat : twice = (2 * total) % w
  OBVIOUS
<1>6. FitsInBytes <=> total >= r /\ total >= s /\ twice >= total /\ (2 * twice) % w >= twice
  BY <1>2, <1>3, <1>4, <1>5 DEF FitsInBytes
<1>7. n < 2 * w
  BY <1>2, <1>3
<1>8. total = IF n < w THEN n ELSE n - w
  BY <1>4, <1>7, OneWord
<1>9. total < w /\ 2 * total \in Nat /\ 2 * total < 2 * w
  BY <1>7, <1>8
<1>10. twice = IF 2 * total < w THEN 2 * total ELSE 2 * total - w
  BY <1>5, <1>9, OneWord
<1>11. twice < w /\ 2 * twice \in Nat /\ 2 * twice < 2 * w
  BY <1>9, <1>10
<1>12. (2 * twice) % w = IF 2 * twice < w THEN 2 * twice ELSE 2 * twice - w
  BY <1>11, OneWord
<1>13. PICK four \in Int : four = (2 * twice) % w
  OBVIOUS
<1>14. FitsInBytes <=> 4 * n < w
  BY <1>2, <1>3, <1>6, <1>7, <1>8, <1>9, <1>10, <1>11, <1>12, <1>13
<1> QED BY <1>2, <1>3, <1>14

LEMMA SysinfoMeans ==
  ASSUME InfoInv
  PROVE  LET unit == IF FitsInBytes THEN 1 ELSE 4
         IN /\ do_sysinfo.mem_unit = unit
            /\ \A f \in DOMAIN memory : do_sysinfo[f] = IF FitsInBytes THEN 4 * memory[f] ELSE memory[f]
<1> DEFINE unit == IF FitsInBytes THEN 1 ELSE 4
           size(p) == ((4 \div unit) * p) % WORD
<1>1. DOMAIN memory = {"totalram", "freeram", "totalswap"}
  BY DEF InfoInv
<1>2. do_sysinfo = [f \in InfoFields |-> IF f = "mem_unit" THEN unit ELSE size(memory[f])]
  BY DEF do_sysinfo, PAGE_SIZE
<1>4. do_sysinfo.mem_unit = unit /\ \A f \in DOMAIN memory : do_sysinfo[f] = size(memory[f])
  <2> HIDE DEF size, unit
  <2> QED BY <1>1, <1>2 DEF InfoFields
<1>5. ASSUME NEW f \in DOMAIN memory
      PROVE  size(memory[f]) = IF FitsInBytes THEN 4 * memory[f] ELSE memory[f]
  <2>1. memory[f] \in Nat /\ memory[f] < WORD /\ WORD \in Nat \ {0}
    BY <1>1, InfoAssumption DEF InfoInv
  <2>2. CASE FitsInBytes
    <3>1. memory[f] <= memory.totalram + memory.totalswap
      BY <1>1 DEF InfoInv
    <3>2. 4 * memory[f] < WORD /\ 4 * memory[f] \in Nat
      BY <2>1, <2>2, <3>1, FitsMeans DEF InfoInv
    <3>3. (4 * memory[f]) % WORD = 4 * memory[f]
      BY <2>1, <3>2, OneWord
    <3>4. 4 \div 1 = 4
      OBVIOUS
    <3> QED BY <2>2, <3>3, <3>4
  <2>3. CASE ~FitsInBytes
    <3>1. (4 \div 4) * memory[f] = memory[f]
      BY <2>1
    <3>2. memory[f] % WORD = memory[f]
      BY <2>1, OneWord
    <3> QED BY <2>3, <3>1, <3>2
  <2> QED BY <2>2, <2>3
<1> QED BY <1>4, <1>5

LEMMA CompatMeans ==
  ASSUME InfoInv, NEW f \in DOMAIN memory, memory[f] < WORD32
  PROVE  compat_sysinfo[f] * compat_sysinfo.mem_unit = memory[f] * 4
<1> DEFINE large == do_sysinfo.totalram >= WORD32 \/ do_sysinfo.totalswap >= WORD32
           unit == IF large THEN 4 ELSE do_sysinfo.mem_unit
           size(g) == (do_sysinfo[g] \div (unit \div do_sysinfo.mem_unit)) % WORD32
<1>1. DOMAIN memory = {"totalram", "freeram", "totalswap"}
  BY DEF InfoInv
<1>2. compat_sysinfo = [g \in InfoFields |-> IF g = "mem_unit" THEN unit ELSE size(g)]
  BY DEF compat_sysinfo, PAGE_SIZE
<1>4. compat_sysinfo.mem_unit = unit /\ compat_sysinfo[f] = size(f)
  <2> HIDE DEF size, unit
  <2> QED BY <1>1, <1>2 DEF InfoFields
<1>5. memory[f] \in Nat /\ memory[f] < WORD32 /\ WORD32 \in Nat \ {0}
  BY <1>1, InfoAssumption DEF InfoInv
<1>6. memory[f] % WORD32 = memory[f]
  BY <1>5, OneWord
<1>7. CASE ~FitsInBytes
  <2>1. do_sysinfo.mem_unit = 4 /\ do_sysinfo[f] = memory[f]
    BY <1>7, SysinfoMeans
  <2>2. unit = 4 /\ 4 \div 4 = 1 /\ memory[f] \div 1 = memory[f]
    BY <1>5, <2>1
  <2>3. size(f) = memory[f]
    BY <1>6, <2>1, <2>2
  <2> QED BY <1>4, <2>2, <2>3
<1>8. CASE FitsInBytes
  <2>1. do_sysinfo.mem_unit = 1 /\ do_sysinfo[f] = 4 * memory[f]
    BY <1>8, SysinfoMeans
  <2>2. CASE large
    <3>1. unit = 4 /\ 4 \div 1 = 4 /\ (4 * memory[f]) \div 4 = memory[f]
      BY <1>5, <2>2
    <3>2. size(f) = memory[f]
      BY <1>6, <2>1, <3>1
    <3> QED BY <1>4, <3>1, <3>2
  <2>3. CASE ~large
    <3>1. /\ do_sysinfo.totalram = 4 * memory.totalram
          /\ do_sysinfo.totalswap = 4 * memory.totalswap
      BY <1>1, <1>8, SysinfoMeans
    <3>2. 4 * memory[f] \in Nat /\ 4 * memory[f] < WORD32
      BY <1>1, <1>5, <2>3, <3>1 DEF InfoInv
    <3>3. (4 * memory[f]) % WORD32 = 4 * memory[f]
      BY <1>5, <3>2, OneWord
    <3>4. unit = 1 /\ 1 \div 1 = 1 /\ (4 * memory[f]) \div 1 = 4 * memory[f]
      BY <2>1, <2>3, <3>2
    <3>5. size(f) = 4 * memory[f]
      BY <2>1, <3>3, <3>4
    <3> QED BY <1>4, <1>5, <3>4, <3>5
  <2> QED BY <2>2, <2>3
<1> QED BY <1>7, <1>8

LEMMA InfoExact == InfoInv => SysinfoExact
<1> SUFFICES ASSUME InfoInv PROVE SysinfoExact
  OBVIOUS
<1>1. ASSUME NEW f \in DOMAIN memory PROVE do_sysinfo[f] * do_sysinfo.mem_unit = memory[f] * 4
  <2>1. memory[f] \in Nat
    BY DEF InfoInv
  <2> QED BY <2>1, SysinfoMeans
<1>2. (memory.totalram + memory.totalswap) * 4 < WORD => do_sysinfo.mem_unit = 1
  BY FitsMeans, SysinfoMeans, InfoAssumption DEF InfoInv
<1> QED BY <1>1, <1>2, CompatMeans DEF SysinfoExact, PAGE_SIZE

(* However memory and swap are added and used, with any sizes of a word    *)
(* and of a 32-bit word, sysinfo reports every size exactly, and its unit  *)
(* is one byte whenever RAM and swap together fit in a word.               *)
THEOREM SysinfoStaysExact == InfoSpec => []SysinfoExact
BY InitInfo, InfoStep, InfoExact, PTL DEF InfoSpec

-----------------------------------------------------------------------------
(* Sums over finite sets: MapThenSumSet takes the elements in some order,  *)
(* and the order does not matter.                                          *)

AnyOf(s) == CHOOSE x \in s : TRUE
Adds(f, S, g) == \A s \in SUBSET S : g[s] = IF s = {} THEN 0 ELSE f[AnyOf(s)] + g[s \ {AnyOf(s)}]
Sums(f, S) == {g \in [SUBSET S -> Nat] : Adds(f, S, g)}
Counts(f, S) == IsFiniteSet(S) /\ \A x \in S : f[x] \in Nat
Total(f, S) == MapThenSumSet(LAMBDA x : f[x], S)

LEMMA AnyOfIn == \A s : s # {} => AnyOf(s) \in s
BY DEF AnyOf

(* Without one of its elements, a set of n + 1 has n.                      *)
LEMMA OneLess ==
  ASSUME NEW S, IsFiniteSet(S), NEW s \in SUBSET S, NEW x \in s, NEW n \in Nat, Cardinality(s) <= n + 1
  PROVE  s \ {x} \in SUBSET S /\ Cardinality(s \ {x}) <= n
<1>1. IsFiniteSet(s)
  BY FS_Subset
<1>2. Cardinality(s \ {x}) = Cardinality(s) - 1 /\ Cardinality(s) \in Nat
  BY <1>1, FS_RemoveElement, FS_CardinalityType
<1> QED BY <1>2

LEMMA SumsExist == ASSUME NEW f, NEW S, Counts(f, S) PROVE Sums(f, S) # {}
<1> DEFINE Small(n) == {s \in SUBSET S : Cardinality(s) <= n}
           Good(n, g) == \A s \in Small(n) : g[s] = IF s = {} THEN 0 ELSE f[AnyOf(s)] + g[s \ {AnyOf(s)}]
           N == {n \in Nat : \E g \in [SUBSET S -> Nat] : Good(n, g)}
<1>1. 0 \in N
  <2> DEFINE g == [s \in SUBSET S |-> 0]
  <2>1. \A s \in Small(0) : s = {}
    <3> SUFFICES ASSUME NEW s \in Small(0) PROVE s = {}
      OBVIOUS
    <3>1. IsFiniteSet(s)
      BY FS_Subset DEF Counts
    <3> QED BY <3>1, FS_CardinalityType, FS_EmptySet
  <2>2. g \in [SUBSET S -> Nat] /\ Good(0, g)
    BY <2>1
  <2> QED BY <2>2
<1>2. ASSUME NEW n \in Nat, n \in N PROVE n + 1 \in N
  <2>1. PICK g \in [SUBSET S -> Nat] : Good(n, g)
    BY <1>2
  <2> DEFINE h == [s \in SUBSET S |-> IF s \in Small(n) THEN g[s]
                                      ELSE IF s = {} THEN 0 ELSE f[AnyOf(s)] + g[s \ {AnyOf(s)}]]
  <2>2. ASSUME NEW s \in SUBSET S, s # {} PROVE AnyOf(s) \in S /\ f[AnyOf(s)] \in Nat /\ s \ {AnyOf(s)} \in SUBSET S
    BY <2>2, AnyOfIn DEF Counts
  <2>3. h \in [SUBSET S -> Nat]
    <3> SUFFICES ASSUME NEW s \in SUBSET S PROVE h[s] \in Nat
      BY DEF h
    <3>1. CASE s \in Small(n) \/ s = {}
      BY <3>1
    <3>2. CASE ~(s \in Small(n) \/ s = {})
      <4>1. f[AnyOf(s)] \in Nat /\ g[s \ {AnyOf(s)}] \in Nat
        BY <2>2, <3>2
      <4> QED BY <3>2, <4>1
    <3> QED BY <3>1, <3>2
  <2>4. ASSUME NEW s \in Small(n + 1), s # {} PROVE s \ {AnyOf(s)} \in Small(n)
    BY <2>4, AnyOfIn, OneLess DEF Counts
  <2>5. ASSUME NEW s \in Small(n + 1)
        PROVE  h[s] = IF s = {} THEN 0 ELSE f[AnyOf(s)] + h[s \ {AnyOf(s)}]
    <3>1. h[s] = IF s = {} THEN 0 ELSE f[AnyOf(s)] + g[s \ {AnyOf(s)}]
      BY <2>1
    <3>2. s # {} => h[s \ {AnyOf(s)}] = g[s \ {AnyOf(s)}]
      BY <2>4
    <3> QED BY <3>1, <3>2
  <2> HIDE DEF h
  <2> QED BY <2>3, <2>5
<1> HIDE DEF N
<1>3. Cardinality(S) \in N
  BY <1>1, <1>2, Induct, FS_CardinalityType DEF Counts
<1>4. PICK g \in [SUBSET S -> Nat] : Good(Cardinality(S), g)
  BY <1>3 DEF N
<1>5. \A s \in SUBSET S : s \in Small(Cardinality(S))
  BY FS_Subset DEF Counts
<1>6. Adds(f, S, g)
  BY <1>4, <1>5 DEF Adds
<1> QED BY <1>6 DEF Sums

(* Whichever element is taken first, the sum is the same.                  *)
LEMMA AnyOrder ==
  ASSUME NEW f, NEW S, Counts(f, S), NEW g \in Sums(f, S)
  PROVE  \A s \in SUBSET S : \A x \in s : g[s] = f[x] + g[s \ {x}]
<1> DEFINE N == {n \in Nat : \A s \in SUBSET S : Cardinality(s) <= n => \A x \in s : g[s] = f[x] + g[s \ {x}]}
<1>0. g \in [SUBSET S -> Nat] /\ Adds(f, S, g)
  BY DEF Sums
<1>1. 0 \in N
  <2> SUFFICES ASSUME NEW s \in SUBSET S, Cardinality(s) <= 0, NEW x \in s PROVE FALSE
    OBVIOUS
  <2>1. IsFiniteSet(s)
    BY FS_Subset DEF Counts
  <2> QED BY <2>1, FS_CardinalityType, FS_EmptySet
<1>2. ASSUME NEW n \in Nat, n \in N PROVE n + 1 \in N
  <2> SUFFICES ASSUME NEW s \in SUBSET S, Cardinality(s) <= n + 1, NEW x \in s
               PROVE  g[s] = f[x] + g[s \ {x}]
    OBVIOUS
  <2>1. PICK c \in s : c = AnyOf(s)
    BY AnyOfIn
  <2>2. g[s] = f[c] + g[s \ {c}]
    BY <1>0, <2>1 DEF Adds
  <2>3. CASE x = c
    BY <2>2, <2>3
  <2>4. CASE x # c
    <3>1. /\ s \ {c} \in SUBSET S /\ Cardinality(s \ {c}) <= n /\ x \in s \ {c}
          /\ s \ {x} \in SUBSET S /\ Cardinality(s \ {x}) <= n /\ c \in s \ {x}
      BY <2>4, OneLess DEF Counts
    <3>2. g[s \ {c}] = f[x] + g[(s \ {c}) \ {x}] /\ g[s \ {x}] = f[c] + g[(s \ {x}) \ {c}]
      BY <1>2, <3>1
    <3>3. (s \ {c}) \ {x} = (s \ {x}) \ {c} /\ (s \ {c}) \ {x} \in SUBSET S
      OBVIOUS
    <3>4. PICK r \in Nat : r = g[(s \ {c}) \ {x}] /\ r = g[(s \ {x}) \ {c}]
      BY <1>0, <3>3
    <3>5. PICK a \in Nat, b \in Nat : a = f[x] /\ b = f[c]
      BY DEF Counts
    <3>6. g[s] = b + (a + r) /\ g[s \ {x}] = b + r
      BY <2>2, <3>2, <3>4, <3>5
    <3> QED BY <3>5, <3>6
  <2> QED BY <2>3, <2>4
<1> HIDE DEF N
<1>3. Cardinality(S) \in N
  BY <1>1, <1>2, Induct, FS_CardinalityType DEF Counts
<1> QED BY <1>3, FS_Subset DEF N, Counts

(* A sum depends on the numbers that are added, and on nothing else.       *)
LEMMA SumsAgree ==
  ASSUME NEW f, NEW S, NEW g, Adds(f, S, g), NEW e, NEW T \in SUBSET S, NEW h, Adds(e, T, h),
         IsFiniteSet(S), \A x \in T : e[x] = f[x]
  PROVE  \A s \in SUBSET T : h[s] = g[s]
<1> DEFINE N == {n \in Nat : \A s \in SUBSET T : Cardinality(s) <= n => h[s] = g[s]}
<1>0. IsFiniteSet(T)
  BY FS_Subset
<1>1. 0 \in N
  <2> SUFFICES ASSUME NEW s \in SUBSET T, Cardinality(s) <= 0 PROVE h[s] = g[s]
    OBVIOUS
  <2>1. s = {}
    <3>1. IsFiniteSet(s)
      BY <1>0, FS_Subset
    <3> QED BY <3>1, FS_CardinalityType, FS_EmptySet
  <2> QED BY <1>0, <2>1 DEF Adds
<1>2. ASSUME NEW n \in Nat, n \in N PROVE n + 1 \in N
  <2>0. ASSUME NEW s \in SUBSET T, s = {} PROVE h[s] = g[s]
    BY <2>0 DEF Adds
  <2> SUFFICES ASSUME NEW s \in SUBSET T, Cardinality(s) <= n + 1, s # {} PROVE h[s] = g[s]
    BY <2>0
  <2>1. PICK c \in s : c = AnyOf(s)
    BY AnyOfIn
  <2>2. g[s] = f[c] + g[s \ {c}] /\ h[s] = e[c] + h[s \ {c}]
    BY <1>0, <2>1 DEF Adds
  <2>3. s \ {c} \in SUBSET T /\ Cardinality(s \ {c}) <= n
    BY <1>0, OneLess
  <2> QED BY <1>2, <2>2, <2>3
<1> HIDE DEF N
<1>3. Cardinality(T) \in N
  BY <1>0, <1>1, <1>2, Induct, FS_CardinalityType
<1> QED BY <1>0, <1>3, FS_Subset DEF N

LEMMA TotalIsSum ==
  ASSUME NEW f, NEW S, Counts(f, S)
  PROVE  \E g \in Sums(f, S) : Total(f, S) = g[S]
<1> DEFINE F(g) == [s \in SUBSET S |-> IF s = {} THEN 0
                                       ELSE LET x == CHOOSE y \in s : TRUE IN f[x] + g[s \ {x}]]
           iter == CHOOSE g : g = F(g)
<1>1. Total(f, S) = iter[S]
  BY DEF Total, MapThenSumSet, MapThenFoldSet
<1>2. PICK g \in Sums(f, S) : TRUE
  BY SumsExist
<1>3. g = F(g)
  BY <1>2 DEF Sums, Adds, AnyOf
<1> HIDE DEF F
<1>4. iter = F(iter)
  BY <1>3
<1> HIDE DEF iter
<1>5. \A s \in SUBSET S : iter[s] = IF s = {} THEN 0 ELSE f[AnyOf(s)] + iter[s \ {AnyOf(s)}]
  BY <1>4 DEF F, AnyOf
<1>6. Adds(f, S, iter) /\ Adds(f, S, g) /\ IsFiniteSet(S)
  BY <1>2, <1>5 DEF Adds, Counts, Sums
<1>7. \A s \in SUBSET S : iter[s] = g[s]
  BY <1>6, SumsAgree
<1> QED BY <1>1, <1>2, <1>7

(* What MapThenSumSet returns: a number; zero for nothing; each element    *)
(* adds its own.                                                           *)
LEMMA TotalIs ==
  ASSUME NEW f, NEW S, Counts(f, S)
  PROVE  /\ Total(f, S) \in Nat
         /\ S = {} => Total(f, S) = 0
         /\ \A x \in S : Total(f, S) = f[x] + Total(f, S \ {x})
<1>1. PICK g \in Sums(f, S) : Total(f, S) = g[S]
  BY TotalIsSum
<1>2. g \in [SUBSET S -> Nat] /\ Adds(f, S, g)
  BY DEF Sums
<1>3. ASSUME NEW x \in S PROVE Total(f, S) = f[x] + Total(f, S \ {x})
  <2>1. g[S] = f[x] + g[S \ {x}]
    BY AnyOrder
  <2>2. Counts(f, S \ {x})
    BY FS_RemoveElement DEF Counts
  <2>3. PICK h \in Sums(f, S \ {x}) : Total(f, S \ {x}) = h[S \ {x}]
    BY <2>2, TotalIsSum
  <2>4. h[S \ {x}] = g[S \ {x}]
    BY <1>2, <2>3, SumsAgree DEF Sums, Counts
  <2> QED BY <1>1, <2>1, <2>3, <2>4
<1>4. g[S] \in Nat /\ (S = {} => g[S] = 0)
  BY <1>2 DEF Adds
<1> QED BY <1>1, <1>3, <1>4

LEMMA TotalSame ==
  ASSUME NEW f, NEW e, NEW S, Counts(f, S), \A x \in S : e[x] = f[x]
  PROVE  Total(e, S) = Total(f, S)
<1>1. Counts(e, S)
  BY DEF Counts
<1>2. PICK g \in Sums(f, S), h \in Sums(e, S) : Total(f, S) = g[S] /\ Total(e, S) = h[S]
  BY <1>1, TotalIsSum
<1> QED BY <1>2, SumsAgree DEF Sums, Counts

-----------------------------------------------------------------------------
(* SysUsage: what a process has used.                                      *)

UsageTypes ==
  /\ usage \in [thread : [Threads -> Nat], live : SUBSET Threads, signal : Nat, children : Nat,
                cstime : Nat, rss : Nat, maxrss : Nat, cmaxrss : Nat]
  /\ spent \in [self : Nat, children : Nat, cstime : Nat, rss : Nat]

(* What the live threads have used and what the exited ones left is what   *)
(* was ever used; a thread that does not run has no count.                 *)
UsageInv ==
  /\ UsageTypes
  /\ 1 \in usage.live /\ \A t \in Threads \ usage.live : usage.thread[t] = 0
  /\ usage.signal + Total(usage.thread, usage.live) = spent.self
  /\ usage.children = spent.children /\ usage.cstime = spent.cstime
  /\ Max({usage.maxrss, usage.rss}) = spent.rss

LEMMA LiveCounts ==
  ASSUME UsageTypes, NEW ts \in SUBSET Threads
  PROVE  Counts(usage.thread, ts)
BY UsageAssumption, FS_Subset DEF UsageTypes, Counts

LEMMA AllZero ==
  ASSUME NEW f, NEW S, Counts(f, S), \A x \in S : f[x] = 0
  PROVE  Total(f, S) = 0
<1> DEFINE N == {n \in Nat : \A T \in SUBSET S : Cardinality(T) <= n => Total(f, T) = 0}
<1>0. ASSUME NEW T \in SUBSET S PROVE Counts(f, T) /\ Cardinality(T) \in Nat
  BY FS_Subset, FS_CardinalityType DEF Counts
<1>1. 0 \in N
  <2> SUFFICES ASSUME NEW T \in SUBSET S, Cardinality(T) <= 0 PROVE Total(f, T) = 0
    OBVIOUS
  <2>1. T = {}
    BY <1>0, FS_EmptySet DEF Counts
  <2> QED BY <1>0, <2>1, TotalIs
<1>2. ASSUME NEW n \in Nat, n \in N PROVE n + 1 \in N
  <2> SUFFICES ASSUME NEW T \in SUBSET S, Cardinality(T) <= n + 1 PROVE Total(f, T) = 0
    OBVIOUS
  <2>1. CASE T = {}
    BY <1>0, <2>1, TotalIs
  <2>2. CASE T # {}
    <3>1. PICK x \in T : TRUE
      BY <2>2
    <3>2. T \ {x} \in SUBSET S /\ Cardinality(T \ {x}) <= n
      BY OneLess DEF Counts
    <3>3. Total(f, T \ {x}) = 0 /\ f[x] = 0
      BY <1>2, <3>2
    <3>4. Total(f, T) = f[x] + Total(f, T \ {x})
      BY <1>0, TotalIs
    <3> QED BY <3>3, <3>4
  <2> QED BY <2>1, <2>2
<1> HIDE DEF N
<1>3. Cardinality(S) \in N
  BY <1>0, <1>1, <1>2, Induct
<1> QED BY <1>0, <1>3 DEF N

LEMMA InitUsage == UsageInit => UsageInv
<1> SUFFICES ASSUME UsageInit PROVE UsageInv
  OBVIOUS
<1>1. UsageTypes
  BY DEF UsageInit, UsageTypes
<1>2. Total(usage.thread, usage.live) = 0
  <2>1. Counts(usage.thread, usage.live) /\ \A t \in usage.live : usage.thread[t] = 0
    BY <1>1, LiveCounts DEF UsageInit
  <2> QED BY <2>1, AllZero
<1>3. Max({usage.maxrss, usage.rss}) = spent.rss
  BY MaxIs DEF UsageInit
<1> QED BY <1>1, <1>2, <1>3, UsageAssumption DEF UsageInit, UsageInv

(* A live thread runs: its own count and the total grow by one.            *)
LEMMA RunConserves ==
  ASSUME UsageInv, NEW t \in Threads, Run(t)
  PROVE  UsageInv'
<1>1. PICK rss \in usage.rss..MaxRss :
        /\ usage' = [usage EXCEPT !.thread[t] = @ + 1, !.rss = rss]
        /\ spent' = [spent EXCEPT !.self = @ + 1, !.rss = Max({@, rss})]
  BY DEF Run
<1>2. /\ UsageTypes /\ t \in usage.live /\ rss \in Nat /\ rss >= usage.rss /\ spent.rss \in Nat
      /\ usage.maxrss \in Nat /\ usage.rss \in Nat /\ usage.live \in SUBSET Threads
  BY UsageAssumption DEF UsageInv, UsageTypes, Run
<1>3. Max({spent.rss, rss}) = IF spent.rss >= rss THEN spent.rss ELSE rss
  BY <1>2, MaxIs
<1>4. UsageTypes'
  <2>1. usage.thread \in [Threads -> Nat] /\ usage.thread[t] + 1 \in Nat /\ spent.self + 1 \in Nat
    BY <1>2 DEF UsageTypes
  <2>2. [usage.thread EXCEPT ![t] = usage.thread[t] + 1] \in [Threads -> Nat]
    BY <2>1
  <2>3. PICK th \in [Threads -> Nat], self \in Nat, top \in Nat :
          usage' = [usage EXCEPT !.thread = th, !.rss = rss] /\ spent' = [spent EXCEPT !.self = self, !.rss = top]
    BY <1>1, <1>2, <1>3, <2>1, <2>2
  <2> QED BY <1>2, <2>3 DEF UsageTypes
<1>5. /\ usage'.live = usage.live /\ usage'.signal = usage.signal /\ usage'.children = usage.children /\ usage'.cstime = usage.cstime
      /\ usage'.thread = [usage.thread EXCEPT ![t] = @ + 1]
      /\ usage'.rss = rss /\ usage'.maxrss = usage.maxrss
      /\ spent'.self = spent.self + 1 /\ spent'.children = spent.children /\ spent'.cstime = spent.cstime
      /\ spent'.rss = Max({spent.rss, rss})
  BY <1>1, <1>2 DEF UsageTypes
<1>6. Total(usage.thread, usage.live) \in Nat /\ Total(usage'.thread, usage.live) = Total(usage.thread, usage.live) + 1
  <2> DEFINE rest == usage.live \ {t}
  <2>1. Counts(usage.thread, usage.live) /\ Counts(usage.thread, rest)
    BY <1>2, LiveCounts
  <2>2. Counts(usage'.thread, usage.live)
    BY <1>2, <1>5, <2>1 DEF Counts, UsageTypes
  <2>3. usage'.thread[t] = usage.thread[t] + 1 /\ usage.thread[t] \in Nat
    BY <1>2, <1>5 DEF UsageTypes
  <2>4. \A x \in rest : usage'.thread[x] = usage.thread[x]
    BY <1>2, <1>5 DEF UsageTypes
  <2> HIDE DEF rest
  <2>5. Total(usage'.thread, rest) = Total(usage.thread, rest) /\ Total(usage.thread, rest) \in Nat
    BY <2>1, <2>4, TotalSame, TotalIs
  <2>6. /\ Total(usage.thread, usage.live) = usage.thread[t] + Total(usage.thread, rest)
        /\ Total(usage'.thread, usage.live) = usage'.thread[t] + Total(usage'.thread, rest)
    BY <1>2, <2>1, <2>2, TotalIs DEF rest
  <2> QED BY <2>3, <2>5, <2>6
<1>7. Max({usage.maxrss, rss}) = Max({spent.rss, rss})
  <2>1. spent.rss = IF usage.maxrss >= usage.rss THEN usage.maxrss ELSE usage.rss
    BY <1>2, MaxIs DEF UsageInv
  <2>2. Max({usage.maxrss, rss}) = IF usage.maxrss >= rss THEN usage.maxrss ELSE rss
    BY <1>2, MaxIs
  <2> QED BY <1>2, <1>3, <2>1, <2>2
<1>8. \A x \in Threads \ usage'.live : usage'.thread[x] = 0
  BY <1>2, <1>5 DEF UsageInv, UsageTypes
<1> QED BY <1>2, <1>4, <1>5, <1>6, <1>7, <1>8 DEF UsageInv, UsageTypes

(* A thread exits: its count passes to the process.                        *)
LEMMA ThreadExitsConserves ==
  ASSUME UsageInv, NEW t \in Threads, ThreadExits(t)
  PROVE  UsageInv'
<1> DEFINE rest == usage.live \ {t}
<1>1. /\ UsageTypes /\ t \in usage.live /\ t # 1 /\ usage.live \in SUBSET Threads
      /\ usage' = [usage EXCEPT !.live = rest, !.signal = @ + usage.thread[t], !.thread[t] = 0]
      /\ spent' = spent
  BY DEF UsageInv, UsageTypes, ThreadExits
<1>2. /\ usage'.live = rest /\ usage'.signal = usage.signal + usage.thread[t]
      /\ usage'.children = usage.children /\ usage'.cstime = usage.cstime /\ usage'.thread = [usage.thread EXCEPT ![t] = 0]
      /\ usage'.rss = usage.rss /\ usage'.maxrss = usage.maxrss
  BY <1>1 DEF UsageTypes
<1>3. UsageTypes'
  <2>1. /\ usage.thread \in [Threads -> Nat] /\ usage.signal + usage.thread[t] \in Nat
        /\ rest \in SUBSET Threads
    BY <1>1 DEF UsageTypes
  <2>2. [usage.thread EXCEPT ![t] = 0] \in [Threads -> Nat]
    BY <2>1
  <2>3. PICK n \in Nat, live \in SUBSET Threads, th \in [Threads -> Nat] :
          n = usage.signal + usage.thread[t] /\ live = rest /\ th = [usage.thread EXCEPT ![t] = 0]
    BY <2>1, <2>2
  <2>4. usage' = [usage EXCEPT !.live = live, !.signal = n, !.thread = th]
    BY <1>1, <2>3 DEF UsageTypes
  <2> QED BY <1>1, <2>4 DEF UsageTypes
<1>4. /\ Counts(usage.thread, usage.live) /\ Counts(usage.thread, rest)
      /\ \A x \in rest : usage'.thread[x] = usage.thread[x]
  BY <1>1, <1>2, LiveCounts DEF UsageTypes
<1>5. \A x \in Threads \ rest : usage'.thread[x] = 0
  BY <1>1, <1>2 DEF UsageInv, UsageTypes
<1> HIDE DEF rest
<1>6. Total(usage'.thread, rest) = Total(usage.thread, rest) /\ Total(usage.thread, rest) \in Nat
  BY <1>4, TotalSame, TotalIs
<1>7. Total(usage.thread, usage.live) = usage.thread[t] + Total(usage.thread, rest)
  BY <1>1, <1>4, TotalIs DEF rest
<1>8. usage'.signal + Total(usage'.thread, rest) = spent.self
  BY <1>1, <1>2, <1>6, <1>7 DEF UsageInv, UsageTypes
<1>9. 1 \in rest
  BY <1>1 DEF UsageInv, rest
<1> QED BY <1>1, <1>2, <1>3, <1>5, <1>8, <1>9 DEF UsageInv

LEMMA ThreadStartsConserves ==
  ASSUME UsageInv, NEW t \in Threads, ThreadStarts(t)
  PROVE  UsageInv'
<1> DEFINE more == usage.live \cup {t}
<1>1. /\ UsageTypes /\ t \notin usage.live /\ usage.live \in SUBSET Threads /\ usage.thread[t] = 0
      /\ usage' = [usage EXCEPT !.live = more] /\ spent' = spent
  BY DEF UsageInv, UsageTypes, ThreadStarts
<1>2. /\ usage'.live = more /\ usage'.signal = usage.signal
      /\ usage'.children = usage.children /\ usage'.cstime = usage.cstime /\ usage'.thread = usage.thread
      /\ usage'.rss = usage.rss /\ usage'.maxrss = usage.maxrss
  BY <1>1 DEF UsageTypes
<1>3. UsageTypes'
  BY <1>1 DEF UsageTypes
<1>4. Counts(usage.thread, more) /\ more \ {t} = usage.live /\ Counts(usage.thread, usage.live)
  BY <1>1, LiveCounts
<1>5. Total(usage.thread, more) = usage.thread[t] + Total(usage.thread, usage.live)
  <2>1. t \in more
    OBVIOUS
  <2> HIDE DEF more
  <2> QED BY <1>4, <2>1, TotalIs
<1>6. Total(usage.thread, usage.live) \in Nat
  BY <1>4, TotalIs
<1>7. Total(usage'.thread, usage'.live) = Total(usage.thread, usage.live)
  <2> HIDE DEF more
  <2> QED BY <1>1, <1>2, <1>5, <1>6
<1>8. 1 \in usage'.live /\ \A x \in Threads \ usage'.live : usage'.thread[x] = 0
  BY <1>1, <1>2 DEF UsageInv
<1> HIDE DEF more
<1> QED BY <1>1, <1>2, <1>3, <1>7, <1>8 DEF UsageInv

LEMMA ExecConserves == ASSUME UsageInv, Exec PROVE UsageInv'
<1>1. /\ usage' = [usage EXCEPT !.maxrss = Max({@, usage.rss}), !.rss = 0] /\ spent' = spent
      /\ UsageTypes /\ usage.maxrss \in Nat /\ usage.rss \in Nat
  BY DEF UsageInv, UsageTypes, Exec
<1>2. Max({usage.maxrss, usage.rss}) = spent.rss /\ spent.rss \in Nat
  BY DEF UsageInv, UsageTypes
<1>3. /\ usage'.live = usage.live /\ usage'.signal = usage.signal /\ usage'.children = usage.children /\ usage'.cstime = usage.cstime
      /\ usage'.thread = usage.thread /\ usage'.rss = 0 /\ usage'.maxrss = spent.rss
  BY <1>1, <1>2 DEF UsageTypes
<1>4. UsageTypes'
  BY <1>1, <1>2 DEF UsageTypes
<1>5. Max({spent.rss, 0}) = spent.rss
  BY <1>2, MaxIs
<1> QED BY <1>1, <1>3, <1>4, <1>5 DEF UsageInv

LEMMA ChildReapedConserves ==
  ASSUME UsageInv, NEW n \in Nat, NEW s \in Nat, NEW rss \in Nat, ChildReaped(n, s, rss)
  PROVE  UsageInv'
<1>1. /\ usage' = [usage EXCEPT !.children = @ + n, !.cstime = @ + s, !.cmaxrss = Max({@, rss})]
      /\ spent' = [spent EXCEPT !.children = @ + n, !.cstime = @ + s]
      /\ UsageTypes /\ usage.cmaxrss \in Nat
  BY DEF UsageInv, UsageTypes, ChildReaped
<1>2. Max({usage.cmaxrss, rss}) \in Nat
  <2>1. usage.cmaxrss \in Int /\ usage.cmaxrss \in Nat /\ rss \in Int
    BY <1>1
  <2> QED BY <2>1, MaxIs
<1>3. UsageTypes'
  <2>1. usage.children + n \in Nat /\ spent.children + n \in Nat /\ usage.cstime + s \in Nat /\ spent.cstime + s \in Nat
    BY <1>1 DEF UsageTypes
  <2>2. PICK c \in Nat, top \in Nat, d \in Nat, e \in Nat, f \in Nat :
          /\ usage' = [usage EXCEPT !.children = c, !.cstime = e, !.cmaxrss = top]
          /\ spent' = [spent EXCEPT !.children = d, !.cstime = f]
    BY <1>1, <1>2, <2>1
  <2> QED BY <1>1, <2>2 DEF UsageTypes
<1>4. /\ usage'.live = usage.live /\ usage'.signal = usage.signal /\ usage'.children = usage.children + n
      /\ usage'.thread = usage.thread /\ usage'.rss = usage.rss /\ usage'.maxrss = usage.maxrss
      /\ spent'.self = spent.self /\ spent'.children = spent.children + n /\ spent'.rss = spent.rss
      /\ usage'.cstime = usage.cstime + s /\ spent'.cstime = spent.cstime + s
  BY <1>1 DEF UsageTypes
<1> QED BY <1>3, <1>4 DEF UsageInv

LEMMA UsageStep == UsageInv /\ [UsageNext]_usageVars => UsageInv'
<1> SUFFICES ASSUME UsageInv, [UsageNext]_usageVars PROVE UsageInv'
  OBVIOUS
<1>1. CASE UNCHANGED <<usage, spent>>
  BY <1>1 DEF UsageInv, UsageTypes
<1>2. ASSUME NEW n \in 0..MaxChildUse, NEW s \in 0..MaxChildUse, NEW rss \in 0..MaxRss, ChildReaped(n, s, rss)
      PROVE  UsageInv'
  BY <1>2, ChildReapedConserves, UsageAssumption
<1>3. \/ UNCHANGED <<usage, spent>> \/ Exec
      \/ \E t \in Threads : Run(t) \/ ThreadExits(t) \/ ThreadStarts(t)
      \/ \E n \in 0..MaxChildUse, s \in 0..MaxChildUse, rss \in 0..MaxRss : ChildReaped(n, s, rss)
  BY DEF UsageNext, usageVars, getrusage, do_sys_times, Asks, accumulate_thread_rusage, unlock_task_sighand,
         ru_maxrss, tms_cutime, tms_cstime, Returns, RusageWhos
<1> QED BY <1>1, <1>2, <1>3, RunConserves, ThreadExitsConserves, ThreadStartsConserves, ExecConserves

(* A sample in progress: what it has summed and what it has yet to add     *)
(* make what was used at some moment since the call began.                 *)
SpentTypes == [self : Nat, children : Nat, cstime : Nat, rss : Nat]
NotMore(a, b) == a.self <= b.self /\ a.children <= b.children /\ a.cstime <= b.cstime /\ a.rss <= b.rss

SampleTypes ==
  sample \in [pc : {"idle", "sums", "out", "cstime", "done"}, who : RusageWhos \cup {"times"}, me : Threads,
              left : SUBSET Threads, n : Nat, c : Nat, cstime : Nat, rss : Nat, from : SpentTypes, at : SpentTypes]

AddsThreads == {"RUSAGE_SELF", "RUSAGE_BOTH", "times"}
Carried == IF sample.who = "RUSAGE_BOTH" THEN sample.from.children ELSE 0
InRange(n) == sample.from.self + Carried <= n /\ n <= spent.self + Carried

SumsInv ==
  sample.pc = "sums" =>
    /\ sample.who \in AddsThreads => sample.left \subseteq usage.live /\ InRange(sample.n + Total(usage.thread, sample.left))
    /\ sample.who = "RUSAGE_THREAD" =>
         /\ sample.left \subseteq {sample.me}
         /\ sample.n + Total(usage.thread, sample.left) <= usage.thread[sample.me]
    /\ sample.who = "RUSAGE_CHILDREN" => sample.left = {}

SummedInv ==
  sample.pc \in {"out", "cstime", "done"} =>
    /\ sample.who \in AddsThreads => InRange(sample.n)
    /\ sample.who = "RUSAGE_THREAD" => sample.n <= usage.thread[sample.me]

ChildrenInv ==
  /\ sample.who = "RUSAGE_CHILDREN" => sample.n = sample.from.children
  /\ sample.who \in {"RUSAGE_CHILDREN", "RUSAGE_BOTH"} => sample.cstime = sample.from.cstime

RssInv ==
  /\ sample.pc \in {"sums", "out"} =>
       /\ sample.who \in {"RUSAGE_SELF", "RUSAGE_THREAD"} => sample.rss = usage.maxrss
       /\ sample.who = "RUSAGE_BOTH" => sample.rss >= usage.maxrss
  /\ sample.pc = "done" /\ sample.who # "times" => MaxrssRight

CallInv ==
  /\ sample.pc = "idle" => sample.who = "times" /\ sample.me = 1
  /\ sample.pc = "out" => sample.who # "times"
  /\ sample.pc = "cstime" => sample.who = "times"
  /\ sample.who = "times" /\ sample.pc \in {"cstime", "done"} => sample.c = sample.at.children
  /\ sample.who = "times" /\ sample.pc = "done" => sample.at.cstime <= sample.cstime /\ sample.cstime <= spent.cstime

SampleInv ==
  /\ SampleTypes /\ sample.me \in usage.live
  /\ NotMore(sample.from, sample.at) /\ NotMore(sample.at, spent)
  /\ SumsInv /\ SummedInv /\ ChildrenInv /\ RssInv /\ CallInv

LEMMA SampleFields ==
  ASSUME UsageTypes, SampleTypes
  PROVE  /\ sample.n \in Nat /\ sample.c \in Nat /\ sample.cstime \in Nat /\ sample.rss \in Nat
         /\ sample.me \in Threads /\ sample.left \in SUBSET Threads /\ sample.who \in RusageWhos \cup {"times"}
         /\ sample.from.self \in Nat /\ sample.from.children \in Nat /\ sample.from.cstime \in Nat /\ sample.from.rss \in Nat
         /\ sample.at.self \in Nat /\ sample.at.children \in Nat /\ sample.at.cstime \in Nat /\ sample.at.rss \in Nat
         /\ spent.self \in Nat /\ spent.children \in Nat /\ spent.cstime \in Nat /\ spent.rss \in Nat
         /\ Carried \in Nat /\ \A t \in Threads : usage.thread[t] \in Nat
         /\ \A S \in SUBSET Threads : Counts(usage.thread, S) /\ Total(usage.thread, S) \in Nat
<1>1. sample.from \in SpentTypes /\ sample.at \in SpentTypes
  BY DEF SampleTypes
<1>2. sample.from.children \in Nat
  BY <1>1 DEF SpentTypes
<1>3. \A S \in SUBSET Threads : Counts(usage.thread, S) /\ Total(usage.thread, S) \in Nat
  BY LiveCounts, TotalIs
<1> QED BY <1>1, <1>2, <1>3 DEF SampleTypes, UsageTypes, SpentTypes, Carried

(* A step that is not the call's own, nor an execve, and that keeps what   *)
(* the loop relies on, keeps the rest: all that is used only grows.        *)
LEMMA SampleGoesOn ==
  ASSUME UsageInv, SampleInv, UsageInv', sample' = sample, NotMore(spent, spent'),
         sample.me \in usage'.live, usage.thread[sample.me] <= usage'.thread[sample.me],
         sample.pc \in {"sums", "out"} => usage'.maxrss = usage.maxrss,
         SumsInv'
  PROVE  SampleInv'
<1>1. UsageTypes /\ UsageTypes' /\ SampleTypes
  BY DEF UsageInv, SampleInv
<1>2. SampleTypes'
  BY <1>1 DEF SampleTypes
<1>3. NotMore(sample.from, sample.at)' /\ NotMore(sample.at, spent)'
  BY <1>1, <1>2, SampleFields DEF SampleInv, NotMore, UsageTypes
<1>4. \A n \in Nat : InRange(n) => InRange(n)'
  BY <1>1, SampleFields DEF InRange, Carried, NotMore, UsageTypes
<1>5. SummedInv'
  <2> SUFFICES ASSUME sample.pc \in {"out", "cstime", "done"}
               PROVE  /\ sample.who \in AddsThreads => InRange(sample.n)'
                      /\ sample.who = "RUSAGE_THREAD" => sample.n <= usage'.thread[sample.me]
    BY DEF SummedInv, AddsThreads
  <2>1. sample.who \in AddsThreads => InRange(sample.n)'
    BY <1>1, <1>4, SampleFields DEF SampleInv, SummedInv
  <2>2. sample.who = "RUSAGE_THREAD" => sample.n <= usage'.thread[sample.me]
    <3>1. usage'.thread[sample.me] \in Nat /\ usage.thread[sample.me] \in Nat /\ sample.n \in Nat
      BY <1>1, SampleFields DEF UsageTypes, SampleTypes
    <3> QED BY <3>1 DEF SampleInv, SummedInv
  <2> QED BY <2>1, <2>2
<1>6. ChildrenInv'
  BY DEF SampleInv, ChildrenInv
<1>7. RssInv'
  <2>1. MaxrssRight => MaxrssRight'
    BY <1>1, <1>2, SampleFields DEF MaxrssRight, NotMore, KbPerPage, UsageTypes
  <2> QED BY <2>1 DEF SampleInv, RssInv
<1>8. CallInv'
  BY <1>1, SampleFields DEF SampleInv, CallInv, NotMore, UsageTypes
<1> QED BY <1>2, <1>3, <1>5, <1>6, <1>7, <1>8 DEF SampleInv

(* One thread counts one more.                                             *)
LEMMA TotalMore ==
  ASSUME UsageTypes, UsageTypes', NEW t \in Threads, usage'.thread = [usage.thread EXCEPT ![t] = @ + 1],
         NEW S \in SUBSET Threads
  PROVE  Total(usage'.thread, S) = Total(usage.thread, S) + (IF t \in S THEN 1 ELSE 0)
<1>1. /\ Counts(usage.thread, S) /\ Counts(usage.thread, S \ {t}) /\ usage.thread[t] \in Nat
      /\ Counts(usage'.thread, S)
  BY LiveCounts DEF UsageTypes, Counts
<1>2. Total(usage.thread, S) \in Nat /\ Total(usage.thread, S \ {t}) \in Nat
  BY <1>1, TotalIs
<1>3. CASE t \in S
  <2> DEFINE rest == S \ {t}
  <2>1. \A x \in rest : usage'.thread[x] = usage.thread[x]
    BY DEF UsageTypes
  <2>2. Counts(usage.thread, rest) /\ Total(usage.thread, rest) \in Nat
    BY <1>1, <1>2
  <2> HIDE DEF rest
  <2>3. Total(usage.thread, S) = usage.thread[t] + Total(usage.thread, rest)
    BY <1>1, <1>3, TotalIs DEF rest
  <2>6. Total(usage'.thread, S) = usage'.thread[t] + Total(usage'.thread, rest)
    <3>1. PICK th : th = usage'.thread
      OBVIOUS
    <3>2. Counts(th, S)
      BY <1>1, <3>1
    <3>3. Total(th, S) = th[t] + Total(th, S \ {t})
      BY <1>3, <3>2, TotalIs
    <3> QED BY <3>1, <3>3 DEF rest
  <2>4. Total(usage'.thread, rest) = Total(usage.thread, rest)
    BY <2>1, <2>2, TotalSame
  <2>5. usage'.thread[t] = usage.thread[t] + 1
    BY DEF UsageTypes
  <2> QED BY <1>1, <1>2, <1>3, <2>2, <2>3, <2>4, <2>5, <2>6
<1>4. CASE t \notin S
  <2>1. \A x \in S : usage'.thread[x] = usage.thread[x]
    BY <1>4 DEF UsageTypes
  <2>2. Total(usage'.thread, S) = Total(usage.thread, S)
    BY <1>1, <2>1, TotalSame
  <2> QED BY <1>2, <1>4, <2>2
<1> QED BY <1>3, <1>4

LEMMA RunSampled ==
  ASSUME UsageInv, SampleInv, UsageInv', NEW t \in Threads, Run(t)
  PROVE  SampleInv'
<1>1. /\ UsageTypes /\ UsageTypes' /\ SampleTypes /\ sample' = sample /\ t \in usage.live
      /\ usage'.thread = [usage.thread EXCEPT ![t] = @ + 1] /\ usage'.live = usage.live
      /\ usage'.maxrss = usage.maxrss
      /\ spent'.self = spent.self + 1 /\ spent'.children = spent.children /\ spent'.cstime = spent.cstime
  BY DEF UsageInv, SampleInv, Run, UsageTypes
<1>2. spent.rss <= spent'.rss
  <2>1. PICK rss \in usage.rss..MaxRss : spent'.rss = Max({spent.rss, rss})
    BY <1>1 DEF Run, UsageTypes
  <2>2. rss \in Int /\ spent.rss \in Int
    BY <1>1, UsageAssumption DEF UsageTypes
  <2> QED BY <2>1, <2>2, MaxIs
<1>3. NotMore(spent, spent')
  BY <1>1, <1>2, SampleFields DEF NotMore
<1>4. /\ usage.thread[sample.me] <= usage'.thread[sample.me] /\ sample.me \in Threads
      /\ t = sample.me => usage'.thread[sample.me] = usage.thread[sample.me] + 1
  BY <1>1, SampleFields DEF UsageTypes
<1>5. ASSUME NEW S \in SUBSET Threads
      PROVE  Total(usage'.thread, S) = Total(usage.thread, S) + (IF t \in S THEN 1 ELSE 0)
  BY <1>1, <1>5, TotalMore
<1>6. SumsInv'
  <2> SUFFICES ASSUME sample.pc = "sums" PROVE SumsInv'
    BY <1>1 DEF SumsInv
  <2> DEFINE T == Total(usage.thread, sample.left)
             U == Total(usage'.thread, sample.left)
  <2>1. /\ T \in Nat /\ U = T + (IF t \in sample.left THEN 1 ELSE 0) /\ U <= T + 1 /\ T <= U
    BY <1>1, <1>5, SampleFields
  <2> HIDE DEF T, U
  <2>2. ASSUME sample.who \in AddsThreads
        PROVE  sample.left \subseteq usage'.live /\ InRange(sample.n + Total(usage.thread, sample.left))'
    <3>1. sample.left \subseteq usage.live /\ InRange(sample.n + T)
      BY <2>2 DEF SampleInv, SumsInv, T
    <3>2. PICK u \in Nat : u = U
      BY <2>1
    <3>3. InRange(sample.n + u)'
      <4>1. /\ T \in Nat /\ u \in Nat /\ T <= u /\ u <= T + 1 /\ sample.n \in Nat /\ spent.self \in Nat
            /\ sample.from.self + Carried \in Nat /\ Carried \in Nat
        BY <1>1, <2>1, <3>2, SampleFields
      <4>2. sample.from.self + Carried <= sample.n + u /\ sample.n + u <= (spent.self + 1) + Carried
        BY <3>1, <4>1 DEF InRange
      <4>3. Carried' = Carried
        BY <1>1 DEF Carried
      <4>4. sample' = sample /\ spent'.self = spent.self + 1
        BY <1>1
      <4> QED BY <4>2, <4>3, <4>4 DEF InRange
    <3>4. sample'.n + Total(usage'.thread, sample'.left) = sample.n + u
      BY <1>1, <3>2 DEF U
    <3>5. sample' = sample /\ usage'.live = usage.live
      BY <1>1
    <3> QED BY <3>1, <3>3, <3>4, <3>5 DEF InRange
  <2>3. ASSUME sample.who = "RUSAGE_THREAD"
        PROVE  sample.left \subseteq {sample.me} /\ sample.n + U <= usage'.thread[sample.me]
    <3>1. sample.left \subseteq {sample.me} /\ sample.n + T <= usage.thread[sample.me]
      BY <2>3 DEF SampleInv, SumsInv, T
    <3>2. usage.thread[sample.me] \in Nat /\ usage'.thread[sample.me] \in Nat /\ sample.n \in Nat
      BY <1>1, <1>4, SampleFields DEF UsageTypes
    <3>3. CASE t \in sample.left
      BY <1>4, <2>1, <3>1, <3>2, <3>3
    <3>4. CASE t \notin sample.left
      BY <1>4, <2>1, <3>1, <3>2, <3>4
    <3> QED BY <3>3, <3>4
  <2>4. sample.who = "RUSAGE_CHILDREN" => sample.left = {}
    BY DEF SampleInv, SumsInv
  <2>5. sample' = sample
    BY <1>1
  <2> QED BY <2>2, <2>3, <2>4, <2>5 DEF SumsInv, U
<1>7. sample.me \in usage'.live
  BY <1>1 DEF SampleInv
<1> QED BY <1>1, <1>3, <1>4, <1>6, <1>7, SampleGoesOn

(* A thread exits or starts: times begins its sum again, or has one more   *)
(* thread to come to.                                                      *)
LEMMA ThreadExitsSampled ==
  ASSUME UsageInv, SampleInv, UsageInv', NEW t \in Threads, ThreadExits(t)
  PROVE  SampleInv'
<1>1. /\ UsageTypes /\ UsageTypes' /\ SampleTypes /\ t \in usage.live /\ t # 1 /\ spent' = spent
      /\ usage'.thread = [usage.thread EXCEPT ![t] = 0] /\ usage'.live = usage.live \ {t}
      /\ usage'.maxrss = usage.maxrss /\ (sample.pc = "idle" \/ t # sample.me) /\ ~Locked
      /\ sample' = IF TimesAdds THEN [sample EXCEPT !.n = usage'.signal, !.left = usage'.live] ELSE sample
  BY DEF UsageInv, SampleInv, ThreadExits, UsageTypes
<1>2. NotMore(spent, spent')
  BY <1>1, SampleFields DEF NotMore
<1>3. CASE TimesAdds
  <2>1. /\ sample' = [sample EXCEPT !.n = usage'.signal, !.left = usage'.live]
        /\ sample.pc = "sums" /\ sample.who = "times" /\ t # sample.me
    BY <1>1, <1>3 DEF TimesAdds
  <2>2. /\ sample'.pc = "sums" /\ sample'.who = "times" /\ sample'.me = sample.me /\ sample'.from = sample.from
        /\ sample'.at = sample.at /\ sample'.n = usage'.signal /\ sample'.left = usage'.live
    BY <1>1, <2>1 DEF SampleTypes
  <2>3. usage'.signal \in Nat /\ usage'.live \in SUBSET Threads
    BY <1>1 DEF UsageTypes
  <2>4. SampleTypes'
    BY <1>1, <2>1, <2>3 DEF SampleTypes
  <2>5. sample.me \in usage'.live
    BY <1>1, <2>1 DEF SampleInv
  <2>6. InRange(sample.n + Total(usage.thread, sample.left))'
    <3>1. sample'.n + Total(usage'.thread, sample'.left) = spent.self
      BY <1>1, <2>2 DEF UsageInv
    <3>2. sample.from.self <= spent.self /\ sample.from.self \in Nat /\ spent.self \in Nat
      BY <1>1, SampleFields DEF SampleInv, NotMore
    <3>3. Carried' = 0
      BY <2>2 DEF Carried
    <3> QED BY <1>1, <2>2, <3>1, <3>2, <3>3 DEF InRange
  <2>7. SumsInv'
    BY <2>2, <2>6 DEF SumsInv, AddsThreads
  <2>8. SummedInv' /\ ChildrenInv' /\ RssInv' /\ CallInv'
    BY <2>2 DEF SummedInv, ChildrenInv, RssInv, CallInv
  <2>9. NotMore(sample.from, sample.at)' /\ NotMore(sample.at, spent)'
    BY <1>1, <2>2 DEF SampleInv, NotMore
  <2> QED BY <2>2, <2>4, <2>5, <2>7, <2>8, <2>9 DEF SampleInv
<1>4. CASE ~TimesAdds
  <2>1. sample' = sample
    BY <1>1, <1>4
  <2>2. sample.me \in usage'.live /\ sample.me # t
    <3>1. sample.me # t
      BY <1>1 DEF SampleInv, CallInv
    <3> QED BY <1>1, <3>1 DEF SampleInv
  <2>3. usage.thread[sample.me] <= usage'.thread[sample.me]
    BY <1>1, <2>2, SampleFields
  <2>4. SumsInv'
    <3> SUFFICES ASSUME sample.pc = "sums" PROVE SumsInv'
      BY <2>1 DEF SumsInv
    <3>1. sample.who = "RUSAGE_THREAD"
      BY <1>1, <1>4 DEF Locked, TimesAdds
    <3>2. sample.left \subseteq {sample.me} /\ sample.n + Total(usage.thread, sample.left) <= usage.thread[sample.me]
      BY <3>1 DEF SampleInv, SumsInv
    <3>3. \A x \in sample.left : usage'.thread[x] = usage.thread[x]
      BY <1>1, <2>2, <3>2, SampleFields DEF UsageTypes
    <3>4. Total(usage'.thread, sample.left) = Total(usage.thread, sample.left)
      <4>1. Counts(usage.thread, sample.left)
        BY <1>1, SampleFields
      <4> QED BY <3>3, <4>1, TotalSame
    <3>5. usage'.thread[sample.me] = usage.thread[sample.me]
      BY <1>1, <2>2, SampleFields DEF UsageTypes
    <3> QED BY <2>1, <3>1, <3>2, <3>4, <3>5 DEF SumsInv, AddsThreads
  <2> QED BY <1>1, <1>2, <2>1, <2>2, <2>3, <2>4, SampleGoesOn
<1> QED BY <1>3, <1>4

LEMMA ThreadStartsSampled ==
  ASSUME UsageInv, SampleInv, UsageInv', NEW t \in Threads, ThreadStarts(t)
  PROVE  SampleInv'
<1>1. /\ UsageTypes /\ UsageTypes' /\ SampleTypes /\ t \notin usage.live /\ spent' = spent
      /\ usage'.thread = usage.thread /\ usage'.live = usage.live \cup {t} /\ usage.thread[t] = 0
      /\ usage'.maxrss = usage.maxrss /\ ~Locked
      /\ sample' = IF TimesAdds THEN [sample EXCEPT !.left = @ \cup {t}] ELSE sample
  BY DEF UsageInv, SampleInv, ThreadStarts, UsageTypes
<1>2. NotMore(spent, spent')
  BY <1>1, SampleFields DEF NotMore
<1>3. CASE TimesAdds
  <2>1. /\ sample' = [sample EXCEPT !.left = @ \cup {t}]
        /\ sample.pc = "sums" /\ sample.who = "times" /\ sample.left \subseteq usage.live
        /\ InRange(sample.n + Total(usage.thread, sample.left))
    BY <1>1, <1>3 DEF TimesAdds, SampleInv, SumsInv, AddsThreads
  <2>2. /\ sample'.pc = "sums" /\ sample'.who = "times" /\ sample'.me = sample.me /\ sample'.from = sample.from
        /\ sample'.at = sample.at /\ sample'.n = sample.n /\ sample'.left = sample.left \cup {t}
    BY <1>1, <2>1 DEF SampleTypes
  <2>4. SampleTypes'
    <3>1. PICK more \in SUBSET Threads : more = sample.left \cup {t}
      BY <1>1, SampleFields
    <3> QED BY <1>1, <2>1, <3>1 DEF SampleTypes
  <2>5. sample.me \in usage'.live
    BY <1>1 DEF SampleInv
  <2>6. Total(usage.thread, sample.left \cup {t}) = Total(usage.thread, sample.left)
    <3>1. PICK more \in SUBSET Threads : more = sample.left \cup {t}
      BY <1>1, SampleFields
    <3>2. t \in more /\ more \ {t} = sample.left
      BY <1>1, <2>1, <3>1
    <3>3. Total(usage.thread, more) = usage.thread[t] + Total(usage.thread, sample.left)
      BY <1>1, <3>2, SampleFields, TotalIs
    <3>4. Total(usage.thread, sample.left) \in Nat
      BY <1>1, SampleFields
    <3> QED BY <1>1, <3>1, <3>3, <3>4
  <2>7. SumsInv'
    <3>1. InRange(sample.n + Total(usage.thread, sample.left))'
      <4>1. sample'.n + Total(usage'.thread, sample'.left) = sample.n + Total(usage.thread, sample.left)
        BY <1>1, <2>2, <2>6
      <4>2. Carried' = Carried
        BY <2>1, <2>2 DEF Carried
      <4> QED BY <1>1, <2>1, <2>2, <4>1, <4>2 DEF InRange
    <3>2. sample'.left \subseteq usage'.live
      BY <1>1, <2>1, <2>2
    <3> QED BY <2>2, <3>1, <3>2 DEF SumsInv, AddsThreads
  <2>8. SummedInv' /\ ChildrenInv' /\ RssInv' /\ CallInv'
    BY <2>2 DEF SummedInv, ChildrenInv, RssInv, CallInv
  <2>9. NotMore(sample.from, sample.at)' /\ NotMore(sample.at, spent)'
    BY <1>1, <2>2 DEF SampleInv, NotMore
  <2> QED BY <2>2, <2>4, <2>5, <2>7, <2>8, <2>9 DEF SampleInv
<1>4. CASE ~TimesAdds
  <2>1. sample' = sample /\ sample.me \in usage'.live
    BY <1>1, <1>4 DEF SampleInv
  <2>2. usage.thread[sample.me] <= usage'.thread[sample.me]
    BY <1>1, SampleFields
  <2>3. SumsInv'
    <3> SUFFICES ASSUME sample.pc = "sums" PROVE SumsInv'
      BY <2>1 DEF SumsInv
    <3>1. sample.who = "RUSAGE_THREAD"
      BY <1>1, <1>4 DEF Locked, TimesAdds
    <3> QED BY <1>1, <2>1, <3>1 DEF SampleInv, SumsInv, AddsThreads
  <2> QED BY <1>1, <1>2, <2>1, <2>2, <2>3, SampleGoesOn
<1> QED BY <1>3, <1>4

LEMMA ChildReapedSampled ==
  ASSUME UsageInv, SampleInv, UsageInv', NEW n \in Nat, NEW s \in Nat, NEW rss \in Nat, ChildReaped(n, s, rss)
  PROVE  SampleInv'
<1>1. /\ UsageTypes /\ UsageTypes' /\ SampleTypes /\ sample' = sample /\ ~Locked
      /\ usage'.thread = usage.thread /\ usage'.live = usage.live /\ usage'.maxrss = usage.maxrss
      /\ spent'.self = spent.self /\ spent'.children = spent.children + n /\ spent'.cstime = spent.cstime + s
      /\ spent'.rss = spent.rss
  BY DEF UsageInv, SampleInv, ChildReaped, UsageTypes
<1>2. NotMore(spent, spent')
  BY <1>1, SampleFields DEF NotMore
<1>3. SumsInv'
  BY <1>1 DEF SampleInv, SumsInv, InRange, Carried
<1>4. usage.thread[sample.me] <= usage'.thread[sample.me] /\ sample.me \in usage'.live
  BY <1>1, SampleFields DEF SampleInv
<1> QED BY <1>1, <1>2, <1>3, <1>4, SampleGoesOn

LEMMA ExecSampled ==
  ASSUME UsageInv, SampleInv, UsageInv', Exec
  PROVE  SampleInv'
<1>1. /\ UsageTypes /\ SampleTypes /\ sample' = sample /\ spent' = spent /\ sample.pc = "idle"
      /\ usage'.thread = usage.thread /\ usage'.live = usage.live
  BY DEF UsageInv, SampleInv, Exec, UsageTypes
<1>2. NotMore(spent, spent')
  BY <1>1, SampleFields DEF NotMore
<1>3. usage.thread[sample.me] <= usage'.thread[sample.me] /\ sample.me \in usage'.live
  BY <1>1, SampleFields DEF SampleInv
<1>4. SumsInv'
  BY <1>1 DEF SumsInv
<1> QED BY <1>1, <1>2, <1>3, <1>4, SampleGoesOn

(* A call begins.                                                          *)
LEMMA CallBegins ==
  ASSUME UsageInv, SampleInv, NEW who \in RusageWhos \cup {"times"}, NEW me \in Threads, NEW threads \in SUBSET Threads,
         NEW children \in Nat, NEW exited \in Nat, NEW cstime \in Nat, NEW rss \in Nat,
         Asks(who, me, threads, children, exited, cstime, rss)
  PROVE  /\ SampleTypes' /\ sample'.me \in usage'.live /\ usage' = usage /\ spent' = spent
         /\ NotMore(sample.from, sample.at)' /\ NotMore(sample.at, spent)' /\ SummedInv' /\ CallInv'
         /\ sample'.pc = "sums" /\ sample'.who = who /\ sample'.me = me /\ sample'.left = threads
         /\ sample'.n = children + exited /\ sample'.cstime = cstime /\ sample'.rss = rss /\ sample'.from = spent
<1>1. /\ UsageTypes /\ spent \in SpentTypes /\ me \in usage.live /\ usage' = usage /\ spent' = spent
      /\ sample' = [pc |-> "sums", who |-> who, me |-> me, left |-> threads, n |-> children + exited, c |-> 0,
                    cstime |-> cstime, rss |-> rss, from |-> spent, at |-> spent]
  BY DEF UsageInv, UsageTypes, SpentTypes, Asks, NoSample
<1>2. PICK n \in Nat : n = children + exited
  OBVIOUS
<1>3. SampleTypes'
  BY <1>1, <1>2 DEF SampleTypes
<1>4. NotMore(sample.from, sample.at)' /\ NotMore(sample.at, spent)'
  BY <1>1 DEF NotMore, SpentTypes
<1> QED BY <1>1, <1>3, <1>4 DEF SummedInv, CallInv

LEMMA GetrusageSampled ==
  ASSUME UsageInv, SampleInv, NEW who \in RusageWhos, NEW me \in Threads, getrusage(who, me)
  PROVE  SampleInv'
<1>1. /\ UsageTypes /\ usage.live \in SUBSET Threads /\ usage.signal \in Nat /\ usage.children \in Nat
      /\ usage.cstime \in Nat /\ usage.maxrss \in Nat /\ usage.cmaxrss \in Nat
      /\ usage.children = spent.children /\ usage.cstime = spent.cstime
      /\ usage.signal + Total(usage.thread, usage.live) = spent.self
      /\ spent.self \in Nat /\ spent.children \in Nat /\ Total(usage.thread, usage.live) \in Nat
  BY LiveCounts, TotalIs DEF UsageInv, UsageTypes
<1>2. {me} \in SUBSET Threads /\ {} \in SUBSET Threads /\ me \in Threads
  OBVIOUS
<1>3. CASE who = "RUSAGE_THREAD"
  <2>1. Asks(who, me, {me}, 0, 0, 0, usage.maxrss)
    BY <1>3 DEF getrusage
  <2>2. /\ SampleTypes' /\ sample'.me \in usage'.live /\ usage' = usage /\ spent' = spent
        /\ NotMore(sample.from, sample.at)' /\ NotMore(sample.at, spent)' /\ SummedInv' /\ CallInv'
        /\ sample'.pc = "sums" /\ sample'.who = "RUSAGE_THREAD" /\ sample'.me = me /\ sample'.left = {me}
        /\ sample'.n = 0 /\ sample'.rss = usage.maxrss
    BY <1>1, <1>2, <1>3, <2>1, CallBegins DEF RusageWhos
  <2>3. Total(usage.thread, {me}) = usage.thread[me] /\ usage.thread[me] \in Nat
    <3>1. {me} \ {me} = {} /\ Counts(usage.thread, {me}) /\ Counts(usage.thread, {}) /\ usage.thread[me] \in Nat
      BY <1>1, <1>2, LiveCounts DEF UsageTypes
    <3> QED BY <3>1, TotalIs
  <2>4. SumsInv'
    BY <2>2, <2>3 DEF SumsInv, AddsThreads
  <2>5. ChildrenInv' /\ RssInv'
    BY <2>2 DEF ChildrenInv, RssInv
  <2> QED BY <2>2, <2>4, <2>5 DEF SampleInv
<1>4. CASE who = "RUSAGE_SELF"
  <2>1. Asks(who, me, usage.live, 0, usage.signal, 0, usage.maxrss)
    BY <1>4 DEF getrusage
  <2>2. /\ SampleTypes' /\ sample'.me \in usage'.live /\ usage' = usage /\ spent' = spent
        /\ NotMore(sample.from, sample.at)' /\ NotMore(sample.at, spent)' /\ SummedInv' /\ CallInv'
        /\ sample'.pc = "sums" /\ sample'.who = "RUSAGE_SELF" /\ sample'.left = usage.live
        /\ sample'.n = usage.signal /\ sample'.rss = usage.maxrss /\ sample'.from = spent
    BY <1>1, <1>2, <1>4, <2>1, CallBegins DEF RusageWhos
  <2>4. SumsInv'
    BY <1>1, <2>2 DEF SumsInv, AddsThreads, InRange, Carried
  <2>5. ChildrenInv' /\ RssInv'
    BY <2>2 DEF ChildrenInv, RssInv
  <2> QED BY <2>2, <2>4, <2>5 DEF SampleInv
<1>5. CASE who = "RUSAGE_CHILDREN"
  <2>1. Asks(who, me, {}, usage.children, 0, usage.cstime, usage.cmaxrss)
    BY <1>5 DEF getrusage
  <2>2. /\ SampleTypes' /\ sample'.me \in usage'.live /\ usage' = usage /\ spent' = spent
        /\ NotMore(sample.from, sample.at)' /\ NotMore(sample.at, spent)' /\ SummedInv' /\ CallInv'
        /\ sample'.pc = "sums" /\ sample'.who = "RUSAGE_CHILDREN" /\ sample'.left = {}
        /\ sample'.n = usage.children /\ sample'.cstime = usage.cstime /\ sample'.from = spent
    BY <1>1, <1>2, <1>5, <2>1, CallBegins DEF RusageWhos
  <2>4. SumsInv'
    BY <2>2 DEF SumsInv, AddsThreads
  <2>5. ChildrenInv' /\ RssInv'
    BY <1>1, <2>2 DEF ChildrenInv, RssInv
  <2> QED BY <2>2, <2>4, <2>5 DEF SampleInv
<1>6. CASE who = "RUSAGE_BOTH"
  <2>0. PICK top : top = Max({usage.cmaxrss, usage.maxrss})
    OBVIOUS
  <2>1. Asks(who, me, usage.live, usage.children, usage.signal, usage.cstime, top) /\ top \in Nat /\ top >= usage.maxrss
    <3>1. usage.cmaxrss \in Int /\ usage.maxrss \in Int
      BY <1>1
    <3>2. top \in Nat /\ top >= usage.maxrss
      BY <1>1, <2>0, <3>1, MaxIs
    <3> QED BY <1>6, <2>0, <3>2 DEF getrusage
  <2>2. /\ SampleTypes' /\ sample'.me \in usage'.live /\ usage' = usage /\ spent' = spent
        /\ NotMore(sample.from, sample.at)' /\ NotMore(sample.at, spent)' /\ SummedInv' /\ CallInv'
        /\ sample'.pc = "sums" /\ sample'.who = "RUSAGE_BOTH" /\ sample'.left = usage.live
        /\ sample'.n = usage.children + usage.signal /\ sample'.rss = top /\ sample'.from = spent
        /\ sample'.cstime = usage.cstime
    BY <1>1, <1>2, <1>6, <2>1, CallBegins DEF RusageWhos
  <2>4. SumsInv'
    BY <1>1, <2>2 DEF SumsInv, AddsThreads, InRange, Carried
  <2>5. ChildrenInv' /\ RssInv'
    BY <1>1, <2>1, <2>2 DEF ChildrenInv, RssInv
  <2> QED BY <2>2, <2>4, <2>5 DEF SampleInv
<1> QED BY <1>3, <1>4, <1>5, <1>6 DEF RusageWhos

LEMMA TimesSampled ==
  ASSUME UsageInv, SampleInv, NEW me \in Threads, do_sys_times(me)
  PROVE  SampleInv'
<1>1. /\ UsageTypes /\ usage.live \in SUBSET Threads /\ usage.signal \in Nat
      /\ usage.signal + Total(usage.thread, usage.live) = spent.self /\ spent.self \in Nat
  BY DEF UsageInv, UsageTypes
<1>2. /\ SampleTypes' /\ sample'.me \in usage'.live /\ usage' = usage /\ spent' = spent
      /\ NotMore(sample.from, sample.at)' /\ NotMore(sample.at, spent)' /\ SummedInv' /\ CallInv'
      /\ sample'.pc = "sums" /\ sample'.who = "times" /\ sample'.left = usage.live
      /\ sample'.n = usage.signal /\ sample'.from = spent
  BY <1>1, CallBegins DEF do_sys_times
<1>4. SumsInv'
  BY <1>1, <1>2 DEF SumsInv, AddsThreads, InRange, Carried
<1>5. ChildrenInv' /\ RssInv'
  BY <1>2 DEF ChildrenInv, RssInv
<1> QED BY <1>2, <1>4, <1>5 DEF SampleInv

(* A thread's count moves from what is left to the sum.                    *)
LEMMA AccumulateSampled ==
  ASSUME UsageInv, SampleInv, NEW t \in Threads, accumulate_thread_rusage(t)
  PROVE  SampleInv'
<1>1. /\ UsageTypes /\ SampleTypes /\ usage' = usage /\ spent' = spent /\ sample.pc = "sums" /\ t \in sample.left
      /\ sample' = [sample EXCEPT !.left = @ \ {t}, !.n = @ + usage.thread[t]]
      /\ sample.left \in SUBSET Threads /\ usage.thread[t] \in Nat /\ sample.n \in Nat
  BY DEF UsageInv, SampleInv, accumulate_thread_rusage, UsageTypes, SampleTypes
<1>2. PICK rest \in SUBSET Threads, n \in Nat : rest = sample.left \ {t} /\ n = sample.n + usage.thread[t]
  <2>1. sample.left \ {t} \in SUBSET Threads /\ sample.n + usage.thread[t] \in Nat
    BY <1>1
  <2> QED BY <2>1
<1>3. sample' = [sample EXCEPT !.left = rest, !.n = n]
  BY <1>1, <1>2
<1>4. /\ SampleTypes' /\ sample'.pc = sample.pc /\ sample'.who = sample.who /\ sample'.me = sample.me
      /\ sample'.left = rest /\ sample'.n = n /\ sample'.c = sample.c /\ sample'.cstime = sample.cstime
      /\ sample'.rss = sample.rss /\ sample'.from = sample.from /\ sample'.at = sample.at
  BY <1>1, <1>3 DEF SampleTypes
<1>5. n + Total(usage.thread, rest) = sample.n + Total(usage.thread, sample.left)
  <2>1. Total(usage.thread, sample.left) = usage.thread[t] + Total(usage.thread, rest)
    <3>1. Counts(usage.thread, sample.left) /\ t \in sample.left /\ rest = sample.left \ {t}
      BY <1>1, <1>2, SampleFields
    <3> QED BY <3>1, TotalIs
  <2>2. Total(usage.thread, rest) \in Nat
    BY <1>1, SampleFields
  <2> QED BY <1>1, <1>2, <2>1, <2>2
<1>6. SumsInv'
  BY <1>1, <1>2, <1>4, <1>5 DEF SampleInv, SumsInv, InRange, Carried
<1>7. sample.who # "RUSAGE_CHILDREN"
  BY <1>1 DEF SampleInv, SumsInv
<1>8. SummedInv' /\ ChildrenInv' /\ RssInv' /\ CallInv'
  BY <1>1, <1>4, <1>7 DEF SampleInv, SummedInv, ChildrenInv, RssInv, CallInv
<1>9. NotMore(sample.from, sample.at)' /\ NotMore(sample.at, spent)' /\ sample'.me \in usage'.live
  BY <1>1, <1>4 DEF SampleInv, NotMore
<1> QED BY <1>4, <1>6, <1>8, <1>9 DEF SampleInv

LEMMA NothingLeft ==
  ASSUME UsageTypes, SampleTypes, sample.left = {}
  PROVE  Total(usage.thread, sample.left) = 0
BY SampleFields, TotalIs

LEMMA UnlockSampled ==
  ASSUME UsageInv, SampleInv, unlock_task_sighand
  PROVE  SampleInv'
<1>1. /\ UsageTypes /\ SampleTypes /\ usage' = usage /\ spent' = spent /\ sample.pc = "sums" /\ sample.left = {}
      /\ sample.who # "times" /\ sample' = [sample EXCEPT !.pc = "out"] /\ sample.n \in Nat
      /\ Total(usage.thread, sample.left) = 0
  BY SampleFields, NothingLeft DEF UsageInv, SampleInv, unlock_task_sighand
<1>2. /\ SampleTypes' /\ sample'.pc = "out" /\ sample'.who = sample.who /\ sample'.me = sample.me
      /\ sample'.left = sample.left /\ sample'.n = sample.n /\ sample'.c = sample.c /\ sample'.cstime = sample.cstime
      /\ sample'.rss = sample.rss /\ sample'.from = sample.from /\ sample'.at = sample.at
  BY <1>1 DEF SampleTypes
<1>3. SummedInv'
  BY <1>1, <1>2 DEF SampleInv, SumsInv, SummedInv, InRange, Carried
<1>4. SumsInv' /\ ChildrenInv' /\ RssInv' /\ CallInv'
  BY <1>1, <1>2 DEF SampleInv, SumsInv, ChildrenInv, RssInv, CallInv
<1>5. NotMore(sample.from, sample.at)' /\ NotMore(sample.at, spent)' /\ sample'.me \in usage'.live
  BY <1>1, <1>2 DEF SampleInv, NotMore
<1> QED BY <1>2, <1>3, <1>4, <1>5 DEF SampleInv

LEMMA MaxrssSampled ==
  ASSUME UsageInv, SampleInv, ru_maxrss
  PROVE  SampleInv'
<1>1. PICK rss : rss = KbPerPage * (IF sample.who = "RUSAGE_CHILDREN" THEN sample.rss ELSE Max({sample.rss, usage.rss}))
  OBVIOUS
<1>2. /\ UsageTypes /\ SampleTypes /\ usage' = usage /\ spent' = spent /\ sample.pc = "out"
      /\ sample' = [sample EXCEPT !.pc = "done", !.rss = rss] /\ sample.who # "times"
      /\ sample.rss \in Nat /\ usage.rss \in Nat /\ usage.maxrss \in Nat /\ spent.rss \in Nat /\ sample.from.rss \in Nat
      /\ sample.from.rss <= spent.rss
  BY <1>1, SampleFields DEF UsageInv, UsageTypes, SampleInv, CallInv, ru_maxrss, NotMore
<1>3. /\ Max({sample.rss, usage.rss}) = IF sample.rss >= usage.rss THEN sample.rss ELSE usage.rss
      /\ spent.rss = IF usage.maxrss >= usage.rss THEN usage.maxrss ELSE usage.rss
  BY <1>2, MaxIs DEF UsageInv
<1>4. rss \in Nat
  BY <1>1, <1>2, <1>3 DEF KbPerPage
<1>5. /\ SampleTypes' /\ sample'.pc = "done" /\ sample'.who = sample.who /\ sample'.me = sample.me
      /\ sample'.left = sample.left /\ sample'.n = sample.n /\ sample'.c = sample.c /\ sample'.cstime = sample.cstime
      /\ sample'.rss = rss /\ sample'.from = sample.from /\ sample'.at = sample.at
  BY <1>2, <1>4 DEF SampleTypes
<1>6. MaxrssRight'
  <2>1. ASSUME sample.who \in {"RUSAGE_SELF", "RUSAGE_THREAD"} PROVE rss = KbPerPage * spent.rss
    BY <1>1, <1>2, <1>3, <2>1 DEF SampleInv, RssInv
  <2>2. ASSUME sample.who = "RUSAGE_BOTH" PROVE rss >= KbPerPage * spent.rss
    <3>1. sample.rss >= usage.maxrss
      BY <1>2, <2>2 DEF SampleInv, RssInv
    <3> QED BY <1>1, <1>2, <1>3, <2>2, <3>1 DEF KbPerPage
  <2>3. sample.who \in RusageWhos
    BY <1>2, SampleFields
  <2> QED BY <1>2, <1>4, <1>5, <2>1, <2>2, <2>3 DEF MaxrssRight, RusageWhos, KbPerPage
<1>7. SummedInv'
  BY <1>2, <1>5 DEF SampleInv, SummedInv, InRange, Carried
<1>8. SumsInv' /\ ChildrenInv' /\ RssInv' /\ CallInv'
  BY <1>2, <1>5, <1>6 DEF SampleInv, SumsInv, ChildrenInv, RssInv, CallInv
<1>9. NotMore(sample.from, sample.at)' /\ NotMore(sample.at, spent)' /\ sample'.me \in usage'.live
  BY <1>2, <1>5 DEF SampleInv, NotMore
<1> QED BY <1>5, <1>7, <1>8, <1>9 DEF SampleInv

LEMMA CutimeSampled ==
  ASSUME UsageInv, SampleInv, tms_cutime
  PROVE  SampleInv'
<1>1. /\ UsageTypes /\ SampleTypes /\ usage' = usage /\ spent' = spent /\ sample.pc = "sums" /\ sample.left = {}
      /\ sample.who = "times" /\ sample' = [sample EXCEPT !.pc = "cstime", !.c = usage.children, !.at = spent]
      /\ sample.n \in Nat /\ Total(usage.thread, sample.left) = 0 /\ usage.children = spent.children
      /\ usage.children \in Nat /\ spent \in SpentTypes
  BY SampleFields, NothingLeft DEF UsageInv, UsageTypes, SpentTypes, SampleInv, tms_cutime, TimesAdds
<1>2. /\ SampleTypes' /\ sample'.pc = "cstime" /\ sample'.who = "times" /\ sample'.me = sample.me
      /\ sample'.n = sample.n /\ sample'.c = spent.children /\ sample'.from = sample.from /\ sample'.at = spent
  BY <1>1 DEF SampleTypes
<1>3. SummedInv'
  BY <1>1, <1>2 DEF SampleInv, SumsInv, SummedInv, AddsThreads, InRange, Carried
<1>4. SumsInv' /\ ChildrenInv' /\ RssInv' /\ CallInv'
  BY <1>1, <1>2 DEF SumsInv, ChildrenInv, RssInv, CallInv
<1>5. NotMore(sample.from, sample.at)' /\ NotMore(sample.at, spent)'
  BY <1>1, <1>2, SampleFields DEF SampleInv, NotMore
<1>6. sample'.me \in usage'.live
  BY <1>1, <1>2 DEF SampleInv
<1> QED BY <1>2, <1>3, <1>4, <1>5, <1>6 DEF SampleInv

LEMMA CstimeSampled ==
  ASSUME UsageInv, SampleInv, tms_cstime
  PROVE  SampleInv'
<1>1. /\ UsageTypes /\ SampleTypes /\ usage' = usage /\ spent' = spent /\ sample.pc = "cstime"
      /\ sample.who = "times" /\ sample' = [sample EXCEPT !.pc = "done", !.cstime = usage.cstime]
      /\ usage.cstime = spent.cstime /\ usage.cstime \in Nat
  BY DEF UsageInv, UsageTypes, SampleInv, CallInv, tms_cstime
<1>2. /\ SampleTypes' /\ sample'.pc = "done" /\ sample'.who = "times" /\ sample'.me = sample.me
      /\ sample'.n = sample.n /\ sample'.c = sample.c /\ sample'.cstime = spent.cstime
      /\ sample'.from = sample.from /\ sample'.at = sample.at
  BY <1>1 DEF SampleTypes
<1>3. SummedInv'
  BY <1>1, <1>2 DEF SampleInv, SummedInv, AddsThreads, InRange, Carried
<1>4. SumsInv' /\ ChildrenInv' /\ RssInv'
  BY <1>1, <1>2 DEF SumsInv, ChildrenInv, RssInv
<1>5. CallInv'
  BY <1>1, <1>2, SampleFields DEF SampleInv, CallInv, NotMore
<1>6. NotMore(sample.from, sample.at)' /\ NotMore(sample.at, spent)' /\ sample'.me \in usage'.live
  BY <1>1, <1>2 DEF SampleInv, NotMore
<1> QED BY <1>2, <1>3, <1>4, <1>5, <1>6 DEF SampleInv

LEMMA NoSampleRight ==
  ASSUME UsageInv', sample' = NoSample(spent')
  PROVE  SampleInv'
<1>1. /\ UsageTypes' /\ spent' \in SpentTypes /\ 1 \in usage'.live
      /\ sample' = [pc |-> "idle", who |-> "times", me |-> 1, left |-> {}, n |-> 0, c |-> 0, cstime |-> 0, rss |-> 0,
                    from |-> spent', at |-> spent']
  BY DEF UsageInv, UsageTypes, SpentTypes, NoSample
<1>2. SampleTypes' /\ sample'.me \in usage'.live
  BY <1>1, UsageAssumption DEF SampleTypes
<1>3. NotMore(sample.from, sample.at)' /\ NotMore(sample.at, spent)'
  BY <1>1 DEF NotMore, SpentTypes
<1> QED BY <1>1, <1>2, <1>3 DEF SampleInv, SumsInv, SummedInv, ChildrenInv, RssInv, CallInv

LEMMA InitSample == ASSUME UsageInit PROVE SampleInv
<1>1. /\ UsageTypes /\ spent \in SpentTypes /\ 1 \in usage.live
      /\ sample = [pc |-> "idle", who |-> "times", me |-> 1, left |-> {}, n |-> 0, c |-> 0, cstime |-> 0, rss |-> 0,
                   from |-> spent, at |-> spent]
  BY InitUsage DEF UsageInit, UsageInv, UsageTypes, SpentTypes, NoSample
<1>2. SampleTypes /\ sample.me \in usage.live
  BY <1>1, UsageAssumption DEF SampleTypes
<1>3. NotMore(sample.from, sample.at) /\ NotMore(sample.at, spent)
  BY <1>1 DEF NotMore, SpentTypes
<1> QED BY <1>1, <1>2, <1>3 DEF SampleInv, SumsInv, SummedInv, ChildrenInv, RssInv, CallInv

LEMMA SampleStep == UsageInv /\ SampleInv /\ [UsageNext]_usageVars => UsageInv' /\ SampleInv'
<1> SUFFICES ASSUME UsageInv, SampleInv, [UsageNext]_usageVars PROVE SampleInv'
  BY UsageStep
<1>0. UsageInv'
  BY UsageStep
<1>1. CASE UNCHANGED usageVars
  BY <1>1 DEF usageVars, SampleInv, SampleTypes, NotMore, SumsInv, InRange, Carried, SummedInv, ChildrenInv, RssInv,
              MaxrssRight, CallInv
<1>2. ASSUME NEW n \in 0..MaxChildUse, NEW s \in 0..MaxChildUse, NEW rss \in 0..MaxRss, ChildReaped(n, s, rss)
      PROVE  SampleInv'
  BY <1>0, <1>2, ChildReapedSampled, UsageAssumption
<1>3. CASE Returns
  BY <1>0, <1>3, NoSampleRight DEF Returns
<1>4. ASSUME NEW t \in Threads, Run(t) \/ ThreadExits(t) \/ ThreadStarts(t) PROVE SampleInv'
  BY <1>0, <1>4, RunSampled, ThreadExitsSampled, ThreadStartsSampled
<1>5. CASE Exec
  BY <1>0, <1>5, ExecSampled
<1>6. ASSUME NEW me \in Threads, do_sys_times(me) \/ \E who \in RusageWhos : getrusage(who, me) PROVE SampleInv'
  BY <1>6, TimesSampled, GetrusageSampled
<1>7. ASSUME NEW t \in Threads, accumulate_thread_rusage(t) PROVE SampleInv'
  BY <1>7, AccumulateSampled
<1>8. CASE unlock_task_sighand \/ ru_maxrss \/ tms_cutime \/ tms_cstime
  BY <1>8, UnlockSampled, MaxrssSampled, CutimeSampled, CstimeSampled
<1> QED BY <1>1, <1>2, <1>3, <1>4, <1>5, <1>6, <1>7, <1>8 DEF UsageNext

LEMMA UsageExact == UsageInv /\ SampleInv => UsageConserved
<1> SUFFICES ASSUME UsageInv, SampleInv, sample.pc = "done"
             PROVE  IF sample.who = "times" THEN TimesRight ELSE RusageRight /\ MaxrssRight
  BY DEF UsageConserved
<1>1. UsageTypes /\ SampleTypes
  BY DEF UsageInv, SampleInv
<1>2. ASSUME NEW c \in Nat, c = Carried, sample.who \in AddsThreads PROVE SumRight(c)
  BY <1>1, <1>2, SampleFields DEF SampleInv, SummedInv, InRange, SumRight
<1>3. CASE sample.who = "times"
  <2>1. SumRight(0)
    BY <1>2, <1>3 DEF AddsThreads, Carried
  <2> QED BY <1>1, <1>3, <2>1, SampleFields DEF SampleInv, CallInv, NotMore, TimesRight
<1>4. CASE sample.who = "RUSAGE_SELF"
  BY <1>2, <1>4 DEF AddsThreads, Carried, RusageRight, SampleInv, RssInv
<1>5. CASE sample.who = "RUSAGE_BOTH"
  <2>1. SumRight(sample.from.children)
    BY <1>1, <1>2, <1>5, SampleFields DEF AddsThreads, Carried
  <2> QED BY <1>5, <2>1 DEF RusageRight, SampleInv, RssInv, ChildrenInv
<1>6. CASE sample.who = "RUSAGE_CHILDREN"
  BY <1>6 DEF RusageRight, SampleInv, RssInv, ChildrenInv
<1>7. CASE sample.who = "RUSAGE_THREAD"
  BY <1>7 DEF RusageRight, SampleInv, RssInv, SummedInv
<1> QED BY <1>1, <1>3, <1>4, <1>5, <1>6, <1>7, SampleFields DEF RusageWhos

(* Whatever threads start, run and exit and children are waited for while  *)
(* the call adds up, with any number of threads: getrusage's sums are of   *)
(* moments within the call, each count added once, and its numbers of the  *)
(* children are of one moment; each number of times is of some moment.     *)
THEOREM UsageStaysConserved == UsageSpec => []UsageConserved
<1>1. UsageInit => UsageInv /\ SampleInv
  BY InitUsage, InitSample
<1> QED BY <1>1, SampleStep, UsageExact, PTL DEF UsageSpec

-----------------------------------------------------------------------------
(* SysUts: C strings in fixed buffers.                                     *)

LEMMA PrefixIs ==
  ASSUME NEW s \in Seq(Int), NEW n \in 0..Len(s)
  PROVE  /\ SubSeq(s, 1, n) \in Seq(Int) /\ Len(SubSeq(s, 1, n)) = n
         /\ \A i \in 1..n : SubSeq(s, 1, n)[i] = s[i]
<1>1. \A i \in 1..n : s[i] \in Int
  BY ElementOfSeq, LenProperties
<1>2. n \in Int /\ 1 \in Int /\ n - 1 + 1 = n
  BY LenProperties
<1> QED BY <1>1, <1>2, SubSeqProperties

LEMMA PrefixOfPrefix ==
  ASSUME NEW s \in Seq(Int), NEW n \in 0..Len(s), NEW k \in 0..n
  PROVE  SubSeq(SubSeq(s, 1, n), 1, k) = SubSeq(s, 1, k)
<1>1. /\ SubSeq(s, 1, n) \in Seq(Int) /\ Len(SubSeq(s, 1, n)) = n
      /\ \A i \in 1..n : SubSeq(s, 1, n)[i] = s[i]
  BY PrefixIs
<1>2. k \in 0..Len(s) /\ k \in 0..Len(SubSeq(s, 1, n))
  BY <1>1, LenProperties
<1>3. /\ SubSeq(s, 1, k) \in Seq(Int) /\ Len(SubSeq(s, 1, k)) = k
      /\ \A i \in 1..k : SubSeq(s, 1, k)[i] = s[i]
  BY <1>2, PrefixIs
<1>4. /\ SubSeq(SubSeq(s, 1, n), 1, k) \in Seq(Int) /\ Len(SubSeq(SubSeq(s, 1, n), 1, k)) = k
      /\ \A i \in 1..k : SubSeq(SubSeq(s, 1, n), 1, k)[i] = SubSeq(s, 1, n)[i]
  BY <1>1, <1>2, PrefixIs
<1> QED BY <1>1, <1>3, <1>4, SeqEqual

(* e is where the string at the start of b ends: its first NUL, or the     *)
(* place after b.                                                          *)
Ends(b, e) == /\ e \in 1..Len(b) + 1
              /\ \A i \in 1..e - 1 : b[i] # NUL
              /\ e <= Len(b) => b[e] = NUL

LEMMA StringIs ==
  ASSUME NEW b \in Seq(Int), NEW e, Ends(b, e)
  PROVE  StringIn(b) = SubSeq(b, 1, e - 1)
<1> DEFINE S == {i \in DOMAIN b : b[i] = NUL} \cup {Len(b) + 1}
<1>1. Len(b) \in Nat /\ DOMAIN b = 1..Len(b)
  BY LenProperties
<1>2. S \in SUBSET Nat /\ S # {} /\ e \in S /\ \A y \in S : e <= y
  BY <1>1 DEF Ends
<1> HIDE DEF S
<1>3. Min(S) \in S /\ Min(S) <= e /\ e <= Min(S)
  BY <1>2, MinIs
<1>4. Min(S) = e
  <2>1. Min(S) \in Nat /\ e \in Nat
    BY <1>2, <1>3
  <2> QED BY <1>3, <2>1
<1> QED BY <1>4 DEF S, StringIn

LEMMA EndExists == ASSUME NEW b \in Seq(Int) PROVE \E e \in 1..Len(b) + 1 : Ends(b, e)
<1> DEFINE S == {i \in DOMAIN b : b[i] = NUL} \cup {Len(b) + 1}
<1>1. Len(b) \in Nat /\ DOMAIN b = 1..Len(b)
  BY LenProperties
<1>2. S \in SUBSET Nat /\ S # {}
  BY <1>1
<1>3. PICK e \in S : \A y \in S : e <= y
  BY <1>2, Least
<1>4. e \in 1..Len(b) + 1 /\ (e <= Len(b) => b[e] = NUL)
  BY <1>1, <1>3
<1>5. ASSUME NEW i \in 1..e - 1 PROVE b[i] # NUL
  <2>1. i \in DOMAIN b /\ ~(e <= i)
    BY <1>1, <1>4
  <2> QED BY <1>3, <2>1
<1> QED BY <1>4, <1>5 DEF Ends

Kinds == {"nodename", "domainname"}
Names == {s \in Seq(Nat) : Len(s) <= NEW_UTS_LEN}

UtsInv == /\ DOMAIN uts = Kinds /\ given \in [Kinds -> Names]
          /\ \A w \in Kinds : uts[w] = [i \in Buffer |-> IF i <= Len(given[w]) THEN given[w][i] ELSE NUL]

LEMMA InitUts == UtsInit => UtsInv
<1> SUFFICES ASSUME UtsInit PROVE UtsInv
  OBVIOUS
<1>1. <<>> \in Names /\ Len(<<>>) = 0
  BY UtsAssumption DEF Names
<1>2. \A i \in Buffer : ~(i <= 0)
  BY DEF Buffer
<1>3. given \in [Kinds -> Names] /\ DOMAIN uts = Kinds
  BY <1>1 DEF UtsInit, Kinds
<1>4. ASSUME NEW w \in Kinds
      PROVE  uts[w] = [i \in Buffer |-> IF i <= Len(given[w]) THEN given[w][i] ELSE NUL]
  <2>1. given[w] = <<>> /\ uts[w] = [i \in Buffer |-> NUL]
    BY DEF UtsInit, Kinds
  <2> QED BY <1>1, <1>2, <2>1
<1> QED BY <1>3, <1>4 DEF UtsInv

LEMMA SetNameStores ==
  ASSUME UtsInv, NEW which \in Kinds, NEW name \in Seq(Nat), SetName(which, name)
  PROVE  UtsInv'
<1>1. /\ name \in Names
      /\ uts' = [uts EXCEPT ![which] = [i \in Buffer |-> IF i <= Len(name) THEN name[i] ELSE NUL]]
      /\ given' = [given EXCEPT ![which] = name]
  BY DEF SetName, StoreName, Names
<1>2. DOMAIN uts' = Kinds /\ given' \in [Kinds -> Names]
  BY <1>1 DEF UtsInv
<1>3. ASSUME NEW w \in Kinds
      PROVE  uts'[w] = [i \in Buffer |-> IF i <= Len(given'[w]) THEN given'[w][i] ELSE NUL]
  <2>1. CASE w = which
    BY <1>1, <2>1 DEF UtsInv
  <2>2. CASE w # which
    <3>1. uts'[w] = uts[w] /\ given'[w] = given[w]
      BY <1>1, <2>2 DEF UtsInv
    <3> QED BY <3>1 DEF UtsInv
  <2> QED BY <2>1, <2>2
<1> QED BY <1>2, <1>3 DEF UtsInv

LEMMA UtsStep == UtsInv /\ [UtsNext]_utsVars => UtsInv'
<1> SUFFICES ASSUME UtsInv, [UtsNext]_utsVars PROVE UtsInv'
  OBVIOUS
<1>1. CASE UNCHANGED utsVars
  BY <1>1 DEF utsVars, UtsInv
<1>2. CASE UtsNext
  <2>1. PICK name \in BoundedSeq(Letters \cup {NUL}, NEW_UTS_LEN + 1) : sethostname(name) \/ setdomainname(name)
    BY <1>2 DEF UtsNext
  <2>2. PICK m \in 0..NEW_UTS_LEN + 1 : name \in [1..m -> Letters \cup {NUL}]
    BY DEF BoundedSeq, SeqOf
  <2>3. name \in [1..m -> Nat] /\ m \in Nat
    <3>1. Letters \cup {NUL} \subseteq Nat /\ NEW_UTS_LEN \in Nat
      BY UtsAssumption DEF NUL
    <3> QED BY <2>2, <3>1
  <2>4. name \in Seq(Nat)
    BY <2>3, SeqDef
  <2> QED BY <2>1, <2>4, SetNameStores DEF sethostname, setdomainname, Kinds
<1> QED BY <1>1, <1>2

(* Where the name ends in its buffer, and the text that readers get.       *)
LEMMA BufferHolds ==
  ASSUME UtsInv, NEW w \in Kinds
  PROVE  /\ uts[w] \in Seq(Int) /\ Len(uts[w]) = NEW_UTS_LEN + 1 /\ NEW_UTS_LEN \in Nat
         /\ \A i \in Len(given[w]) + 1..NEW_UTS_LEN + 1 : uts[w][i] = NUL
         /\ Len(given[w]) \in 0..NEW_UTS_LEN
         /\ \E e \in 1..Len(given[w]) + 1 :
              /\ Ends(uts[w], e) /\ StringIn(uts[w]) = SubSeq(uts[w], 1, e - 1)
              /\ StringIn(Append(given[w], NUL)) = SubSeq(uts[w], 1, e - 1)
<1> DEFINE b == uts[w]
           g == given[w]
           a == Append(g, NUL)
<1>1. /\ NEW_UTS_LEN \in Nat /\ g \in Seq(Nat) /\ Len(g) \in 0..NEW_UTS_LEN
      /\ b = [i \in 1..NEW_UTS_LEN + 1 |-> IF i <= Len(g) THEN g[i] ELSE NUL]
  BY UtsAssumption, LenProperties DEF UtsInv, Names, Buffer
<1> HIDE DEF b, g
<1>2. \A i \in 1..Len(g) : g[i] \in Nat
  BY <1>1, ElementOfSeq
<1>3. /\ b \in [1..NEW_UTS_LEN + 1 -> Int]
      /\ \A i \in 1..NEW_UTS_LEN + 1 : b[i] = IF i <= Len(g) THEN g[i] ELSE NUL
  BY <1>1, <1>2 DEF NUL
<1>4. b \in Seq(Int) /\ Len(b) = NEW_UTS_LEN + 1
  <2>1. b \in Seq(Int)
    BY <1>1, <1>3, SeqDef
  <2>2. DOMAIN b = 1..Len(b) /\ Len(b) \in Nat /\ DOMAIN b = 1..NEW_UTS_LEN + 1
    BY <1>3, <2>1, LenProperties
  <2> QED BY <1>1, <2>1, <2>2
<1>5. /\ a \in Seq(Int) /\ Len(a) = Len(g) + 1 /\ \A i \in 1..Len(g) : a[i] = g[i]
      /\ a[Len(g) + 1] = NUL
  <2>1. g \in Seq(Int)
    BY <1>1, SeqMonotonic
  <2> QED BY <2>1 DEF NUL
<1> HIDE DEF a
<1>6. ASSUME NEW i \in 1..Len(g) + 1 PROVE b[i] = a[i]
  <2>1. i \in 1..NEW_UTS_LEN + 1 /\ Len(g) \in Nat
    BY <1>1
  <2>2. CASE i <= Len(g)
    <3>1. i \in 1..Len(g)
      BY <2>1, <2>2
    <3> QED BY <1>3, <1>5, <2>1, <2>2, <3>1
  <2>3. CASE ~(i <= Len(g))
    <3>1. i = Len(g) + 1
      BY <2>1, <2>3
    <3>2. b[i] = NUL
      BY <1>3, <2>1, <2>3
    <3> QED BY <1>5, <3>1, <3>2
  <2> QED BY <2>2, <2>3
<1>7. PICK e \in 1..Len(a) + 1 : Ends(a, e)
  BY <1>5, EndExists
<1>8. e \in 1..Len(g) + 1
  BY <1>1, <1>5, <1>7 DEF Ends
<1>9. Ends(b, e)
  BY <1>1, <1>4, <1>5, <1>6, <1>7, <1>8 DEF Ends
<1>10. StringIn(b) = SubSeq(b, 1, e - 1) /\ StringIn(a) = SubSeq(a, 1, e - 1)
  BY <1>4, <1>5, <1>7, <1>9, StringIs
<1>11. SubSeq(a, 1, e - 1) = SubSeq(b, 1, e - 1)
  <2>1. e - 1 \in 0..Len(a) /\ e - 1 \in 0..Len(b)
    BY <1>1, <1>4, <1>5, <1>8
  <2>2. /\ SubSeq(a, 1, e - 1) \in Seq(Int) /\ Len(SubSeq(a, 1, e - 1)) = e - 1
        /\ \A i \in 1..e - 1 : SubSeq(a, 1, e - 1)[i] = a[i]
    BY <1>5, <2>1, PrefixIs
  <2>3. /\ SubSeq(b, 1, e - 1) \in Seq(Int) /\ Len(SubSeq(b, 1, e - 1)) = e - 1
        /\ \A i \in 1..e - 1 : SubSeq(b, 1, e - 1)[i] = b[i]
    BY <1>4, <2>1, PrefixIs
  <2>4. \A i \in 1..e - 1 : a[i] = b[i]
    BY <1>1, <1>6, <1>8
  <2> QED BY <2>2, <2>3, <2>4, SeqEqual
<1>12. \A i \in Len(g) + 1..NEW_UTS_LEN + 1 : b[i] = NUL
  BY <1>1, <1>3
<1> QED BY <1>1, <1>4, <1>8, <1>9, <1>10, <1>11, <1>12 DEF a, b, g

(* The old layout: a terminated prefix.                                    *)
LEMMA OldLayoutPrefix ==
  ASSUME UtsInv, NEW w \in Kinds
  PROVE  IsPrefix(StringIn(olduname(w)), StringIn(uts[w]))
<1> DEFINE b == uts[w]
           cut == SubSeq(b, 1, OLD_UTS_LEN)
           o == cut \o <<NUL>>
<1>1. PICK e \in 1..Len(given[w]) + 1 : Ends(b, e) /\ StringIn(b) = SubSeq(b, 1, e - 1)
  BY BufferHolds
<1>2. /\ b \in Seq(Int) /\ Len(b) = NEW_UTS_LEN + 1 /\ NEW_UTS_LEN \in Nat
      /\ e \in 1..NEW_UTS_LEN + 1 /\ OLD_UTS_LEN \in 0..NEW_UTS_LEN
  BY <1>1, BufferHolds, UtsAssumption
<1> HIDE DEF b
<1>3. cut \in Seq(Int) /\ Len(cut) = OLD_UTS_LEN /\ \A i \in 1..OLD_UTS_LEN : cut[i] = b[i]
  BY <1>2, PrefixIs
<1> HIDE DEF cut
<1>4. /\ o \in Seq(Int) /\ Len(o) = OLD_UTS_LEN + 1 /\ \A i \in 1..OLD_UTS_LEN : o[i] = b[i]
      /\ o[OLD_UTS_LEN + 1] = NUL
  <2>1. <<NUL>> \in Seq(Int) /\ Len(<<NUL>>) = 1 /\ <<NUL>>[1] = NUL
    BY DEF NUL
  <2> QED BY <1>2, <1>3, <2>1, ConcatProperties
<1> HIDE DEF o
<1>5. PICK k \in Nat : k = IF e <= OLD_UTS_LEN THEN e ELSE OLD_UTS_LEN + 1
  BY <1>2
<1>6. Ends(o, k)
  BY <1>1, <1>2, <1>4, <1>5 DEF Ends
<1>7. StringIn(o) = SubSeq(o, 1, k - 1)
  BY <1>4, <1>6, StringIs
<1>8. k - 1 \in 0..e - 1 /\ e - 1 \in 0..Len(b) /\ k - 1 \in 0..Len(o) /\ k - 1 \in 0..Len(b) /\ k - 1 <= OLD_UTS_LEN
  <2>1. OLD_UTS_LEN \in Nat /\ OLD_UTS_LEN <= NEW_UTS_LEN /\ e \in Nat /\ 1 <= e /\ e <= NEW_UTS_LEN + 1
    BY <1>2
  <2>2. 1 <= k /\ k <= e /\ k <= OLD_UTS_LEN + 1
    BY <1>5, <2>1
  <2> QED BY <1>2, <1>4, <2>1, <2>2
<1>9. SubSeq(o, 1, k - 1) = SubSeq(b, 1, k - 1)
  <2>1. /\ SubSeq(o, 1, k - 1) \in Seq(Int) /\ Len(SubSeq(o, 1, k - 1)) = k - 1
        /\ \A i \in 1..k - 1 : SubSeq(o, 1, k - 1)[i] = o[i]
    BY <1>4, <1>8, PrefixIs
  <2>2. /\ SubSeq(b, 1, k - 1) \in Seq(Int) /\ Len(SubSeq(b, 1, k - 1)) = k - 1
        /\ \A i \in 1..k - 1 : SubSeq(b, 1, k - 1)[i] = b[i]
    BY <1>2, <1>8, PrefixIs
  <2>3. \A i \in 1..k - 1 : o[i] = b[i]
    BY <1>2, <1>4, <1>8
  <2> QED BY <2>1, <2>2, <2>3, SeqEqual
<1>10. SubSeq(SubSeq(b, 1, e - 1), 1, k - 1) = SubSeq(b, 1, k - 1)
  BY <1>2, <1>8, PrefixOfPrefix
<1>11. Len(SubSeq(b, 1, e - 1)) = e - 1 /\ Len(SubSeq(b, 1, k - 1)) = k - 1 /\ SubSeq(b, 1, k - 1) \in Seq(Int)
  BY <1>2, <1>8, PrefixIs
<1>12. SubSeq(SubSeq(b, 1, k - 1), 1, k - 1) = SubSeq(b, 1, k - 1)
  BY <1>2, <1>8, PrefixOfPrefix
<1>13. IsPrefix(StringIn(o), StringIn(b))
  BY <1>1, <1>7, <1>8, <1>9, <1>10, <1>11, <1>12 DEF IsPrefix
<1> QED BY <1>13 DEF o, cut, b, olduname

LEMMA GethostnameExact ==
  ASSUME UtsInv, NEW len \in 0..NEW_UTS_LEN + 2
  PROVE  LET shown == StringIn(Append(given["nodename"], NUL))
         IN IF len > Len(shown) THEN gethostname(len) = Append(shown, NUL)
            ELSE gethostname(len) = SubSeq(shown, 1, len)
<1> DEFINE b == uts["nodename"]
           g == given["nodename"]
           shown == StringIn(Append(g, NUL))
<1>1. PICK e \in 1..Len(g) + 1 : Ends(b, e) /\ StringIn(b) = SubSeq(b, 1, e - 1) /\ shown = SubSeq(b, 1, e - 1)
  BY BufferHolds DEF Kinds
<1>2. /\ b \in Seq(Int) /\ Len(b) = NEW_UTS_LEN + 1 /\ NEW_UTS_LEN \in Nat /\ e \in 1..NEW_UTS_LEN + 1
      /\ len \in Nat
  BY <1>1, BufferHolds DEF Kinds
<1>3. gethostname(len) = SubSeq(b, 1, Min({1 + Len(StringIn(b)), len}))
  BY DEF gethostname
<1> HIDE DEF b, g, shown
<1>4. e - 1 \in 0..Len(b) /\ e \in 0..Len(b)
  BY <1>2
<1>5. /\ Len(shown) = e - 1 /\ shown \in Seq(Int) /\ \A i \in 1..e - 1 : shown[i] = b[i]
      /\ Len(StringIn(b)) = e - 1
  BY <1>1, <1>2, <1>4, PrefixIs
<1>6. Min({e, len}) = IF e <= len THEN e ELSE len
  BY <1>2, LesserOf
<1>7. 1 + Len(StringIn(b)) = e
  BY <1>2, <1>5
<1>8. CASE len > e - 1
  <2>1. gethostname(len) = SubSeq(b, 1, e)
    <3>1. Min({e, len}) = e
      BY <1>2, <1>6, <1>8
    <3> QED BY <1>3, <1>7, <3>1
  <2>2. /\ SubSeq(b, 1, e) \in Seq(Int) /\ Len(SubSeq(b, 1, e)) = e
        /\ \A i \in 1..e : SubSeq(b, 1, e)[i] = b[i]
    BY <1>2, <1>4, PrefixIs
  <2>3. /\ Append(shown, NUL) \in Seq(Int) /\ Len(Append(shown, NUL)) = e
        /\ \A i \in 1..e - 1 : Append(shown, NUL)[i] = shown[i]
        /\ Append(shown, NUL)[e] = NUL
    BY <1>2, <1>5 DEF NUL
  <2>4. b[e] = NUL
    BY <1>1, <1>2 DEF Ends
  <2>5. \A i \in 1..e : SubSeq(b, 1, e)[i] = Append(shown, NUL)[i]
    BY <1>2, <1>5, <2>2, <2>3, <2>4
  <2>6. SubSeq(b, 1, e) = Append(shown, NUL)
    BY <2>2, <2>3, <2>5, SeqEqual
  <2> QED BY <1>2, <1>5, <1>8, <2>1, <2>6 DEF shown, g
<1>9. CASE ~(len > e - 1)
  <2>1. gethostname(len) = SubSeq(b, 1, len)
    <3>1. Min({e, len}) = len
      BY <1>2, <1>6, <1>9
    <3> QED BY <1>3, <1>7, <3>1
  <2>2. len \in 0..e - 1
    BY <1>2, <1>9
  <2>3. SubSeq(shown, 1, len) = SubSeq(b, 1, len)
    BY <1>1, <1>2, <1>4, <2>2, PrefixOfPrefix
  <2> QED BY <1>2, <1>5, <1>9, <2>1, <2>3 DEF shown, g
<1> QED BY <1>8, <1>9

LEMMA ReleaseFits == ASSUME NEW len \in 1..10 PROVE Len(override_release(len)) <= len
<1> DEFINE dots(i) == Cardinality({j \in 1..i : UTS_RELEASE[j] = DOT})
           stops == {i \in DOMAIN UTS_RELEASE : \/ UTS_RELEASE[i] = DASH
                                                \/ UTS_RELEASE[i] = DOT /\ dots(i) = 3}
           from == Min(stops \cup {Len(UTS_RELEASE) + 1})
           rest == SubSeq(UTS_RELEASE, from, Len(UTS_RELEASE))
           start == <<2, DOT, 6, DOT, VERSION_MINOR + 60>>
           text == start \o rest
           cut == SubSeq(text, 1, Min({Len(text), len - 1}))
<1>1. override_release(len) = cut \o <<NUL>>
  BY DEF override_release
<1>2. UTS_RELEASE \in Seq(Int) /\ Len(UTS_RELEASE) = 7 /\ DOMAIN UTS_RELEASE = 1..7
  BY DEF UTS_RELEASE, DOT, DASH
<1>3. from \in 1..8
  <2>1. stops \cup {Len(UTS_RELEASE) + 1} \in SUBSET (1..8)
    BY <1>2
  <2> HIDE DEF stops
  <2>2. stops \cup {Len(UTS_RELEASE) + 1} \in SUBSET Nat
    BY <2>1
  <2> QED BY <2>1, <2>2, MinIs
<1> HIDE DEF from
<1>4. rest \in Seq(Int)
  <2>1. \A i \in from..7 : UTS_RELEASE[i] \in Int
    BY <1>2, <1>3, ElementOfSeq
  <2> QED BY <1>2, <1>3, <2>1, SubSeqProperties
<1> HIDE DEF rest
<1>5. start \in Seq(Int)
  BY DEF DOT, VERSION_MINOR
<1>6. text \in Seq(Int)
  BY <1>4, <1>5, ConcatProperties
<1> HIDE DEF text
<1>7. Len(text) \in Nat /\ len - 1 \in Nat
  BY <1>6, LenProperties
<1>8. Min({Len(text), len - 1}) \in 0..Len(text) /\ Min({Len(text), len - 1}) <= len - 1
  BY <1>7, LesserOf
<1>9. cut \in Seq(Int) /\ Len(cut) <= len - 1
  BY <1>6, <1>7, <1>8, PrefixIs
<1> HIDE DEF cut
<1>10. <<NUL>> \in Seq(Int) /\ Len(<<NUL>>) = 1
  BY DEF NUL
<1>11. Len(cut \o <<NUL>>) = Len(cut) + 1 /\ Len(cut) \in Nat
  BY <1>9, <1>10, ConcatProperties, LenProperties
<1> QED BY <1>1, <1>9, <1>11

LEMMA UtsExact == UtsInv => NamesReadBack
<1> SUFFICES ASSUME UtsInv PROVE NamesReadBack
  OBVIOUS
<1> DEFINE Shown(w) == StringIn(Append(given[w], NUL))
<1>1. DOMAIN uts = Kinds
  BY DEF UtsInv
<1>2. ASSUME NEW w \in Kinds
      PROVE  /\ StringIn(newuname(w)) = Shown(w) /\ NUL \in Range(newuname(w))
             /\ IsPrefix(StringIn(olduname(w)), Shown(w))
             /\ \A i \in Len(given[w]) + 1..NEW_UTS_LEN + 1 : newuname(w)[i] = NUL
  <2>1. StringIn(uts[w]) = Shown(w)
    BY BufferHolds
  <2>2. NUL \in Range(uts[w])
    <3>1. /\ NEW_UTS_LEN + 1 \in Len(given[w]) + 1..NEW_UTS_LEN + 1
          /\ NEW_UTS_LEN + 1 \in 1..Len(uts[w]) /\ DOMAIN uts[w] = 1..Len(uts[w])
      BY BufferHolds, LenProperties
    <3>2. uts[w][NEW_UTS_LEN + 1] = NUL
      BY <3>1, BufferHolds
    <3> QED BY <3>1, <3>2 DEF Range
  <2>3. IsPrefix(StringIn(olduname(w)), Shown(w))
    BY <2>1, OldLayoutPrefix
  <2> QED BY <2>1, <2>2, <2>3, BufferHolds DEF newuname
<1> HIDE DEF Shown
<1>3. ASSUME NEW len \in 0..NEW_UTS_LEN + 2
      PROVE  IF len > Len(Shown("nodename")) THEN gethostname(len) = Append(Shown("nodename"), NUL)
             ELSE gethostname(len) = SubSeq(Shown("nodename"), 1, len)
  BY GethostnameExact DEF Shown
<1> QED BY <1>1, <1>2, <1>3, ReleaseFits DEF NamesReadBack, Shown

(* Whatever names are set, with buffers and layouts of any size: every     *)
(* reader gets the name that was last set, up to its first NUL, or the     *)
(* part of it that fits, and nothing of an earlier one.                    *)
THEOREM NamesAlwaysReadBack == UtsSpec => []NamesReadBack
BY InitUts, UtsStep, UtsExact, PTL DEF UtsSpec

-----------------------------------------------------------------------------
(* MCHomework: what the kernel reports, of every part at once.             *)

ReportsInv == PrctlInv /\ UtsInv /\ UsageInv /\ SampleInv /\ InfoInv

LEMMA ReportsStep == ReportsInv /\ [HomeworkNext]_homeworkVars => ReportsInv'
<1> SUFFICES ASSUME ReportsInv, [HomeworkNext]_homeworkVars PROVE ReportsInv'
  OBVIOUS
<1>1. /\ [PrctlNext]_prctlVars /\ [UtsNext]_utsVars
      /\ [UsageNext]_usageVars /\ [InfoNext]_memory
  BY DEF HomeworkNext, homeworkVars
<1> QED BY <1>1, PrctlStep, UtsStep, SampleStep, InfoStep DEF ReportsInv

(* What was set and used is what is reported: names, usage, memory,        *)
(* priorities and the policy for memory errors, each in any sequence of    *)
(* calls and for any sizes of buffers, words, threads and users.           *)
THEOREM ReportsStayExact == HomeworkSpec => []ReportsExact
<1>1. HomeworkInit => ReportsInv
  BY InitPrctl, InitUts, InitUsage, InitSample, InitInfo DEF HomeworkInit, ReportsInv
<1>2. ReportsInv => ReportsExact
  BY PriorityAnswersHold, UtsExact, UsageExact, InfoExact DEF ReportsInv, ReportsExact, PrctlInv
<1> QED BY <1>1, <1>2, ReportsStep, PTL DEF HomeworkSpec

-----------------------------------------------------------------------------
(* KernelModules: the lists of list_sort.                                  *)

Nodes == [type : Nat, n : Nat]
Occurs(a, x) == {i \in 1..NoOfElements : a[i] = x}
NonDecreasing(a) == \A i, j \in 1..NoOfElements : i <= j => a[i] <= a[j]
Arrays == [1..NoOfElements -> Nat]

(* out is right for the names before place r.                              *)
Covers(a, out, r) ==
  /\ {node.type : node \in ToSet(out)} = {a[i] : i \in 1..r - 1}
  /\ \A node \in ToSet(out) : node.n = Cardinality(Occurs(a, node.type))
  /\ InOrder(out)

FilteredTo(n) == /\ n \in 1..Len(ls.list) + 1 /\ InOrder(ls.filtered)
                 /\ ToSet(ls.filtered) = {node \in {ls.list[k] : k \in 1..n - 1} : Passes(node)}

(* r is where the run that the loop is in begins.                          *)
RunFrom(r) == /\ ls.an_ct = ls.i - r + 1 /\ Covers(ls.animals, ls.list, r)
              /\ \A j \in r..ls.i : ls.animals[j] = ls.animals[ls.i]
              /\ \A j \in 1..r - 1 : ls.animals[j] < ls.animals[ls.i]

ListTypes ==
  /\ ls = [pc |-> ls.pc, given |-> ls.given, animals |-> ls.animals, type |-> ls.type, count |-> ls.count,
           i |-> ls.i, an_ct |-> ls.an_ct, list |-> ls.list, filtered |-> ls.filtered, freed |-> ls.freed,
           twice |-> ls.twice]
  /\ ls.pc \in {"sort", "oops", "count", "filter"} \cup ListsBuilt /\ ls.animals \in Arrays
  /\ ls.i \in Nat /\ ls.an_ct \in Nat /\ ls.list \in Seq(Nodes) /\ ls.filtered \in Seq(Nodes)

ListInv ==
  /\ ListTypes
  /\ ls.pc = "sort" => ls.i = 1 /\ ls.an_ct = 1 /\ ls.list = <<>> /\ ls.filtered = <<>>
  /\ ls.pc \notin {"sort", "oops"} => NonDecreasing(ls.animals)
  /\ ls.pc = "count" => /\ ls.filtered = <<>> /\ ls.i \in 1..NoOfElements
                        /\ \E r \in 1..ls.i : RunFrom(r)
  /\ ls.pc \in {"filter"} \cup ListsBuilt => Covers(ls.animals, ls.list, NoOfElements + 1)
  /\ ls.pc = "filter" => FilteredTo(ls.i)
  /\ ls.pc \in ListsBuilt => FilteredTo(Len(ls.list) + 1)

LEMMA SizeIsNat == NoOfElements \in Nat /\ NoOfElements >= 1
BY ModulesAssumption

(* Neighbours in order put the whole array in order.                       *)
LEMMA AdjacentSorts ==
  ASSUME NEW a \in Arrays, \A i \in 1..NoOfElements - 1 : ~compare(a[i + 1], a[i])
  PROVE  NonDecreasing(a)
<1> DEFINE D == {d \in Nat : \A i \in 1..NoOfElements : i + d <= NoOfElements => a[i] <= a[i + d]}
<1>0. \A i \in 1..NoOfElements : a[i] \in Nat
  BY DEF Arrays
<1>1. 0 \in D
  BY <1>0
<1>2. ASSUME NEW d \in Nat, d \in D PROVE d + 1 \in D
  <2> SUFFICES ASSUME NEW i \in 1..NoOfElements, i + (d + 1) <= NoOfElements PROVE a[i] <= a[i + (d + 1)]
    OBVIOUS
  <2>1. i + d \in 1..NoOfElements - 1 /\ (i + d) + 1 = i + (d + 1) /\ i + (d + 1) \in 1..NoOfElements
    BY SizeIsNat
  <2>2. a[i] <= a[i + d]
    BY <1>2, <2>1, SizeIsNat
  <2>3. ~(a[i + (d + 1)] < a[i + d])
    BY <2>1 DEF compare
  <2>4. i + d \in 1..NoOfElements
    BY <2>1, SizeIsNat
  <2> QED BY <1>0, <2>1, <2>2, <2>3, <2>4
<1> HIDE DEF D
<1>3. \A d \in Nat : d \in D
  BY <1>1, <1>2, Induct
<1>4. ASSUME NEW i \in 1..NoOfElements, NEW j \in 1..NoOfElements, i <= j PROVE a[i] <= a[j]
  <2>1. j - i \in Nat /\ i + (j - i) = j /\ j <= NoOfElements
    BY <1>4, SizeIsNat
  <2> QED BY <1>3, <2>1 DEF D
<1> QED BY <1>4 DEF NonDecreasing

LEMMA AppendSet ==
  ASSUME NEW S, NEW s \in Seq(S), NEW x \in S
  PROVE  ToSet(Append(s, x)) = ToSet(s) \cup {x}
<1>1. /\ Append(s, x) \in Seq(S) /\ Len(Append(s, x)) = Len(s) + 1 /\ Len(s) \in Nat
      /\ \A i \in 1..Len(s) : Append(s, x)[i] = s[i]
      /\ Append(s, x)[Len(s) + 1] = x
  BY LenProperties
<1>2. DOMAIN s = 1..Len(s) /\ DOMAIN Append(s, x) = 1..Len(s) + 1
  BY <1>1, LenProperties
<1>3. 1..Len(s) + 1 = (1..Len(s)) \cup {Len(s) + 1}
  BY <1>1
<1> QED BY <1>1, <1>2, <1>3 DEF ToSet

LEMMA AppendInOrder ==
  ASSUME NEW s \in Seq(Nodes), NEW x \in Nodes, InOrder(s), \A node \in ToSet(s) : node.type < x.type
  PROVE  InOrder(Append(s, x))
<1>1. /\ Append(s, x) \in Seq(Nodes) /\ Len(Append(s, x)) = Len(s) + 1 /\ Len(s) \in Nat
      /\ \A i \in 1..Len(s) : Append(s, x)[i] = s[i]
      /\ Append(s, x)[Len(s) + 1] = x
  BY LenProperties
<1>2. DOMAIN s = 1..Len(s) /\ DOMAIN Append(s, x) = 1..Len(s) + 1
  BY <1>1, LenProperties
<1> DEFINE t == Append(s, x)
<1> HIDE DEF t
<1>3. ASSUME NEW k \in 1..Len(s) + 1, NEW l \in 1..Len(s) + 1, k < l PROVE t[k].type < t[l].type
  <2>1. k \in 1..Len(s) /\ t[k] = s[k]
    BY <1>1, <1>3 DEF t
  <2>2. CASE l = Len(s) + 1
    <3>1. s[k] \in ToSet(s) /\ t[l] = x
      BY <1>1, <1>2, <2>1, <2>2 DEF ToSet, t
    <3> QED BY <2>1, <3>1
  <2>3. CASE l # Len(s) + 1
    <3>1. l \in 1..Len(s) /\ t[l] = s[l]
      BY <1>1, <2>3 DEF t
    <3> QED BY <1>2, <1>3, <2>1, <3>1 DEF InOrder
  <2> QED BY <2>2, <2>3
<1> QED BY <1>2, <1>3 DEF InOrder, t

(* The end of a run: its name occurs there and nowhere else.               *)
LEMMA RunOccurs ==
  ASSUME NEW a \in Arrays, NonDecreasing(a), NEW i \in 1..NoOfElements, NEW r \in 1..i,
         \A j \in r..i : a[j] = a[i], \A j \in 1..r - 1 : a[j] < a[i],
         i < NoOfElements => a[i] # a[i + 1]
  PROVE  /\ Cardinality(Occurs(a, a[i])) = i - r + 1
         /\ i < NoOfElements => \A j \in 1..i : a[j] < a[i + 1]
<1>0. \A j \in 1..NoOfElements : a[j] \in Nat
  BY DEF Arrays
<1>1. ASSUME i < NoOfElements PROVE i + 1 \in 1..NoOfElements /\ a[i] < a[i + 1]
  <2>1. i + 1 \in 1..NoOfElements
    BY <1>1, SizeIsNat
  <2>2. a[i] <= a[i + 1]
    BY <2>1 DEF NonDecreasing
  <2> QED BY <1>0, <1>1, <2>1, <2>2
<1>2. ASSUME NEW j \in 1..NoOfElements, j > i PROVE a[j] # a[i]
  <2>1. i < NoOfElements /\ i + 1 <= j
    BY <1>2, SizeIsNat
  <2>2. a[i + 1] <= a[j]
    BY <1>1, <2>1 DEF NonDecreasing
  <2> QED BY <1>0, <1>1, <2>1, <2>2
<1>3. ASSUME NEW j \in 1..NoOfElements, j < r PROVE a[j] # a[i]
  <2>1. j \in 1..r - 1
    BY <1>3, SizeIsNat
  <2> QED BY <1>0, <2>1
<1>4. Occurs(a, a[i]) = r..i
  <2>1. ASSUME NEW j \in r..i PROVE j \in Occurs(a, a[i])
    <3>1. j \in 1..NoOfElements
      BY SizeIsNat
    <3> QED BY <3>1 DEF Occurs
  <2>2. ASSUME NEW j \in Occurs(a, a[i]) PROVE j \in r..i
    <3>1. j \in 1..NoOfElements /\ a[j] = a[i]
      BY DEF Occurs
    <3>2. ~(j > i) /\ ~(j < r)
      BY <1>2, <1>3, <3>1
    <3> QED BY <3>1, <3>2, SizeIsNat
  <2> QED BY <2>1, <2>2
<1>5. Cardinality(r..i) = i - r + 1
  <2>1. r \in Int /\ i \in Int /\ ~(r > i)
    BY SizeIsNat
  <2> QED BY <2>1, FS_Interval
<1>6. ASSUME i < NoOfElements, NEW j \in 1..i PROVE a[j] < a[i + 1]
  <2>1. j \in 1..NoOfElements /\ j <= i
    BY SizeIsNat
  <2>2. a[j] <= a[i]
    BY <2>1 DEF NonDecreasing
  <2> QED BY <1>0, <1>1, <1>6, <2>1, <2>2
<1> QED BY <1>4, <1>5, <1>6

LEMMA RunCovers ==
  ASSUME NEW a \in Arrays, NonDecreasing(a), NEW i \in 1..NoOfElements, NEW r \in 1..i,
         \A j \in r..i : a[j] = a[i], \A j \in 1..r - 1 : a[j] < a[i],
         i < NoOfElements => a[i] # a[i + 1],
         NEW out \in Seq(Nodes), Covers(a, out, r)
  PROVE  /\ Node(a[i], i - r + 1) \in Nodes
         /\ Covers(a, Append(out, Node(a[i], i - r + 1)), i + 1)
<1> DEFINE x == Node(a[i], i - r + 1)
<1>1. x \in Nodes /\ x.type = a[i] /\ x.n = i - r + 1 /\ a[i] \in Nat
  BY DEF Node, Nodes, Arrays
<1> HIDE DEF x
<1>2. ToSet(Append(out, x)) = ToSet(out) \cup {x}
  BY <1>1, AppendSet
<1>3. {node.type : node \in ToSet(Append(out, x))} = {a[j] : j \in 1..(i + 1) - 1}
  <2>1. {node.type : node \in ToSet(Append(out, x))} = {a[j] : j \in 1..r - 1} \cup {a[i]}
    BY <1>1, <1>2 DEF Covers
  <2>2. 1..(i + 1) - 1 = (1..r - 1) \cup (r..i) /\ i \in r..i
    BY SizeIsNat
  <2> QED BY <2>1, <2>2
<1>4. \A node \in ToSet(Append(out, x)) : node.n = Cardinality(Occurs(a, node.type))
  BY <1>1, <1>2, RunOccurs DEF Covers
<1>5. ASSUME NEW node \in ToSet(out) PROVE node.type < x.type
  <2>1. node.type \in {a[j] : j \in 1..r - 1}
    BY DEF Covers
  <2> QED BY <1>1, <2>1
<1>6. InOrder(Append(out, x))
  BY <1>1, <1>5, AppendInOrder DEF Covers
<1> QED BY <1>1, <1>3, <1>4, <1>6 DEF Covers, x

(* Filtering looks at one more node.                                       *)
LEMMA FilterStep ==
  ASSUME ListTypes, InOrder(ls.list), NEW n, FilteredTo(n), n <= Len(ls.list),
         NEW out, out = IF Passes(ls.list[n]) THEN Append(ls.filtered, ls.list[n]) ELSE ls.filtered
  PROVE  /\ n + 1 \in 1..Len(ls.list) + 1 /\ out \in Seq(Nodes) /\ InOrder(out)
         /\ ToSet(out) = {node \in {ls.list[k] : k \in 1..(n + 1) - 1} : Passes(node)}
<1> DEFINE x == ls.list[n]
           seen == {ls.list[k] : k \in 1..n - 1}
<1>1. /\ ls.list \in Seq(Nodes) /\ ls.filtered \in Seq(Nodes) /\ DOMAIN ls.list = 1..Len(ls.list)
      /\ Len(ls.list) \in Nat /\ n \in 1..Len(ls.list) /\ n \in Nat
  BY LenProperties DEF ListTypes, FilteredTo
<1>2. x \in Nodes
  BY <1>1, ElementOfSeq
<1>3. {ls.list[k] : k \in 1..(n + 1) - 1} = seen \cup {x}
  <2>1. 1..(n + 1) - 1 = (1..n - 1) \cup {n}
    BY <1>1
  <2> QED BY <2>1
<1>4. ToSet(ls.filtered) = {node \in seen : Passes(node)} /\ InOrder(ls.filtered)
  BY DEF FilteredTo
<1>5. ASSUME NEW node \in ToSet(ls.filtered) PROVE node.type < x.type
  <2>1. PICK k \in 1..n - 1 : node = ls.list[k]
    BY <1>4
  <2>2. k \in DOMAIN ls.list /\ n \in DOMAIN ls.list /\ k < n
    BY <1>1
  <2> QED BY <2>1, <2>2 DEF InOrder
<1> HIDE DEF x, seen
<1> DEFINE Goal == /\ out \in Seq(Nodes) /\ InOrder(out)
                   /\ ToSet(out) = {node \in seen \cup {x} : Passes(node)}
<1>6. ASSUME Passes(x) PROVE Goal
  <2>1. out = Append(ls.filtered, x)
    BY <1>6 DEF x
  <2>2. ToSet(out) = ToSet(ls.filtered) \cup {x} /\ InOrder(out) /\ out \in Seq(Nodes)
    BY <1>1, <1>2, <1>4, <1>5, <2>1, AppendSet, AppendInOrder
  <2>3. ToSet(out) = {node \in seen \cup {x} : Passes(node)}
    BY <1>4, <1>6, <2>2
  <2> QED BY <2>2, <2>3
<1>7. ASSUME ~Passes(x) PROVE Goal
  <2>1. out = ls.filtered
    BY <1>7 DEF x
  <2>2. ToSet(out) = {node \in seen \cup {x} : Passes(node)}
    BY <1>4, <1>7, <2>1
  <2> QED BY <1>1, <1>4, <2>1, <2>2
<1>8. n + 1 \in 1..Len(ls.list) + 1
  BY <1>1
<1> QED BY <1>3, <1>6, <1>7, <1>8

LEMMA InitList == ListInit => ListInv
<1> SUFFICES ASSUME ListInit PROVE ListInv
  OBVIOUS
<1>1. PICK g \in 0..NoOfElements, a \in [1..NoOfElements -> Animals], t \in {None} \cup Animals, n \in 0..1 :
        ls = [pc |-> "sort", given |-> g, animals |-> a, type |-> t, count |-> n, i |-> 1, an_ct |-> 1,
              list |-> <<>>, filtered |-> <<>>, freed |-> {}, twice |-> FALSE]
  <2>1. /\ ls.given \in 0..NoOfElements /\ ls.animals \in [1..NoOfElements -> Animals]
        /\ ls.type \in {None} \cup Animals /\ ls.count \in 0..1
        /\ ls = [pc |-> "sort", given |-> ls.given, animals |-> ls.animals, type |-> ls.type, count |-> ls.count,
                 i |-> 1, an_ct |-> 1, list |-> <<>>, filtered |-> <<>>, freed |-> {}, twice |-> FALSE]
    BY DEF ListInit, ListStarts
  <2> QED BY <2>1
<1>2. a \in Arrays /\ <<>> \in Seq(Nodes)
  <2>1. Animals \subseteq Nat
    BY ModulesAssumption
  <2>2. \A k \in 1..NoOfElements : a[k] \in Nat
    BY <2>1
  <2>3. a \in Arrays
    BY <2>2 DEF Arrays
  <2>4. <<>> \in Seq(Nodes)
    OBVIOUS
  <2> QED BY <2>3, <2>4
<1>3. ListTypes
  BY <1>1, <1>2 DEF ListTypes
<1> QED BY <1>1, <1>3 DEF ListInv, ListsBuilt

(* A NULL that is followed leaves nothing to say.                          *)
LEMMA OopsInv == ASSUME ListInv, Oops PROVE ListInv'
BY DEF ListInv, ListTypes, Oops, ListsBuilt

LEMMA ListSortsInv == ASSUME ListInv, ListSorts, ~Oops PROVE ListInv'
<1>1. PICK place \in Bijection(1..NoOfElements, 1..NoOfElements) :
        LET sorted == [i \in 1..NoOfElements |-> ls.animals[place[i]]]
        IN /\ \A i \in 1..NoOfElements - 1 : ~compare(sorted[i + 1], sorted[i])
           /\ ls' = [ls EXCEPT !.pc = "count", !.animals = sorted]
  BY DEF ListSorts
<1> DEFINE sorted == [i \in 1..NoOfElements |-> ls.animals[place[i]]]
<1>2. /\ ListTypes /\ ls.pc = "sort" /\ ls.i = 1 /\ ls.an_ct = 1 /\ ls.list = <<>> /\ ls.filtered = <<>>
  BY DEF ListInv, ListSorts
<1>3. sorted \in Arrays
  <2>1. place \in [1..NoOfElements -> 1..NoOfElements]
    BY DEF Bijection, Injection
  <2>2. ls.animals \in Arrays
    BY <1>2 DEF ListTypes
  <2> QED BY <2>1, <2>2 DEF Arrays
<1>4. NonDecreasing(sorted)
  <2> HIDE DEF sorted
  <2> QED BY <1>1, <1>3, AdjacentSorts DEF sorted
<1> HIDE DEF sorted
<1>5. /\ ls' = [ls EXCEPT !.pc = "count", !.animals = sorted]
  BY <1>1 DEF sorted
<1>6. /\ ls'.pc = "count" /\ ls'.animals = sorted /\ ls'.i = 1 /\ ls'.an_ct = 1
      /\ ls'.list = <<>> /\ ls'.filtered = <<>>
  BY <1>2, <1>5 DEF ListTypes
<1>7. ListTypes'
  BY <1>2, <1>3, <1>5 DEF ListTypes
<1>8. 1 \in 1..NoOfElements
  BY SizeIsNat
<1>9. Covers(sorted, <<>>, 1)
  <2>1. ToSet(<<>>) = {} /\ 1..1 - 1 = {}
    BY DEF ToSet
  <2> QED BY <2>1 DEF Covers, InOrder
<1>10. RunFrom(1)'
  BY <1>6, <1>9 DEF RunFrom
<1>11. \E r \in 1..ls'.i : RunFrom(r)'
  BY <1>6, <1>10
<1>12. /\ NonDecreasing(ls'.animals) /\ ls'.i \in 1..NoOfElements /\ ls'.filtered = <<>>
       /\ ls'.pc \notin {"sort", "oops", "filter"} \cup ListsBuilt
  BY <1>4, <1>6, <1>8 DEF ListsBuilt
<1> QED BY <1>6, <1>7, <1>11, <1>12 DEF ListInv

(* One more of the same name.                                              *)
LEMMA RunGrows ==
  ASSUME ListInv, ls.pc = "count", ls.i < NoOfElements, ls.animals[ls.i] = ls.animals[ls.i + 1],
         ls' = [ls EXCEPT !.an_ct = @ + 1, !.i = @ + 1]
  PROVE  ListInv'
<1>1. /\ ListTypes /\ ls.i \in 1..NoOfElements /\ ls.filtered = <<>> /\ NonDecreasing(ls.animals)
      /\ ls.i \in Nat /\ ls.an_ct \in Nat
  BY DEF ListInv, ListTypes
<1>2. PICK r \in 1..ls.i : RunFrom(r)
  BY DEF ListInv
<1>3. /\ ls'.pc = "count" /\ ls'.animals = ls.animals /\ ls'.i = ls.i + 1 /\ ls'.an_ct = ls.an_ct + 1
      /\ ls'.list = ls.list /\ ls'.filtered = <<>>
  BY <1>1 DEF ListTypes
<1>4. ListTypes'
  <2>1. ls.i + 1 \in Nat /\ ls.an_ct + 1 \in Nat
    BY <1>1
  <2> QED BY <1>1, <2>1 DEF ListTypes
<1>5. ls.i + 1 \in 1..NoOfElements /\ r \in 1..ls.i + 1
  BY <1>1, SizeIsNat
<1>6. ls'.an_ct = ls'.i - r + 1
  BY <1>1, <1>2, <1>3 DEF RunFrom
<1>7. \A j \in r..ls.i + 1 : ls.animals[j] = ls.animals[ls.i + 1]
  <2>1. r..ls.i + 1 = (r..ls.i) \cup {ls.i + 1}
    BY <1>1
  <2> QED BY <1>2, <2>1 DEF RunFrom
<1>8. RunFrom(r)'
  BY <1>2, <1>3, <1>6, <1>7 DEF RunFrom
<1> QED BY <1>1, <1>3, <1>4, <1>5, <1>8 DEF ListInv, ListsBuilt

(* Another name: the run becomes a node, and a new one begins.             *)
LEMMA RunEndsInv ==
  ASSUME ListInv, ls.pc = "count", ls.i < NoOfElements, ls.animals[ls.i] # ls.animals[ls.i + 1],
         ls' = RunEnds
  PROVE  ListInv'
<1> DEFINE x == Node(ls.animals[ls.i], ls.an_ct)
           out == Append(ls.list, x)
<1>1. /\ ListTypes /\ ls.i \in 1..NoOfElements /\ ls.filtered = <<>> /\ NonDecreasing(ls.animals)
      /\ ls.i \in Nat /\ ls.an_ct \in Nat /\ ls.animals \in Arrays /\ ls.list \in Seq(Nodes)
  BY DEF ListInv, ListTypes
<1>2. PICK r \in 1..ls.i : RunFrom(r)
  BY DEF ListInv
<1>3. x \in Nodes /\ Covers(ls.animals, out, ls.i + 1)
  <2>1. ls.an_ct = ls.i - r + 1 /\ Covers(ls.animals, ls.list, r)
    BY <1>2 DEF RunFrom
  <2>2. /\ \A j \in r..ls.i : ls.animals[j] = ls.animals[ls.i]
        /\ \A j \in 1..r - 1 : ls.animals[j] < ls.animals[ls.i]
    BY <1>2 DEF RunFrom
  <2> QED BY <1>1, <2>1, <2>2, RunCovers
<1>4. \A j \in 1..ls.i : ls.animals[j] < ls.animals[ls.i + 1]
  BY <1>1, <1>2, RunOccurs DEF RunFrom
<1>5. out \in Seq(Nodes)
  BY <1>1, <1>3
<1>6. ls' = [ls EXCEPT !.list = out, !.an_ct = 1, !.i = @ + 1]
  BY DEF RunEnds
<1> HIDE DEF out
<1>7. /\ ls'.pc = "count" /\ ls'.animals = ls.animals /\ ls'.i = ls.i + 1 /\ ls'.an_ct = 1
      /\ ls'.list = out /\ ls'.filtered = <<>>
  BY <1>1, <1>6 DEF ListTypes
<1>8. ListTypes'
  <2>1. ls.i + 1 \in Nat
    BY <1>1
  <2>2. ls' = [pc |-> ls'.pc, given |-> ls'.given, animals |-> ls'.animals, type |-> ls'.type,
               count |-> ls'.count, i |-> ls'.i, an_ct |-> ls'.an_ct, list |-> ls'.list,
               filtered |-> ls'.filtered, freed |-> ls'.freed, twice |-> ls'.twice]
    BY <1>1, <1>6 DEF ListTypes
  <2>3. ls'.type = ls.type /\ ls'.count = ls.count /\ ls'.freed = ls.freed /\ ls'.twice = ls.twice
    BY <1>1, <1>6 DEF ListTypes
  <2> HIDE DEF x
  <2> QED BY <1>1, <1>5, <1>7, <2>1, <2>2, <2>3 DEF ListTypes
<1>9. ls.i + 1 \in 1..NoOfElements /\ ls.i + 1 \in 1..ls.i + 1 /\ (ls.i + 1) - 1 = ls.i
  BY <1>1, SizeIsNat
<1>10. /\ 1 = (ls.i + 1) - (ls.i + 1) + 1 /\ (ls.i + 1)..(ls.i + 1) = {ls.i + 1}
  BY <1>1
<1>11. PICK k : k = ls.i + 1
  OBVIOUS
<1>12. RunFrom(k)'
  BY <1>3, <1>4, <1>7, <1>9, <1>10, <1>11 DEF RunFrom
<1> QED BY <1>1, <1>7, <1>8, <1>9, <1>11, <1>12 DEF ListInv, ListsBuilt

(* The last run, and the second loop begins.                               *)
LEMMA LastRunInv ==
  ASSUME ListInv, ls.pc = "count", ls.i = NoOfElements,
         ls' = [ls EXCEPT !.list = Append(@, Node(ls.animals[ls.i], ls.an_ct)), !.pc = "filter", !.i = 1]
  PROVE  ListInv'
<1> DEFINE x == Node(ls.animals[ls.i], ls.an_ct)
           out == Append(ls.list, x)
<1>1. /\ ListTypes /\ ls.i \in 1..NoOfElements /\ ls.filtered = <<>> /\ NonDecreasing(ls.animals)
      /\ ls.i \in Nat /\ ls.an_ct \in Nat /\ ls.animals \in Arrays /\ ls.list \in Seq(Nodes)
  BY DEF ListInv, ListTypes
<1>2. PICK r \in 1..ls.i : RunFrom(r)
  BY DEF ListInv
<1>3. x \in Nodes /\ Covers(ls.animals, out, ls.i + 1)
  <2>1. ls.an_ct = ls.i - r + 1 /\ Covers(ls.animals, ls.list, r)
    BY <1>2 DEF RunFrom
  <2>2. /\ \A j \in r..ls.i : ls.animals[j] = ls.animals[ls.i]
        /\ \A j \in 1..r - 1 : ls.animals[j] < ls.animals[ls.i]
        /\ ~(ls.i < NoOfElements)
    BY <1>2, SizeIsNat DEF RunFrom
  <2> QED BY <1>1, <2>1, <2>2, RunCovers
<1>4. out \in Seq(Nodes)
  BY <1>1, <1>3
<1>5. ls' = [ls EXCEPT !.list = out, !.pc = "filter", !.i = 1]
  OBVIOUS
<1> HIDE DEF out
<1>6. /\ ls'.pc = "filter" /\ ls'.animals = ls.animals /\ ls'.i = 1
      /\ ls'.list = out /\ ls'.filtered = <<>>
  BY <1>1, <1>5 DEF ListTypes
<1>7. ListTypes'
  <2>1. ls' = [pc |-> ls'.pc, given |-> ls'.given, animals |-> ls'.animals, type |-> ls'.type,
               count |-> ls'.count, i |-> ls'.i, an_ct |-> ls'.an_ct, list |-> ls'.list,
               filtered |-> ls'.filtered, freed |-> ls'.freed, twice |-> ls'.twice]
    BY <1>1, <1>5 DEF ListTypes
  <2>2. ls'.type = ls.type /\ ls'.count = ls.count /\ ls'.freed = ls.freed /\ ls'.twice = ls.twice
    BY <1>1, <1>5 DEF ListTypes
  <2> HIDE DEF x
  <2> QED BY <1>1, <1>4, <1>6, <2>1, <2>2 DEF ListTypes
<1>8. FilteredTo(1)'
  <2>1. ToSet(<<>>) = {} /\ 1..1 - 1 = {} /\ InOrder(<<>>)
    BY DEF ToSet, InOrder
  <2>2. 1 \in 1..Len(out) + 1
    BY <1>4, LenProperties
  <2> QED BY <1>6, <2>1, <2>2 DEF FilteredTo
<1> QED BY <1>1, <1>3, <1>6, <1>7, <1>8 DEF ListInv, ListsBuilt

LEMMA ListFiltersInv == ASSUME ListInv, ListFilters PROVE ListInv'
<1>1. /\ ListTypes /\ ls.pc = "filter" /\ NonDecreasing(ls.animals) /\ FilteredTo(ls.i)
      /\ Covers(ls.animals, ls.list, NoOfElements + 1)
  BY DEF ListInv, ListFilters
<1>2. CASE ls.i > Len(ls.list) /\ ls' = [ls EXCEPT !.pc = "loaded"]
  <2>1. /\ ls'.pc = "loaded" /\ ls'.animals = ls.animals /\ ls'.list = ls.list /\ ls'.filtered = ls.filtered
        /\ ls'.type = ls.type /\ ls'.count = ls.count
    BY <1>1, <1>2 DEF ListTypes
  <2>2. ListTypes'
    BY <1>1, <1>2 DEF ListTypes, ListsBuilt
  <2>3. ls.i = Len(ls.list) + 1
    <3>1. Len(ls.list) \in Nat
      BY <1>1, LenProperties DEF ListTypes
    <3> QED BY <1>1, <1>2, <3>1 DEF FilteredTo
  <2>4. FilteredTo(Len(ls.list) + 1)'
    BY <1>1, <2>1, <2>3 DEF FilteredTo, Passes
  <2> QED BY <1>1, <2>1, <2>2, <2>4 DEF ListInv, ListsBuilt
<1>3. CASE ls.i <= Len(ls.list)
  <2>0. PICK out : out = IF Passes(ls.list[ls.i]) THEN Append(ls.filtered, ls.list[ls.i]) ELSE ls.filtered
    OBVIOUS
  <2>1. ls' = [ls EXCEPT !.i = @ + 1, !.filtered = out]
    <3>1. Len(ls.list) \in Nat /\ ls.i \in Nat
      BY <1>1, LenProperties DEF ListTypes
    <3>2. ~(ls.i > Len(ls.list))
      BY <1>3, <3>1
    <3>3. ls' = [ls EXCEPT !.i = @ + 1, !.filtered = IF Passes(ls.list[ls.i]) THEN Append(@, ls.list[ls.i]) ELSE @]
      BY <3>2 DEF ListFilters, Passes
    <3> QED BY <2>0, <3>3
  <2>2. /\ ls.i + 1 \in 1..Len(ls.list) + 1 /\ out \in Seq(Nodes) /\ InOrder(out)
        /\ ToSet(out) = {node \in {ls.list[k] : k \in 1..(ls.i + 1) - 1} : Passes(node)}
    BY <1>1, <1>3, <2>0, FilterStep DEF Covers
  <2>3. /\ ls'.pc = "filter" /\ ls'.animals = ls.animals /\ ls'.list = ls.list /\ ls'.filtered = out
        /\ ls'.type = ls.type /\ ls'.count = ls.count /\ ls'.i = ls.i + 1
    BY <1>1, <2>1 DEF ListTypes
  <2>4. ListTypes'
    <3>1. ls.i + 1 \in Nat
      BY <1>1 DEF ListTypes
    <3> QED BY <1>1, <2>1, <2>2, <3>1 DEF ListTypes
  <2>5. FilteredTo(ls.i)'
    <3>1. PICK n : n = ls.i + 1
      OBVIOUS
    <3>2. FilteredTo(n)'
      BY <2>2, <2>3, <3>1 DEF FilteredTo, Passes
    <3> QED BY <2>3, <3>1, <3>2
  <2> QED BY <1>1, <2>3, <2>4, <2>5 DEF ListInv, ListsBuilt
<1> QED BY <1>2, <1>3 DEF ListFilters

(* Unloading leaves the lists as they are.                                 *)
LEMMA UnloadInv == ASSUME ListInv, ListExits \/ ListFrees PROVE ListInv'
<1>1. /\ ListTypes /\ ls.pc \in ListsBuilt /\ NonDecreasing(ls.animals)
      /\ Covers(ls.animals, ls.list, NoOfElements + 1) /\ FilteredTo(Len(ls.list) + 1)
  BY DEF ListInv, ListExits, ListFrees, ListsBuilt
<1>2. /\ ls'.pc \in ListsBuilt \ {"loaded"} /\ ls'.animals = ls.animals /\ ls'.list = ls.list
      /\ ls'.filtered = ls.filtered /\ ls'.type = ls.type /\ ls'.count = ls.count /\ ListTypes'
  <2>1. CASE ListExits
    <3>1. PICK to \in {"free", "free filtered", "gone"} : ls' = [ls EXCEPT !.pc = to, !.i = 1]
      BY <2>1 DEF ListExits
    <3> QED BY <1>1, <3>1 DEF ListTypes, ListsBuilt
  <2>2. CASE ListFrees
    <3>0. PICK to \in {ls.pc, "torn"} :
            ls' = [ls EXCEPT !.pc = to, !.i = @ + 1, !.freed = @ \cup {<<ls.pc, ls.i>>},
                             !.twice = @ \/ <<ls.pc, ls.i>> \in ls.freed]
      BY <2>2 DEF ListFrees
    <3>1. PICK freed, twice : ls' = [ls EXCEPT !.pc = to, !.i = @ + 1, !.freed = freed, !.twice = twice]
      BY <3>0
    <3>2. ls.i + 1 \in Nat
      BY <1>1 DEF ListTypes
    <3> QED BY <1>1, <2>2, <3>1, <3>2 DEF ListTypes, ListsBuilt, ListFrees
  <2> QED BY <2>1, <2>2
<1>3. FilteredTo(Len(ls.list) + 1)'
  BY <1>1, <1>2 DEF FilteredTo, Passes
<1> QED BY <1>1, <1>2, <1>3 DEF ListInv, ListsBuilt

(* What list_exit has freed, by where it is.                               *)
FreedInv ==
  /\ ~ls.twice
  /\ ls.pc \in {"sort", "count", "filter", "loaded"} => ls.freed = {}
  /\ ls.pc = "free" => ls.i \in 1..Len(ls.list) + 1 /\ ls.freed = {"free"} \X (1..ls.i - 1)
  /\ ls.pc = "free filtered" =>
       /\ ls.i \in 1..Len(ls.filtered) + 1
       /\ ls.freed = ({"free"} \X (1..Len(ls.list))) \cup ({"free filtered"} \X (1..ls.i - 1))
  /\ ls.pc = "gone" =>
       ls.freed = ({"free"} \X (1..Len(ls.list))) \cup ({"free filtered"} \X (1..Len(ls.filtered)))

LEMMA OneMoreNode ==
  ASSUME NEW which, NEW S, NEW n
  PROVE  {which} \X (S \cup {n}) = ({which} \X S) \cup {<<which, n>>}
OBVIOUS

LEMMA FreedStep == ASSUME ListInv, FreedInv, [ListNext]_ls PROVE FreedInv'
<1>1. ListTypes /\ Len(ls.list) \in Nat /\ Len(ls.filtered) \in Nat /\ ls.i \in Nat
  BY LenProperties DEF ListInv, ListTypes
<1>2. CASE ListExits
  <2>1. CASE ls.pc = "loaded" /\ ls' = [ls EXCEPT !.pc = "free", !.i = 1]
    <3>1. ls'.pc = "free" /\ ls'.i = 1 /\ ls'.freed = {} /\ ls'.list = ls.list /\ ls'.twice = ls.twice
      BY <1>1, <2>1 DEF ListTypes, FreedInv
    <3>2. 1 \in 1..Len(ls.list) + 1 /\ {"free"} \X (1..1 - 1) = {}
      BY <1>1
    <3> QED BY <3>1, <3>2 DEF FreedInv
  <2>2. CASE ls.pc = "free" /\ ls.i > Len(ls.list) /\ ls' = [ls EXCEPT !.pc = "free filtered", !.i = 1]
    <3>1. /\ ls'.pc = "free filtered" /\ ls'.i = 1 /\ ls'.freed = ls.freed /\ ls'.list = ls.list
          /\ ls'.filtered = ls.filtered /\ ls'.twice = ls.twice
      BY <1>1, <2>2 DEF ListTypes
    <3>2. 1 \in 1..Len(ls.filtered) + 1 /\ {"free filtered"} \X (1..1 - 1) = {}
      BY <1>1
    <3>3. ls.i - 1 = Len(ls.list) /\ ls.freed = {"free"} \X (1..ls.i - 1)
      BY <1>1, <2>2 DEF FreedInv
    <3> QED BY <3>1, <3>2, <3>3 DEF FreedInv
  <2>3. CASE /\ ls.pc = "free filtered" /\ ls.i > Len(ls.filtered) /\ ls' = [ls EXCEPT !.pc = "gone", !.i = 1]
    <3>1. /\ ls'.pc = "gone" /\ ls'.freed = ls.freed /\ ls'.list = ls.list /\ ls'.filtered = ls.filtered
          /\ ls'.twice = ls.twice
      BY <1>1, <2>3 DEF ListTypes
    <3>2. ls.i \in 1..Len(ls.filtered) + 1
      BY <2>3 DEF FreedInv
    <3>3. ls.i - 1 = Len(ls.filtered)
      <4>1. PICK n \in Nat : n = Len(ls.filtered)
        BY <1>1
      <4>2. ls.i \in 1..n + 1 /\ ls.i > n
        BY <2>3, <3>2, <4>1
      <4>3. ls.i - 1 = n
        BY <4>2
      <4> QED BY <4>1, <4>3
    <3>4. ls.freed = ({"free"} \X (1..Len(ls.list))) \cup ({"free filtered"} \X (1..ls.i - 1)) /\ ~ls.twice
      BY <2>3 DEF FreedInv
    <3> QED BY <3>1, <3>3, <3>4 DEF FreedInv
  <2> QED BY <1>2, <2>1, <2>2, <2>3 DEF ListExits
<1>3. CASE ListFrees
  <2>1. PICK to \in {ls.pc, "torn"} :
          ls' = [ls EXCEPT !.pc = to, !.i = @ + 1, !.freed = @ \cup {<<ls.pc, ls.i>>},
                           !.twice = @ \/ <<ls.pc, ls.i>> \in ls.freed]
    BY <1>3 DEF ListFrees
  <2>2. /\ ls'.pc = to /\ ls'.i = ls.i + 1 /\ ls'.freed = ls.freed \cup {<<ls.pc, ls.i>>}
        /\ ls'.list = ls.list /\ ls'.filtered = ls.filtered
        /\ ls'.twice <=> (ls.twice \/ <<ls.pc, ls.i>> \in ls.freed)
    BY <1>1, <2>1 DEF ListTypes
  <2>3. (ls.i + 1) - 1 = ls.i /\ 1..ls.i = (1..ls.i - 1) \cup {ls.i} /\ ls.i \notin 1..ls.i - 1
    <3>0. ls.i \in 1..Len(ls.list) + 1 \/ ls.i \in 1..Len(ls.filtered) + 1
      BY <1>3 DEF FreedInv, ListFrees
    <3>1. ls.i >= 1
      BY <1>1, <3>0
    <3> QED BY <1>1, <3>1
  <2>4. CASE ls.pc = "free"
    <3>1. ls.i + 1 \in 1..Len(ls.list) + 1 /\ ls.freed = {"free"} \X (1..ls.i - 1)
      BY <1>1, <1>3, <2>4 DEF FreedInv, ListFrees
    <3>2. ls'.freed = {"free"} \X (1..ls.i) /\ ~ls'.twice
      BY <2>2, <2>3, <2>4, <3>1 DEF FreedInv
    <3> QED BY <2>2, <2>3, <2>4, <3>1, <3>2 DEF FreedInv
  <2>5. CASE ls.pc = "free filtered"
    <3>0. /\ ls.freed = ({"free"} \X (1..Len(ls.list))) \cup ({"free filtered"} \X (1..ls.i - 1))
          /\ ls.i \in 1..Len(ls.filtered) + 1 /\ ~ls.twice
      BY <2>5 DEF FreedInv
    <3>1. ls.i <= Len(ls.filtered) /\ ls.i + 1 \in 1..Len(ls.filtered) + 1
      <4>1. PICK n \in Nat : n = Len(ls.filtered)
        BY <1>1
      <4>2. ls.i \in 1..n + 1 /\ ls.i <= n
        BY <1>3, <2>5, <3>0, <4>1 DEF ListFrees
      <4>3. ls.i + 1 \in 1..n + 1
        BY <4>2
      <4> QED BY <4>1, <4>2, <4>3
    <3>2. /\ ls'.freed = ({"free"} \X (1..Len(ls.list))) \cup ({"free filtered"} \X (1..ls.i))
          /\ ~ls'.twice
      <4>1. <<"free filtered", ls.i>> \notin ls.freed
        BY <2>3, <3>0
      <4>2. ls'.freed = ls.freed \cup {<<"free filtered", ls.i>>}
        BY <2>2, <2>5
      <4>3. {"free filtered"} \X (1..ls.i) = ({"free filtered"} \X (1..ls.i - 1)) \cup {<<"free filtered", ls.i>>}
        <5>1. PICK upto, i, which : upto = 1..ls.i - 1 /\ i = ls.i /\ which = "free filtered"
          OBVIOUS
        <5>2. 1..ls.i = upto \cup {i}
          BY <2>3, <5>1
        <5>3. {which} \X (upto \cup {i}) = ({which} \X upto) \cup {<<which, i>>}
          BY OneMoreNode
        <5> QED BY <5>1, <5>2, <5>3
      <4> QED BY <2>2, <2>5, <3>0, <4>1, <4>2, <4>3
    <3> QED BY <2>2, <2>3, <2>5, <3>1, <3>2 DEF FreedInv
  <2> QED BY <1>3, <2>4, <2>5 DEF ListFrees
<1>4. CASE ListSorts \/ ListCounts \/ ListFilters \/ KmallocFails
  <2>1. /\ ls'.freed = ls.freed /\ ls'.twice = ls.twice /\ ls.pc \in {"sort", "count", "filter"}
        /\ ls'.pc \in {"sort", "oops", "count", "filter", "loaded"}
    <3>1. CASE ListSorts
      BY <1>1, <3>1 DEF ListSorts, Oops, ListTypes
    <3>2. CASE ListCounts
      BY <1>1, <3>2 DEF ListCounts, RunEnds, ListTypes
    <3>3. CASE ListFilters
      BY <1>1, <3>3 DEF ListFilters, ListTypes
    <3>4. CASE KmallocFails
      BY <1>1, <3>4 DEF KmallocFails, Oops, ListTypes
    <3> QED BY <1>4, <3>1, <3>2, <3>3, <3>4
  <2> QED BY <2>1 DEF FreedInv
<1>5. CASE UNCHANGED ls
  BY <1>5 DEF FreedInv
<1> QED BY <1>2, <1>3, <1>4, <1>5 DEF ListNext

LEMMA FreedRight == ListInv /\ FreedInv => NodesFreed
<1> SUFFICES ASSUME ListInv, FreedInv PROVE NodesFreed
  OBVIOUS
<1>1. DOMAIN ls.list = 1..Len(ls.list) /\ DOMAIN ls.filtered = 1..Len(ls.filtered)
  BY LenProperties DEF ListInv, ListTypes
<1> QED BY <1>1 DEF NodesFreed, FreedInv

LEMMA ListStep == ListInv /\ [ListNext]_ls => ListInv'
<1> SUFFICES ASSUME ListInv, [ListNext]_ls PROVE ListInv'
  OBVIOUS
<1>1. CASE UNCHANGED ls
  BY <1>1 DEF ListInv, ListTypes, RunFrom, FilteredTo, Passes
<1>2. CASE ListCounts
  BY <1>2, RunGrows, RunEndsInv, LastRunInv DEF ListCounts
<1>3. CASE Oops
  BY <1>3, OopsInv
<1>4. CASE KmallocFails
  BY <1>4, OopsInv DEF KmallocFails
<1> QED BY <1>1, <1>2, <1>3, <1>4, ListSortsInv, ListFiltersInv, UnloadInv DEF ListNext

LEMMA ListExact == ListInv => ListsComplete
<1> SUFFICES ASSUME ListInv, ls.pc \in ListsBuilt PROVE ListsComplete
  BY DEF ListsComplete
<1>1. /\ ListTypes /\ Covers(ls.animals, ls.list, NoOfElements + 1) /\ FilteredTo(Len(ls.list) + 1)
  BY DEF ListInv
<1>2. {node.type : node \in ToSet(ls.list)} = ToSet(ls.animals)
  <2>1. DOMAIN ls.animals = 1..NoOfElements /\ (NoOfElements + 1) - 1 = NoOfElements
    BY <1>1, SizeIsNat DEF ListTypes, Arrays
  <2> QED BY <1>1, <2>1 DEF Covers, ToSet
<1>3. ToSet(ls.filtered) = {node \in ToSet(ls.list) : ls.type \in {None, node.type} /\ node.n > ls.count}
  <2>1. DOMAIN ls.list = 1..Len(ls.list) /\ (Len(ls.list) + 1) - 1 = Len(ls.list)
    BY <1>1, LenProperties DEF ListTypes
  <2>2. {ls.list[k] : k \in 1..(Len(ls.list) + 1) - 1} = ToSet(ls.list)
    BY <2>1 DEF ToSet
  <2> QED BY <1>1, <2>2 DEF FilteredTo, Passes
<1>4. ToSet(ls.filtered) = {node \in ToSet(ls.list) : Passes(node)}
  BY <1>3 DEF Passes
<1>5. InOrder(ls.list) /\ InOrder(ls.filtered)
  BY <1>1 DEF Covers, FilteredTo
<1>6. \A node \in ToSet(ls.list) : node.n = Cardinality({i \in 1..NoOfElements : ls.animals[i] = node.type})
  BY <1>1 DEF Covers, Occurs
<1> QED BY <1>2, <1>4, <1>5, <1>6 DEF ListsComplete

(* Any array of any length: once the module is loaded, and for as long as  *)
(* its lists are there, each name is listed once, in order, with the       *)
(* number of its occurrences, and the filtered list has exactly the nodes  *)
(* that pass.                                                              *)
THEOREM ListsStayComplete == ListInit /\ [][ListNext]_ls => []ListsComplete
BY InitList, ListStep, ListExact, PTL

LEMMA InitAnyList == Starts("list", ls, ListStarts) => ListInit
<1>1. ListStarts # {}
  <2>1. PICK x \in Animals : TRUE
    BY ModulesAssumption
  <2>2. [pc |-> "sort", given |-> NoOfElements, animals |-> [i \in 1..NoOfElements |-> x], type |-> None, count |-> 0,
         i |-> 1, an_ct |-> 1, list |-> <<>>, filtered |-> <<>>, freed |-> {}, twice |-> FALSE] \in ListStarts
    BY SizeIsNat DEF ListStarts
  <2> QED BY <2>2
<1> QED BY <1>1 DEF Starts, ListInit

(* Both modules, for any names and any machine: the lists are right, each  *)
(* node is freed once unless a link changed under list_exit, and nothing   *)
(* of the timer runs or is queued once its module is being unloaded unless *)
(* del_timer met its function.                                             *)
THEOREM ModulesStaySound == HomeworkSpec => []ModulesSound
<1> DEFINE SoundInv == ListInv /\ FreedInv /\ TimerInv
<1>1. HomeworkInit => SoundInv
  <2>1. ListInit => FreedInv
    BY DEF ListInit, ListStarts, FreedInv
  <2> QED BY <2>1, InitList, InitAnyList, InitTimer DEF HomeworkInit
<1>2. SoundInv /\ [HomeworkNext]_homeworkVars => SoundInv'
  <2> SUFFICES ASSUME SoundInv, [HomeworkNext]_homeworkVars PROVE SoundInv'
    OBVIOUS
  <2>1. [ListNext]_ls /\ [TimerNext]_tm
    BY DEF HomeworkNext, homeworkVars
  <2> QED BY <2>1, ListStep, FreedStep, TimerStep
<1>3. SoundInv => ModulesSound
  BY ListExact, FreedRight DEF ModulesSound, TimerInv
<1> QED BY <1>1, <1>2, <1>3, PTL DEF HomeworkSpec

-----------------------------------------------------------------------------
(* SysSort: what sorting returns.                                          *)

Between(S, n) == [1..n -> S]

(* b has the elements of a in another order, those at places outside S     *)
(* where they were.                                                        *)
Rearranged(b, a, n, S) ==
  \E p, q \in Between(1..n, n) :
    \A k \in 1..n : q[p[k]] = k /\ p[q[k]] = k /\ b[k] = a[p[k]] /\ (k \notin S => p[k] = k)

LEMMA NotRearranged ==
  ASSUME NEW n \in Nat, NEW a, NEW S
  PROVE  Rearranged(a, a, n, S)
<1> DEFINE id == [k \in 1..n |-> k]
<1>1. id \in Between(1..n, n) /\ \A k \in 1..n : id[k] = k
  BY DEF Between
<1> HIDE DEF id
<1> QED BY <1>1 DEF Rearranged

LEMMA RearrangedAgain ==
  ASSUME NEW n \in Nat, NEW a, NEW b, NEW c, NEW S, NEW T, NEW U, S \subseteq U, T \subseteq U,
         Rearranged(b, a, n, S), Rearranged(c, b, n, T)
  PROVE  Rearranged(c, a, n, U)
<1>1. PICK p1, q1 \in Between(1..n, n) :
        \A k \in 1..n : q1[p1[k]] = k /\ p1[q1[k]] = k /\ b[k] = a[p1[k]] /\ (k \notin S => p1[k] = k)
  BY DEF Rearranged
<1>2. PICK p2, q2 \in Between(1..n, n) :
        \A k \in 1..n : q2[p2[k]] = k /\ p2[q2[k]] = k /\ c[k] = b[p2[k]] /\ (k \notin T => p2[k] = k)
  BY DEF Rearranged
<1> DEFINE there == [k \in 1..n |-> p1[p2[k]]]
           back == [k \in 1..n |-> q2[q1[k]]]
<1>3. \A k \in 1..n : p1[k] \in 1..n /\ q1[k] \in 1..n /\ p2[k] \in 1..n /\ q2[k] \in 1..n
  BY DEF Between
<1>4. there \in Between(1..n, n) /\ back \in Between(1..n, n)
  BY <1>3 DEF Between
<1>5. ASSUME NEW k \in 1..n
      PROVE  back[there[k]] = k /\ there[back[k]] = k /\ c[k] = a[there[k]] /\ (k \notin U => there[k] = k)
  BY <1>1, <1>2, <1>3
<1>6. \E x, y \in Between(1..n, n) :
        \A k \in 1..n : y[x[k]] = k /\ x[y[k]] = k /\ c[k] = a[x[k]] /\ (k \notin U => x[k] = k)
  <2> HIDE DEF there, back
  <2> QED BY <1>4, <1>5
<1> QED BY <1>6 DEF Rearranged

(* An element at a place in S comes from a place in S, the others stay.    *)
LEMMA ComesFromInside ==
  ASSUME NEW n \in Nat, NEW a, NEW b, NEW S, Rearranged(b, a, n, S), NEW k \in 1..n
  PROVE  /\ k \in S => \E l \in 1..n : l \in S /\ b[k] = a[l]
         /\ k \notin S => b[k] = a[k]
<1>1. PICK p, q \in Between(1..n, n) :
        \A i \in 1..n : q[p[i]] = i /\ p[q[i]] = i /\ b[i] = a[p[i]] /\ (i \notin S => p[i] = i)
  BY DEF Rearranged
<1>2. p[k] \in 1..n
  BY DEF Between
<1>3. p[k] \notin S => p[p[k]] = p[k] /\ q[p[p[k]]] = p[k]
  BY <1>1, <1>2
<1> QED BY <1>1, <1>2, <1>3

LEMMA SwapRearranges ==
  ASSUME NEW n \in Nat, NEW a \in Between(Int, n), NEW i \in 0..n - 1, NEW j \in 0..n - 1,
         NEW S, i + 1 \in S, j + 1 \in S
  PROVE  /\ Swap(a, i, j) \in Between(Int, n) /\ Rearranged(Swap(a, i, j), a, n, S)
         /\ \A k \in 1..n : Swap(a, i, j)[k] = IF k = j + 1 THEN a[i + 1] ELSE IF k = i + 1 THEN a[j + 1] ELSE a[k]
<1> DEFINE p == [k \in 1..n |-> IF k = j + 1 THEN i + 1 ELSE IF k = i + 1 THEN j + 1 ELSE k]
<1>1. i + 1 \in 1..n /\ j + 1 \in 1..n /\ DOMAIN a = 1..n /\ \A k \in 1..n : a[k] \in Int
  BY DEF Between
<1>2. \A k \in 1..n : Swap(a, i, j)[k] = IF k = j + 1 THEN a[i + 1] ELSE IF k = i + 1 THEN a[j + 1] ELSE a[k]
  BY <1>1 DEF Swap
<1>3. Swap(a, i, j) \in Between(Int, n)
  BY <1>1 DEF Swap, Between
<1>4. p \in Between(1..n, n)
  BY <1>1 DEF Between
<1>5. \A k \in 1..n : p[p[k]] = k /\ Swap(a, i, j)[k] = a[p[k]] /\ (k \notin S => p[k] = k)
  BY <1>1, <1>2
<1> HIDE DEF p
<1> QED BY <1>2, <1>3, <1>4, <1>5 DEF Rearranged

LEMMA SwapIs ==
  ASSUME NEW n \in Nat, NEW a \in Between(Int, n), NEW i \in 0..n - 1, NEW j \in 0..n - 1, NEW k \in 1..n
  PROVE  Swap(a, i, j)[k] = IF k = j + 1 THEN a[i + 1] ELSE IF k = i + 1 THEN a[j + 1] ELSE a[k]
<1>1. i + 1 \in {i + 1, j + 1} /\ j + 1 \in {i + 1, j + 1}
  OBVIOUS
<1> QED BY <1>1, SwapRearranges

LEMMA RearrangedInBetween ==
  ASSUME NEW n \in Nat, NEW a \in Between(Int, n), NEW S, NEW b, Rearranged(b, a, n, S)
  PROVE  \A k \in 1..n : b[k] \in Int
BY DEF Rearranged, Between

(* The loop of get_partition_index satisfies its equation.                 *)
LEMMA LoopIs ==
  ASSUME NEW a, NEW low \in Int, NEW high \in Int, low <= high
  PROVE  /\ PartitionLoop(a, low, high)[low] = [a |-> a, i |-> low]
         /\ \A j \in low..high : j # low => PartitionLoop(a, low, high)[j]
                                            = Compared(PartitionLoop(a, low, high)[j - 1], j, a[high + 1])
<1> DEFINE F(f, m) == [j \in low..m |-> IF j = low THEN [a |-> a, i |-> low] ELSE Compared(f[j - 1], j, a[high + 1])]
           D == {d \in Nat : \E f : f = F(f, low + d)}
<1>1. 0 \in D
  <2> DEFINE f == [j \in low..low |-> [a |-> a, i |-> low]]
  <2>1. F(f, low) = f
    OBVIOUS
  <2>2. low + 0 = low
    OBVIOUS
  <2> QED BY <2>1, <2>2
<1>2. ASSUME NEW d \in Nat, d \in D PROVE d + 1 \in D
  <2>1. PICK f : f = F(f, low + d)
    BY <1>2
  <2> DEFINE m == low + (d + 1)
             g == [j \in low..m |-> IF j = m THEN Compared(f[m - 1], m, a[high + 1]) ELSE f[j]]
  <2>2. m \in Int /\ m > low /\ m - 1 = low + d
    OBVIOUS
  <2>3. ASSUME NEW j \in low..m PROVE g[j] = F(g, m)[j]
    <3>1. CASE j = m
      <4>1. m - 1 \in low..m /\ m - 1 # m
        BY <2>2
      <4>2. g[m - 1] = f[m - 1]
        BY <4>1
      <4> QED BY <2>2, <3>1, <4>2
    <3>2. CASE j # m /\ j = low
      <4>1. j \in low..low + d
        BY <2>2, <3>2
      <4>2. f[j] = [a |-> a, i |-> low]
        BY <2>1, <3>2, <4>1
      <4> QED BY <3>2, <4>2
    <3>3. CASE j # m /\ j # low
      <4>1. j \in low..low + d /\ j - 1 \in low..m /\ j - 1 # m
        BY <2>2, <3>3
      <4>2. f[j] = Compared(f[j - 1], j, a[high + 1])
        BY <2>1, <3>3, <4>1
      <4>3. g[j] = f[j] /\ g[j - 1] = f[j - 1]
        BY <3>3, <4>1
      <4> QED BY <3>3, <4>2, <4>3
    <3> QED BY <3>1, <3>2, <3>3
  <2>4. g = F(g, m)
    <3> HIDE DEF m
    <3> QED BY <2>3
  <2> HIDE DEF g
  <2> QED BY <2>4
<1>3. high - low \in D
  <2> HIDE DEF D
  <2>1. \A d \in Nat : d \in D => d + 1 \in D
    BY <1>2
  <2>2. Nat \subseteq D
    BY <1>1, <2>1, Induct
  <2> QED BY <2>2
<1>4. \E f : f = F(f, high)
  <2>1. low + (high - low) = high
    OBVIOUS
  <2> QED BY <1>3, <2>1
<1> DEFINE L == CHOOSE f : f = F(f, high)
<1>5. L = F(L, high)
  BY <1>4
<1>6. PartitionLoop(a, low, high) = L
  BY Zenon DEF PartitionLoop
<1> HIDE DEF L
<1> QED BY <1>5, <1>6

(* What the loop has done when it has seen the elements below j.           *)
Seen(s, a, n, low, high, j) ==
  /\ s.a \in Between(Int, n) /\ Rearranged(s.a, a, n, low + 1..high) /\ s.i \in low..j
  /\ \A k \in low..s.i - 1 : s.a[k + 1] >= a[high + 1]
  /\ \A k \in s.i..j - 1 : s.a[k + 1] < a[high + 1]

LEMMA OneMoreSeen ==
  ASSUME NEW n \in Nat, NEW a \in Between(Int, n), NEW low \in 0..n - 1, NEW high \in 0..n - 1,
         NEW j \in low..high - 1, NEW s, Seen(s, a, n, low, high, j)
  PROVE  Seen(Compared(s, j + 1, a[high + 1]), a, n, low, high, j + 1)
<1> DEFINE pivot == a[high + 1]
           t == Compared(s, j + 1, pivot)
<1>1. /\ s.a \in Between(Int, n) /\ Rearranged(s.a, a, n, low + 1..high) /\ s.i \in low..j
      /\ \A k \in low..s.i - 1 : s.a[k + 1] >= pivot
      /\ \A k \in s.i..j - 1 : s.a[k + 1] < pivot
  BY DEF Seen
<1>2. /\ \A k \in 1..n : s.a[k] \in Int /\ a[k] \in Int
      /\ j + 1 \in 1..n /\ pivot \in Int /\ s.i \in Int
  <2>1. s.a \in [1..n -> Int] /\ a \in [1..n -> Int]
    BY <1>1 DEF Between
  <2>2. j + 1 \in 1..n /\ high + 1 \in 1..n
    OBVIOUS
  <2>3. s.i \in Int
    BY <1>1
  <2> QED BY <2>1, <2>2, <2>3
<1>3. CASE s.a[j + 1] >= pivot
  <2>1. t = [a |-> Swap(s.a, j, s.i), i |-> s.i + 1]
    <3>1. (j + 1) - 1 = j
      OBVIOUS
    <3> QED BY <1>3, <3>1 DEF Compared
  <2>2. /\ Swap(s.a, j, s.i) \in Between(Int, n) /\ Rearranged(Swap(s.a, j, s.i), s.a, n, low + 1..high)
        /\ \A k \in 1..n : Swap(s.a, j, s.i)[k] = IF k = s.i + 1 THEN s.a[j + 1] ELSE IF k = j + 1 THEN s.a[s.i + 1] ELSE s.a[k]
    <3>1. s.i \in 0..n - 1 /\ j \in 0..n - 1 /\ s.i + 1 \in low + 1..high /\ j + 1 \in low + 1..high
      BY <1>1
    <3>2. PICK c \in Between(Int, n), i \in 0..n - 1, T \in {low + 1..high} : c = s.a /\ i = s.i
      BY <1>1, <3>1
    <3>3. i + 1 \in T /\ j + 1 \in T /\ j \in 0..n - 1
      BY <3>1, <3>2
    <3>4. Swap(c, j, i) \in Between(Int, n)
      BY <3>3, SwapRearranges
    <3>5. Rearranged(Swap(c, j, i), c, n, T)
      BY <3>3, SwapRearranges
    <3>6. \A k \in 1..n : Swap(c, j, i)[k] = IF k = i + 1 THEN c[j + 1] ELSE IF k = j + 1 THEN c[i + 1] ELSE c[k]
      BY <3>3, SwapIs
    <3> QED BY <3>2, <3>4, <3>5, <3>6
  <2>3. Rearranged(t.a, a, n, low + 1..high)
    BY <1>1, <2>1, <2>2, RearrangedAgain
  <2>4. t.i \in low..j + 1
    BY <1>1, <2>1
  <2>5. ASSUME NEW k \in low..s.i PROVE t.a[k + 1] >= pivot
    <3>1. k + 1 \in 1..n
      BY <1>1
    <3>2. CASE k = s.i
      BY <1>3, <2>1, <2>2, <3>1, <3>2
    <3>3. CASE k # s.i
      BY <1>1, <1>3, <2>1, <2>2, <3>1, <3>3
    <3> QED BY <3>2, <3>3
  <2>6. ASSUME NEW k \in s.i + 1..j PROVE t.a[k + 1] < pivot
    <3>1. k + 1 \in 1..n /\ k + 1 # s.i + 1
      BY <1>1
    <3>2. CASE k = j
      <4>1. t.a[k + 1] = s.a[s.i + 1] /\ s.i \in s.i..j - 1
        BY <1>1, <2>1, <2>2, <3>1, <3>2
      <4> QED BY <1>1, <4>1
    <3>3. CASE k # j
      <4>1. t.a[k + 1] = s.a[k + 1] /\ k \in s.i..j - 1
        BY <1>1, <2>1, <2>2, <3>1, <3>3
      <4> QED BY <1>1, <4>1
    <3> QED BY <3>2, <3>3
  <2>7. t.i = s.i + 1 /\ t.a \in Between(Int, n)
    BY <2>1, <2>2
  <2>8. /\ \A k \in low..t.i - 1 : t.a[k + 1] >= pivot
        /\ \A k \in t.i..(j + 1) - 1 : t.a[k + 1] < pivot
    <3>1. t.i - 1 = s.i /\ (j + 1) - 1 = j
      BY <1>2, <2>7
    <3> HIDE DEF t, pivot
    <3> QED BY <2>5, <2>6, <2>7, <3>1
  <2>9. Seen(t, a, n, low, high, j + 1)
    <3> HIDE DEF t
    <3> QED BY <2>3, <2>4, <2>7, <2>8 DEF Seen
  <2> QED BY <2>9
<1>4. CASE ~(s.a[j + 1] >= pivot)
  <2>1. t = s
    BY <1>4 DEF Compared
  <2>2. s.a[j + 1] < pivot
    BY <1>2, <1>4
  <2>3. s.i \in low..j + 1
    BY <1>1
  <2>4. ASSUME NEW k \in s.i..(j + 1) - 1 PROVE s.a[k + 1] < pivot
    <3>1. k = j \/ k \in s.i..j - 1
      BY <1>1
    <3> QED BY <1>1, <2>2, <3>1
  <2> QED BY <1>1, <2>1, <2>3, <2>4 DEF Seen
<1> QED BY <1>3, <1>4

(* part is a partition of a between low and high.                          *)
Partitions(part, a, n, low, high) ==
  /\ part.a \in Between(Int, n) /\ Rearranged(part.a, a, n, low + 1..high + 1) /\ part.i \in low..high
  /\ \A k \in low..part.i - 1 : part.a[k + 1] >= part.a[part.i + 1]
  /\ \A k \in part.i + 1..high : part.a[part.i + 1] >= part.a[k + 1]

LEMMA IsPartition ==
  ASSUME NEW n \in Nat, NEW a \in Between(Int, n), NEW low \in 0..n - 1, NEW high \in 0..n - 1, low <= high
  PROVE  Partitions(get_partition_index(a, low, high), a, n, low, high)
<1> DEFINE loop(j) == PartitionLoop(a, low, high)[j]
           pivot == a[high + 1]
           S == {d \in Nat : low + d <= high => Seen(loop(low + d), a, n, low, high, low + d)}
<1>1. loop(low) = [a |-> a, i |-> low] /\ \A j \in low..high : j # low => loop(j) = Compared(loop(j - 1), j, pivot)
  BY LoopIs
<1>2. Seen([a |-> a, i |-> low], a, n, low, high, low)
  BY NotRearranged DEF Seen
<1> HIDE DEF loop
<1>3. 0 \in S
  <2>1. low + 0 = low
    OBVIOUS
  <2> QED BY <1>1, <1>2, <2>1
<1>4. ASSUME NEW d \in Nat, d \in S PROVE d + 1 \in S
  <2> SUFFICES ASSUME low + (d + 1) <= high PROVE Seen(loop(low + (d + 1)), a, n, low, high, low + (d + 1))
    OBVIOUS
  <2>1. PICK j \in low..high - 1 : j = low + d
    OBVIOUS
  <2>2. low + (d + 1) = j + 1 /\ j + 1 \in low..high /\ j + 1 # low /\ (j + 1) - 1 = j /\ low + d <= high
    BY <2>1
  <2>3. Seen(loop(j), a, n, low, high, j)
    BY <1>4, <2>1, <2>2
  <2>4. loop(j + 1) = Compared(loop(j), j + 1, pivot)
    BY <1>1, <2>2
  <2> QED BY <2>2, <2>3, <2>4, OneMoreSeen
<1>5. Seen(loop(high), a, n, low, high, high)
  <2> HIDE DEF S
  <2>1. Nat \subseteq S
    BY <1>3, <1>4, Induct
  <2>2. high - low \in S /\ low + (high - low) = high
    BY <2>1
  <2> QED BY <2>2 DEF S
<1>6. PICK s : s = loop(high)
  OBVIOUS
<1>7. /\ s.a \in Between(Int, n) /\ Rearranged(s.a, a, n, low + 1..high) /\ s.i \in low..high
      /\ \A k \in low..s.i - 1 : s.a[k + 1] >= pivot
      /\ \A k \in s.i..high - 1 : s.a[k + 1] < pivot
  BY <1>5, <1>6 DEF Seen
<1>8. high + 1 \in 1..n /\ high + 1 \notin low + 1..high
  OBVIOUS
<1>9. s.a[high + 1] = pivot
  BY <1>7, <1>8, ComesFromInside
<1> DEFINE b == Swap(s.a, s.i, high)
<1>10. get_partition_index(a, low, high) = [a |-> b, i |-> s.i]
  BY <1>6 DEF get_partition_index, loop
<1>11. /\ b \in Between(Int, n) /\ Rearranged(b, s.a, n, low + 1..high + 1)
       /\ \A k \in 1..n : b[k] = IF k = high + 1 THEN s.a[s.i + 1] ELSE IF k = s.i + 1 THEN s.a[high + 1] ELSE s.a[k]
  <2>1. s.i \in 0..n - 1 /\ s.i + 1 \in low + 1..high + 1 /\ high + 1 \in low + 1..high + 1
    BY <1>7
  <2>2. PICK c \in Between(Int, n), i \in 0..n - 1, T \in {low + 1..high + 1} : c = s.a /\ i = s.i
    BY <1>7, <2>1
  <2>3. i + 1 \in T /\ high + 1 \in T
    BY <2>1, <2>2
  <2>4. Swap(c, i, high) \in Between(Int, n)
    BY <2>3, SwapRearranges
  <2>5. Rearranged(Swap(c, i, high), c, n, T)
    BY <2>3, SwapRearranges
  <2>6. \A k \in 1..n : Swap(c, i, high)[k] = IF k = high + 1 THEN c[i + 1] ELSE IF k = i + 1 THEN c[high + 1] ELSE c[k]
    BY <2>1, SwapIs
  <2> QED BY <2>2, <2>4, <2>5, <2>6
<1> HIDE DEF b
<1>12. Rearranged(b, a, n, low + 1..high + 1)
  <2>1. low + 1..high \subseteq low + 1..high + 1
    OBVIOUS
  <2> QED BY <1>7, <1>11, <2>1, RearrangedAgain
<1>13. b[s.i + 1] = pivot
  <2>1. s.i + 1 \in 1..n
    BY <1>7
  <2> QED BY <1>9, <1>11, <2>1
<1>14. /\ \A k \in 1..n : s.a[k] \in Int /\ b[k] \in Int
       /\ pivot \in Int
  BY <1>7, <1>8, <1>11 DEF Between
<1>15. ASSUME NEW k \in low..s.i - 1 PROVE b[k + 1] >= pivot
  <2>1. k + 1 \in 1..n /\ k + 1 # high + 1 /\ k + 1 # s.i + 1
    BY <1>7
  <2> QED BY <1>7, <1>11, <2>1
<1>16. ASSUME NEW k \in s.i + 1..high PROVE pivot >= b[k + 1]
  <2>1. k + 1 \in 1..n /\ k + 1 # s.i + 1 /\ s.i + 1 \in 1..n
    BY <1>7
  <2>2. CASE k = high
    <3>1. b[k + 1] = s.a[s.i + 1]
      BY <1>11, <2>1, <2>2
    <3>2. s.a[s.i + 1] < pivot
      <4>1. s.i \in s.i..high - 1
        BY <1>7, <2>2
      <4> QED BY <1>7, <4>1
    <3> QED BY <1>14, <2>1, <3>1, <3>2
  <2>3. CASE k # high
    <3>1. b[k + 1] = s.a[k + 1]
      BY <1>11, <2>1, <2>3
    <3>2. s.a[k + 1] < pivot
      <4>1. k \in s.i..high - 1
        BY <1>7, <2>3
      <4> QED BY <1>7, <4>1
    <3> QED BY <1>14, <2>1, <3>1, <3>2
  <2> QED BY <2>2, <2>3
<1> QED BY <1>7, <1>10, <1>11, <1>12, <1>13, <1>15, <1>16 DEF Partitions

(* The stack of calls, newest first: each call that has not yet sorted its *)
(* part stands for a part above that of the calls made after it; two       *)
(* elements out of order are in one of these parts; and no call is deeper  *)
(* than the elements that are left allow.                                  *)
Calls == [low : Int, high : Int, step : {"enter", "right", "leave"}]
Pending(f) == f.step # "leave"

Fits(f, depth, n) ==
  /\ f.low >= 0 /\ f.high <= n - 1 /\ f.low <= f.high + 1 /\ depth <= n
  /\ f.step = "enter" => depth + f.high - f.low <= n
  /\ f.step = "right" => depth + 1 <= n /\ depth + f.high - f.low + 1 <= n

Stack(fs, a, n) ==
  /\ fs \in Seq(Calls) /\ a \in Between(Int, n)
  /\ \A k \in 1..Len(fs) : Fits(fs[k], Len(fs) - k + 1, n)
  /\ \A k, l \in 1..Len(fs) : k < l /\ Pending(fs[k]) /\ Pending(fs[l]) => fs[k].high < fs[l].low
  /\ \A p, q \in 0..n - 1 : p < q => \/ a[p + 1] >= a[q + 1]
                                     \/ \E k \in 1..Len(fs) : Pending(fs[k]) /\ fs[k].low <= p /\ q <= fs[k].high

LEMMA StackFacts ==
  ASSUME NEW fs \in Seq(Calls), fs # <<>>
  PROVE  /\ Len(fs) \in Nat /\ Len(fs) >= 1 /\ Head(fs) = fs[1] /\ fs[1] \in Calls
         /\ \A k \in 1..Len(fs) : fs[k] \in Calls
         /\ Tail(fs) \in Seq(Calls) /\ Len(Tail(fs)) = Len(fs) - 1
         /\ \A k \in 1..Len(fs) - 1 : Tail(fs)[k] = fs[k + 1]
<1>1. Len(fs) \in Nat /\ Len(fs) >= 1
  BY LenProperties, EmptySeq
<1>2. \A k \in 1..Len(fs) : fs[k] \in Calls
  BY ElementOfSeq
<1>3. Tail(fs) \in Seq(Calls) /\ Len(Tail(fs)) = Len(fs) - 1
  BY HeadTailProperties
<1>4. \A k \in 1..Len(fs) - 1 : Tail(fs)[k] = fs[k + 1]
  BY <1>3, HeadTailProperties
<1>5. Head(fs) = fs[1]
  OBVIOUS
<1> QED BY <1>1, <1>2, <1>3, <1>4, <1>5

LEMMA TwoOnTop ==
  ASSUME NEW fs \in Seq(Calls), fs # <<>>, NEW x \in Calls, NEW y \in Calls,
         NEW out, out = <<x, y>> \o Tail(fs)
  PROVE  /\ out \in Seq(Calls) /\ Len(out) = Len(fs) + 1 /\ out[1] = x /\ out[2] = y
         /\ \A k \in 3..Len(fs) + 1 : out[k] = fs[k - 1]
<1> DEFINE two == <<x, y>>
<1>1. two \in Seq(Calls) /\ Len(two) = 2 /\ two[1] = x /\ two[2] = y
  OBVIOUS
<1> HIDE DEF two
<1>2. /\ Tail(fs) \in Seq(Calls) /\ Len(Tail(fs)) = Len(fs) - 1 /\ Len(fs) \in Nat /\ Len(fs) >= 1
      /\ \A k \in 1..Len(fs) - 1 : Tail(fs)[k] = fs[k + 1]
  BY StackFacts
<1>3. out = two \o Tail(fs)
  BY DEF two
<1>4. /\ out \in Seq(Calls) /\ Len(out) = Len(fs) + 1
      /\ \A k \in 1..Len(fs) + 1 : out[k] = IF k <= 2 THEN two[k] ELSE Tail(fs)[k - 2]
  BY <1>1, <1>2, <1>3, ConcatProperties
<1>5. ASSUME NEW k \in 3..Len(fs) + 1 PROVE out[k] = fs[k - 1]
  <2>1. k \in 1..Len(fs) + 1 /\ ~(k <= 2) /\ k - 2 \in 1..Len(fs) - 1 /\ (k - 2) + 1 = k - 1
    BY <1>2
  <2> QED BY <1>2, <1>4, <2>1
<1> QED BY <1>1, <1>2, <1>4, <1>5

(* A call with at most one element left, or none to sort, returns.         *)
LEMMA CallReturns ==
  ASSUME NEW n \in Nat, NEW fs, NEW a, Stack(fs, a, n), fs # <<>>,
         ~Pending(Head(fs)) \/ Head(fs).low >= Head(fs).high
  PROVE  Stack(Tail(fs), a, n)
<1> DEFINE rest == Tail(fs)
<1>1. /\ fs \in Seq(Calls) /\ a \in Between(Int, n)
      /\ \A k \in 1..Len(fs) : Fits(fs[k], Len(fs) - k + 1, n)
      /\ \A k, l \in 1..Len(fs) : k < l /\ Pending(fs[k]) /\ Pending(fs[l]) => fs[k].high < fs[l].low
  BY DEF Stack
<1>2. /\ rest \in Seq(Calls) /\ Len(rest) = Len(fs) - 1 /\ Len(fs) \in Nat /\ Len(fs) >= 1 /\ Head(fs) = fs[1]
      /\ \A k \in 1..Len(fs) : fs[k] \in Calls
      /\ \A k \in 1..Len(fs) - 1 : rest[k] = fs[k + 1]
  BY <1>1, StackFacts
<1> HIDE DEF rest
<1>3. ASSUME NEW k \in 1..Len(rest)
      PROVE  k + 1 \in 1..Len(fs) /\ rest[k] = fs[k + 1] /\ Len(rest) - k + 1 = Len(fs) - (k + 1) + 1
  BY <1>2
<1>4. \A k \in 1..Len(rest) : Fits(rest[k], Len(rest) - k + 1, n)
  BY <1>1, <1>3
<1>5. ASSUME NEW k \in 1..Len(rest), NEW l \in 1..Len(rest), k < l, Pending(rest[k]), Pending(rest[l])
      PROVE  rest[k].high < rest[l].low
  <2>1. k + 1 < l + 1
    BY <1>2, <1>5
  <2> QED BY <1>1, <1>3, <1>5, <2>1
<1>6. ASSUME NEW p \in 0..n - 1, NEW q \in 0..n - 1, p < q, ~(a[p + 1] >= a[q + 1])
      PROVE  \E k \in 1..Len(rest) : Pending(rest[k]) /\ rest[k].low <= p /\ q <= rest[k].high
  <2>1. PICK k \in 1..Len(fs) : Pending(fs[k]) /\ fs[k].low <= p /\ q <= fs[k].high
    BY <1>6 DEF Stack
  <2>2. k # 1
    BY <1>2, <1>6, <2>1 DEF Calls
  <2>3. k - 1 \in 1..Len(rest) /\ (k - 1) + 1 = k
    BY <1>2, <2>2
  <2>4. rest[k - 1] = fs[k]
    BY <1>3, <2>3
  <2> QED BY <2>1, <2>3, <2>4
<1>7. Stack(rest, a, n)
  BY <1>1, <1>2, <1>4, <1>5, <1>6 DEF Stack
<1> QED BY <1>7 DEF rest

(* The call goes on to its right part.                                     *)
LEMMA CallGoesRight ==
  ASSUME NEW n \in Nat, NEW fs, NEW a, Stack(fs, a, n), fs # <<>>, Head(fs).step = "right",
         NEW f, f = Head(fs),
         NEW out, out = <<[f EXCEPT !.step = "enter"], [f EXCEPT !.step = "leave"]>> \o Tail(fs)
  PROVE  Stack(out, a, n)
<1> DEFINE x == [f EXCEPT !.step = "enter"]
           y == [f EXCEPT !.step = "leave"]
<1>1. /\ fs \in Seq(Calls) /\ a \in Between(Int, n)
      /\ \A k \in 1..Len(fs) : Fits(fs[k], Len(fs) - k + 1, n)
      /\ \A k, l \in 1..Len(fs) : k < l /\ Pending(fs[k]) /\ Pending(fs[l]) => fs[k].high < fs[l].low
  BY DEF Stack
<1>2. /\ Len(fs) \in Nat /\ Len(fs) >= 1 /\ f = fs[1] /\ f \in Calls
      /\ \A k \in 1..Len(fs) : fs[k] \in Calls
  BY <1>1, StackFacts
<1>3. /\ x \in Calls /\ y \in Calls /\ x.low = f.low /\ x.high = f.high /\ y.low = f.low /\ y.high = f.high
      /\ x.step = "enter" /\ y.step = "leave"
  BY <1>2 DEF Calls
<1>4. /\ out \in Seq(Calls) /\ Len(out) = Len(fs) + 1 /\ out[1] = x /\ out[2] = y
      /\ \A k \in 3..Len(fs) + 1 : out[k] = fs[k - 1]
  BY <1>1, <1>3, TwoOnTop
<1> HIDE DEF x, y
<1>5. Fits(f, Len(fs), n) /\ f.low \in Int /\ f.high \in Int /\ f.step = "right"
  <2>1. Len(fs) - 1 + 1 = Len(fs) /\ 1 \in 1..Len(fs)
    BY <1>2
  <2> QED BY <1>1, <1>2, <2>1 DEF Calls
<1>6. ASSUME NEW k \in 1..Len(out) PROVE Fits(out[k], Len(out) - k + 1, n)
  <2>1. CASE k = 1
    <3>1. Fits(x, Len(fs) + 1, n)
      BY <1>2, <1>3, <1>5 DEF Fits
    <3>2. Len(out) - 1 + 1 = Len(fs) + 1
      BY <1>2, <1>4
    <3> QED BY <1>4, <2>1, <3>1, <3>2
  <2>2. CASE k = 2
    <3>1. Fits(y, Len(fs), n)
      BY <1>2, <1>3, <1>5 DEF Fits
    <3>2. Len(out) - 2 + 1 = Len(fs)
      BY <1>2, <1>4
    <3> QED BY <1>4, <2>2, <3>1, <3>2
  <2>3. CASE k \notin {1, 2}
    <3>1. k \in 3..Len(fs) + 1 /\ k - 1 \in 1..Len(fs) /\ Len(out) - k + 1 = Len(fs) - (k - 1) + 1
      BY <1>2, <1>4, <2>3
    <3> QED BY <1>1, <1>4, <3>1
  <2> QED BY <2>1, <2>2, <2>3
<1>7. ASSUME NEW k \in 1..Len(out), Pending(out[k])
      PROVE  \E m \in 1..Len(fs) : /\ Pending(fs[m]) /\ out[k].low = fs[m].low /\ out[k].high = fs[m].high
                                   /\ m = IF k = 1 THEN 1 ELSE k - 1
                                   /\ k # 2
  <2>1. CASE k = 1
    <3>1. 1 \in 1..Len(fs)
      BY <1>2
    <3>2. Pending(fs[1])
      BY <1>2, <1>5 DEF Pending
    <3>3. out[1].low = fs[1].low /\ out[1].high = fs[1].high
      BY <1>2, <1>3, <1>4
    <3> QED BY <2>1, <3>1, <3>2, <3>3
  <2>2. CASE k = 2
    BY <1>3, <1>4, <1>7, <2>2 DEF Pending
  <2>3. CASE k \notin {1, 2}
    <3>1. k \in 3..Len(fs) + 1 /\ k - 1 \in 1..Len(fs)
      BY <1>2, <1>4, <2>3
    <3> QED BY <1>4, <1>7, <2>3, <3>1
  <2> QED BY <2>1, <2>2, <2>3
<1>8. ASSUME NEW k \in 1..Len(out), NEW l \in 1..Len(out), k < l, Pending(out[k]), Pending(out[l])
      PROVE  out[k].high < out[l].low
  <2>1. PICK m \in 1..Len(fs) : /\ Pending(fs[m]) /\ out[k].low = fs[m].low /\ out[k].high = fs[m].high
                                /\ m = IF k = 1 THEN 1 ELSE k - 1
                                /\ k # 2
    BY <1>7, <1>8
  <2>2. PICK o \in 1..Len(fs) : /\ Pending(fs[o]) /\ out[l].low = fs[o].low /\ out[l].high = fs[o].high
                                /\ o = IF l = 1 THEN 1 ELSE l - 1
                                /\ l # 2
    BY <1>7, <1>8
  <2>3. m < o
    BY <1>8, <2>1, <2>2
  <2> QED BY <1>1, <2>1, <2>2, <2>3
<1>9. ASSUME NEW p \in 0..n - 1, NEW q \in 0..n - 1, p < q, ~(a[p + 1] >= a[q + 1])
      PROVE  \E k \in 1..Len(out) : Pending(out[k]) /\ out[k].low <= p /\ q <= out[k].high
  <2>1. PICK k \in 1..Len(fs) : Pending(fs[k]) /\ fs[k].low <= p /\ q <= fs[k].high
    BY <1>9 DEF Stack
  <2>2. CASE k = 1
    <3>1. 1 \in 1..Len(out)
      BY <1>2, <1>4
    <3> QED BY <1>2, <1>3, <1>4, <2>1, <2>2, <3>1 DEF Pending
  <2>3. CASE k # 1
    <3>1. k + 1 \in 1..Len(out) /\ k + 1 \in 3..Len(fs) + 1 /\ (k + 1) - 1 = k
      BY <1>2, <1>4, <2>3
    <3>2. out[k + 1] = fs[k]
      BY <1>4, <3>1
    <3> QED BY <2>1, <3>1, <3>2
  <2> QED BY <2>2, <2>3
<1>10. \A k \in 1..Len(out) : Fits(out[k], Len(out) - k + 1, n)
  BY <1>6
<1>11. \A k, l \in 1..Len(out) : k < l /\ Pending(out[k]) /\ Pending(out[l]) => out[k].high < out[l].low
  BY <1>8
<1>12. \A p, q \in 0..n - 1 : p < q => \/ a[p + 1] >= a[q + 1]
                                       \/ \E k \in 1..Len(out) : Pending(out[k]) /\ out[k].low <= p /\ q <= out[k].high
  BY <1>9
<1> QED BY <1>1, <1>4, <1>10, <1>11, <1>12 DEF Stack

(* The call parts its elements and calls itself for the left ones.         *)
LEMMA CallSplits ==
  ASSUME NEW n \in Nat, NEW fs, NEW a, Stack(fs, a, n), fs # <<>>,
         NEW f, f = Head(fs), f.step = "enter", f.low < f.high,
         NEW part, Partitions(part, a, n, f.low, f.high),
         NEW out, out = Split(f, part.i) \o Tail(fs)
  PROVE  Stack(out, part.a, n)
<1> DEFINE x == Frame(f.low, part.i - 1, "enter")
           y == Frame(part.i + 1, f.high, "right")
           b == part.a
           i == part.i
           Inside(p) == f.low <= p /\ p <= f.high
<1>1. /\ fs \in Seq(Calls) /\ a \in Between(Int, n)
      /\ \A k \in 1..Len(fs) : Fits(fs[k], Len(fs) - k + 1, n)
      /\ \A k, l \in 1..Len(fs) : k < l /\ Pending(fs[k]) /\ Pending(fs[l]) => fs[k].high < fs[l].low
  BY DEF Stack
<1>2. /\ Len(fs) \in Nat /\ Len(fs) >= 1 /\ f = fs[1] /\ f \in Calls
      /\ \A k \in 1..Len(fs) : fs[k] \in Calls
  BY <1>1, StackFacts
<1>3. f.low \in Int /\ f.high \in Int /\ 1 \in 1..Len(fs) /\ Pending(fs[1])
  BY <1>2 DEF Calls, Pending
<1>4. Fits(f, Len(fs), n)
  <2>1. Len(fs) - 1 + 1 = Len(fs)
    BY <1>2
  <2> QED BY <1>1, <1>2, <1>3, <2>1
<1>5. /\ b \in Between(Int, n) /\ Rearranged(b, a, n, f.low + 1..f.high + 1) /\ i \in f.low..f.high
      /\ \A k \in f.low..i - 1 : b[k + 1] >= b[i + 1]
      /\ \A k \in i + 1..f.high : b[i + 1] >= b[k + 1]
  BY DEF Partitions
<1>6. i \in Int /\ f.low <= i /\ i <= f.high /\ \A k \in 0..n - 1 : b[k + 1] \in Int /\ a[k + 1] \in Int
  <2>1. \A k \in 0..n - 1 : k + 1 \in 1..n
    OBVIOUS
  <2>2. i \in Int /\ f.low <= i /\ i <= f.high
    BY <1>3, <1>5
  <2>3. \A k \in 1..n : b[k] \in Int /\ a[k] \in Int
    BY <1>1, <1>5 DEF Between
  <2> HIDE DEF b, i
  <2> QED BY <2>1, <2>2, <2>3
<1>7. f.low >= 0 /\ f.high <= n - 1 /\ Len(fs) + f.high - f.low <= n
  BY <1>4 DEF Fits
<1> HIDE DEF b, i
<1>8. /\ x \in Calls /\ y \in Calls /\ x.low = f.low /\ x.high = i - 1 /\ y.low = i + 1 /\ y.high = f.high
      /\ x.step = "enter" /\ y.step = "right" /\ out = <<x, y>> \o Tail(fs)
  BY <1>3, <1>6 DEF Calls, Frame, Split, i
<1> HIDE DEF x, y
<1>9. /\ out \in Seq(Calls) /\ Len(out) = Len(fs) + 1 /\ out[1] = x /\ out[2] = y
      /\ \A k \in 3..Len(fs) + 1 : out[k] = fs[k - 1]
  <2>1. fs \in Seq(Calls) /\ fs # <<>> /\ x \in Calls /\ y \in Calls /\ out = <<x, y>> \o Tail(fs)
    BY <1>1, <1>8
  <2> QED BY ONLY <2>1, TwoOnTop
<1>10. Pending(x) /\ Pending(y) /\ Fits(x, Len(fs) + 1, n) /\ Fits(y, Len(fs), n)
  <2>1. Pending(x) /\ Pending(y)
    BY <1>8 DEF Pending
  <2>2. PICK d \in Int, lo \in Int, hi \in Int, m \in Int : d = Len(fs) /\ lo = f.low /\ hi = f.high /\ m = i
    BY <1>2, <1>3, <1>6
  <2> DEFINE LowFits == lo >= 0 /\ m - 1 <= n - 1 /\ lo <= (m - 1) + 1 /\ d + 1 <= n /\ d + 1 + (m - 1) - lo <= n
             HighFits == m + 1 >= 0 /\ hi <= n - 1 /\ m + 1 <= hi + 1 /\ d + 1 <= n /\ d <= n /\ d + hi - (m + 1) + 1 <= n
  <2>3. LowFits /\ HighFits
    <3>1. lo <= m /\ m <= hi /\ lo < hi /\ lo >= 0 /\ hi <= n - 1 /\ d + hi - lo <= n
      BY <1>6, <1>7, <2>2
    <3> QED BY <3>1
  <2>4. /\ x.low >= 0 /\ x.high <= n - 1 /\ x.low <= x.high + 1 /\ Len(fs) + 1 <= n
        /\ Len(fs) + 1 + x.high - x.low <= n
    BY <1>8, <2>2, <2>3
  <2>5. /\ y.low >= 0 /\ y.high <= n - 1 /\ y.low <= y.high + 1 /\ Len(fs) + 1 <= n /\ Len(fs) <= n
        /\ Len(fs) + y.high - y.low + 1 <= n
    BY <1>8, <2>2, <2>3
  <2>6. Fits(x, Len(fs) + 1, n)
    BY <1>8, <2>4 DEF Fits
  <2>7. Fits(y, Len(fs), n)
    BY <1>8, <2>5 DEF Fits
  <2> QED BY <2>1, <2>6, <2>7
<1>11. ASSUME NEW k \in 1..Len(out) PROVE Fits(out[k], Len(out) - k + 1, n)
  <2>1. CASE k = 1
    <3>1. Len(out) - 1 + 1 = Len(fs) + 1
      BY <1>2, <1>9
    <3> QED BY <1>9, <1>10, <2>1, <3>1
  <2>2. CASE k = 2
    <3>1. Len(out) - 2 + 1 = Len(fs)
      BY <1>2, <1>9
    <3> QED BY <1>9, <1>10, <2>2, <3>1
  <2>3. CASE k \notin {1, 2}
    <3>1. k \in 3..Len(fs) + 1 /\ k - 1 \in 1..Len(fs) /\ Len(out) - k + 1 = Len(fs) - (k - 1) + 1
      BY <1>2, <1>9, <2>3
    <3> QED BY <1>1, <1>9, <3>1
  <2> QED BY <2>1, <2>2, <2>3
(* The calls below the two are for what lies above f.                      *)
<1>12. ASSUME NEW l \in 1..Len(fs), l > 1, Pending(fs[l]) PROVE fs[l].low \in Int /\ f.high < fs[l].low
  BY <1>1, <1>2, <1>3, <1>12 DEF Calls
<1>13. ASSUME NEW k \in 1..Len(out), NEW l \in 1..Len(out), k < l, Pending(out[k]), Pending(out[l])
       PROVE  out[k].high < out[l].low
  <2>1. CASE k = 1 /\ l = 2
    <3>1. x.high < y.low
      BY <1>6, <1>8
    <3> QED BY <1>9, <2>1, <3>1
  <2>2. CASE l \notin {1, 2}
    <3>1. l \in 3..Len(fs) + 1 /\ l - 1 \in 1..Len(fs) /\ l - 1 > 1 /\ out[l] = fs[l - 1]
      <4>1. l \in 3..Len(fs) + 1 /\ l - 1 \in 1..Len(fs) /\ l - 1 > 1
        BY <1>2, <1>9, <2>2
      <4> QED BY <1>9, <4>1
    <3>2. out[l].low \in Int /\ f.high < out[l].low
      BY <1>12, <1>13, <3>1
    <3>3. CASE k = 1
      <4>1. x.high < out[l].low
        <5>1. PICK c \in Int, h \in Int, m \in Int : c = out[l].low /\ h = f.high /\ m = i
          BY <1>3, <1>6, <3>2
        <5>2. x.high = m - 1 /\ m <= h /\ h < c
          BY <1>6, <1>8, <3>2, <5>1
        <5>3. m - 1 < c
          BY <5>2
        <5> QED BY <5>1, <5>2, <5>3
      <4> QED BY <1>9, <3>3, <4>1
    <3>4. CASE k = 2
      BY <1>8, <1>9, <3>2, <3>4
    <3>5. CASE k \notin {1, 2}
      <4>1. k \in 3..Len(fs) + 1 /\ k - 1 \in 1..Len(fs) /\ k - 1 < l - 1
        BY <1>2, <1>9, <1>13, <3>5
      <4>2. out[k] = fs[k - 1]
        BY <1>9, <4>1
      <4> QED BY <1>1, <1>13, <3>1, <4>1, <4>2
    <3> QED BY <3>3, <3>4, <3>5
  <2>3. (k = 1 /\ l = 2) \/ l \notin {1, 2}
    BY <1>2, <1>9, <1>13
  <2> QED BY <2>1, <2>2, <2>3
(* Elements outside f are where they were, those inside come from inside.  *)
<1>14. ASSUME NEW p \in 0..n - 1
       PROVE  /\ Inside(p) => \E o \in 0..n - 1 : Inside(o) /\ b[p + 1] = a[o + 1]
              /\ ~Inside(p) => b[p + 1] = a[p + 1]
  <2>1. p + 1 \in 1..n
    OBVIOUS
  <2> DEFINE S == f.low + 1..f.high + 1
  <2>2. \A o \in 1..n : o \in S <=> Inside(o - 1)
    BY <1>3
  <2>3. Rearranged(b, a, n, S)
    BY <1>5
  <2> HIDE DEF S, Inside
  <2>4. /\ p + 1 \in S => \E l \in 1..n : l \in S /\ b[p + 1] = a[l]
        /\ p + 1 \notin S => b[p + 1] = a[p + 1]
    BY <2>1, <2>3, ComesFromInside
  <2>5. p + 1 \in S <=> Inside(p)
    <3>1. (p + 1) - 1 = p
      OBVIOUS
    <3> QED BY <2>1, <2>2, <3>1
  <2>6. ASSUME NEW l \in 1..n, l \in S, b[p + 1] = a[l] PROVE l - 1 \in 0..n - 1 /\ Inside(l - 1) /\ b[p + 1] = a[(l - 1) + 1]
    <3>1. (l - 1) + 1 = l /\ l - 1 \in 0..n - 1
      OBVIOUS
    <3> QED BY <2>2, <2>6, <3>1
  <2> QED BY <2>4, <2>5, <2>6
<1> DEFINE Covered(p, q) == \E k \in 1..Len(out) : Pending(out[k]) /\ out[k].low <= p /\ q <= out[k].high
           CoveredBelow(p, q) == \E k \in 1..Len(fs) : k > 1 /\ Pending(fs[k]) /\ fs[k].low <= p /\ q <= fs[k].high
<1>15. ASSUME NEW p \in 0..n - 1, NEW q \in 0..n - 1, p < q, ~(Inside(p) /\ Inside(q))
       PROVE  a[p + 1] >= a[q + 1] \/ CoveredBelow(p, q)
  <2>1. CASE a[p + 1] >= a[q + 1]
    BY <2>1
  <2>2. CASE ~(a[p + 1] >= a[q + 1])
    <3>1. PICK k \in 1..Len(fs) : Pending(fs[k]) /\ fs[k].low <= p /\ q <= fs[k].high
      BY <1>15, <2>2 DEF Stack
    <3>2. k # 1
      BY <1>2, <1>3, <1>15, <3>1
    <3>3. k > 1
      BY <1>2, <3>2
    <3> QED BY <3>1, <3>3
  <2> QED BY <2>1, <2>2
<1>16. ASSUME NEW p, NEW q, CoveredBelow(p, q) PROVE Covered(p, q)
  <2>1. PICK k \in 1..Len(fs) : k > 1 /\ Pending(fs[k]) /\ fs[k].low <= p /\ q <= fs[k].high
    BY <1>16
  <2>2. k + 1 \in 3..Len(fs) + 1 /\ k + 1 \in 1..Len(out) /\ (k + 1) - 1 = k
    BY <1>2, <1>9, <2>1
  <2>3. out[k + 1] = fs[k]
    BY <1>9, <2>2
  <2> QED BY <2>1, <2>2, <2>3
<1>17. ASSUME NEW p \in 0..n - 1, NEW q, CoveredBelow(p, q) PROVE f.high < p
  BY <1>3, <1>12, <1>17
<1>18. ASSUME NEW p \in 0..n - 1, NEW q \in 0..n - 1, p < q
       PROVE  b[p + 1] >= b[q + 1] \/ Covered(p, q)
  <2>1. 1 \in 1..Len(out) /\ 2 \in 1..Len(out)
    BY <1>2, <1>9
  <2>2. CASE ~Inside(p) /\ ~Inside(q)
    <3> HIDE DEF Covered, CoveredBelow, Inside
    <3> QED BY <1>14, <1>15, <1>16, <1>18, <2>2
  <2>3. CASE Inside(p) /\ ~Inside(q)
    <3>1. PICK o \in 0..n - 1 : Inside(o) /\ b[p + 1] = a[o + 1]
      BY <1>14, <2>3
    <3>2. o < q /\ ~(f.high < o)
      BY <1>3, <1>18, <2>3, <3>1
    <3>3. b[q + 1] = a[q + 1]
      BY <1>14, <2>3
    <3> HIDE DEF Covered, CoveredBelow, Inside
    <3>4. a[o + 1] >= a[q + 1]
      BY <1>15, <1>17, <2>3, <3>2
    <3> QED BY <3>1, <3>3, <3>4
  <2>4. CASE ~Inside(p) /\ Inside(q)
    <3>1. PICK o \in 0..n - 1 : Inside(o) /\ b[q + 1] = a[o + 1]
      BY <1>14, <2>4
    <3>2. p < o /\ ~(f.high < p)
      BY <1>3, <1>18, <2>4, <3>1
    <3>3. b[p + 1] = a[p + 1]
      BY <1>14, <2>4
    <3> HIDE DEF Covered, CoveredBelow, Inside
    <3>4. a[p + 1] >= a[o + 1]
      BY <1>15, <1>17, <2>4, <3>2
    <3> QED BY <3>1, <3>3, <3>4
  <2>5. CASE Inside(p) /\ Inside(q)
    <3>1. CASE q < i
      <4>1. Pending(out[1]) /\ out[1].low <= p /\ q <= out[1].high
        BY <1>6, <1>8, <1>9, <1>10, <2>5, <3>1
      <4> QED BY <2>1, <4>1
    <3>2. CASE p > i
      <4>1. Pending(out[2]) /\ out[2].low <= p /\ q <= out[2].high
        BY <1>6, <1>8, <1>9, <1>10, <2>5, <3>2
      <4> QED BY <2>1, <4>1
    <3>3. CASE p <= i /\ i <= q
      <4>1. p = i \/ p \in f.low..i - 1
        BY <1>3, <1>6, <2>5, <3>3
      <4>2. q = i \/ q \in i + 1..f.high
        BY <1>3, <1>6, <2>5, <3>3
      <4>3. i \in 0..n - 1
        BY <1>3, <1>6, <1>7
      <4>4. b[p + 1] >= b[i + 1] /\ b[i + 1] >= b[q + 1]
        BY <1>5, <1>6, <4>1, <4>2, <4>3
      <4>5. b[p + 1] >= b[q + 1]
        BY <1>6, <4>3, <4>4
      <4> QED BY <4>5
    <3> QED BY <1>6, <3>1, <3>2, <3>3
  <2> QED BY <2>2, <2>3, <2>4, <2>5
<1>19. \A k \in 1..Len(out) : Fits(out[k], Len(out) - k + 1, n)
  BY <1>11
<1>20. \A k, l \in 1..Len(out) : k < l /\ Pending(out[k]) /\ Pending(out[l]) => out[k].high < out[l].low
  BY <1>13
<1>21. Stack(out, b, n)
  BY <1>5, <1>9, <1>18, <1>19, <1>20 DEF Stack
<1> QED BY <1>21 DEF b

SizeFits == qs.size * SIZE_OF_INT < INT_MOD \div 2
WholeArray == <<Frame(0, qs.size - 1, "enter")>>

RightlySorted ==
  qs.ret = 0 \/ qs.sorted # <<>> =>
    /\ Rearranged(qs.sorted, qs.unsorted, qs.size, 1..qs.size)
    /\ \A i, j \in 1..qs.size : i < j => qs.sorted[i] >= qs.sorted[j]

SortTypes ==
  /\ qs = [pc |-> qs.pc, call |-> qs.call, size |-> qs.size, unsorted |-> qs.unsorted, sorted |-> qs.sorted,
           kernel |-> qs.kernel, room |-> qs.room, frames |-> qs.frames, buffers |-> qs.buffers,
           faults |-> qs.faults, ret |-> qs.ret]
  /\ qs.pc \in {"call", "kmalloc", "copy_from_user", "quick_sort", "wild", "returned"}
  /\ qs.size \in Nat /\ qs.room \in Nat /\ qs.buffers \in Nat /\ qs.faults \in Nat
  /\ SizeFits => qs.unsorted \in Between(Int, qs.size)

(* A buffer that is in use has room for all of the array, or for none of   *)
(* its last element.                                                       *)
BufferInv ==
  /\ qs.pc \in {"call", "kmalloc", "returned"} => qs.buffers = qs.faults
  /\ qs.pc \in {"copy_from_user", "quick_sort", "wild"} => qs.buffers = qs.faults + 1
  /\ qs.pc \in {"copy_from_user", "quick_sort"} => IF SizeFits THEN qs.room = qs.size ELSE qs.room <= qs.size - 1
  /\ qs.pc \in {"kmalloc", "copy_from_user", "quick_sort", "wild"} => qs.size > 0

SortInv ==
  /\ SortTypes /\ BufferInv /\ RightlySorted
  /\ qs.pc \notin {"quick_sort", "wild"} => qs.frames = <<>>
  /\ qs.pc = "quick_sort" /\ SizeFits => /\ Stack(qs.frames, qs.kernel, qs.size)
                                         /\ Rearranged(qs.kernel, qs.unsorted, qs.size, 1..qs.size)
  /\ qs.pc = "quick_sort" /\ ~SizeFits => qs.frames = WholeArray
  /\ qs.pc = "wild" => ~SizeFits /\ qs.frames = WholeArray

(* kmalloc gives the whole array, or less.                                 *)
LEMMA RoomIs ==
  ASSUME NEW size \in Nat, size > 0, NEW w, w = Wrapped(size * SIZE_OF_INT), w >= 0
  PROVE  /\ w \div SIZE_OF_INT \in Nat
         /\ size * SIZE_OF_INT < INT_MOD \div 2 => w \div SIZE_OF_INT = size
         /\ ~(size * SIZE_OF_INT < INT_MOD \div 2) => w \div SIZE_OF_INT <= size - 1
<1> DEFINE m == (size * SIZE_OF_INT) % INT_MOD
<1>1. PICK e \in Nat \ {0} : INT_MOD = 8 * e
  <2>1. INT_MOD \in Nat \ {0} /\ INT_MOD % 8 = 0
    BY SortAssumption
  <2>2. INT_MOD = 8 * (INT_MOD \div 8) /\ INT_MOD \div 8 \in Nat \ {0}
    BY <2>1
  <2> QED BY <2>2
<1>2. INT_MOD \div 2 = 4 * e /\ INT_MOD \in Nat /\ INT_MOD > 0
  BY <1>1
<1>3. SIZE_OF_INT = 4 /\ size * SIZE_OF_INT \in Nat
  BY DEF SIZE_OF_INT
<1>4. m \in 0..INT_MOD - 1 /\ (size * SIZE_OF_INT < INT_MOD => m = size * SIZE_OF_INT)
  <2>1. PICK x \in Nat : x = size * SIZE_OF_INT
    BY <1>3
  <2>2. x % INT_MOD \in 0..INT_MOD - 1
    BY <1>2
  <2>3. x < INT_MOD => x % INT_MOD = x
    BY <1>2
  <2> QED BY <2>1, <2>2, <2>3
<1>5. w = IF m >= INT_MOD \div 2 THEN m - INT_MOD ELSE m
  BY DEF Wrapped
<1> HIDE DEF m
<1>6. w = m /\ m < 4 * e /\ m \in Nat
  BY <1>1, <1>2, <1>4, <1>5
<1>7. w \div SIZE_OF_INT = m \div 4 /\ m \div 4 \in Nat /\ m \div 4 <= e - 1
  BY <1>1, <1>3, <1>6
<1>8. CASE size * SIZE_OF_INT < INT_MOD \div 2
  <2>1. m = size * 4
    BY <1>1, <1>2, <1>3, <1>4, <1>8
  <2>2. m \div 4 = size
    BY <2>1
  <2> QED BY <1>7, <1>8, <2>2
<1>9. CASE ~(size * SIZE_OF_INT < INT_MOD \div 2)
  <2>1. size >= e
    BY <1>1, <1>2, <1>3, <1>9
  <2> QED BY <1>1, <1>7, <1>9, <2>1
<1> QED BY <1>8, <1>9

LEMMA InitSort == SortInit \/ qs = SortStarts(0, <<>>) => SortInv
<1> SUFFICES ASSUME SortInit \/ qs = SortStarts(0, <<>>) PROVE SortInv
  OBVIOUS
<1> DEFINE Started(size, array) == /\ qs = SortStarts(size, array)
                                   /\ size * SIZE_OF_INT < INT_MOD \div 2 => array \in Between(Int, size)
<1>1. \E size \in Nat : \E array : Started(size, array)
  <2>1. CASE SortInit
    <3>1. PICK size \in SortSizes : \E array \in [1..(IF size > Looked THEN Looked ELSE size) -> SortValues] :
                                      qs = SortStarts(size, array)
      BY <2>1 DEF SortInit
    <3>2. PICK array \in [1..(IF size > Looked THEN Looked ELSE size) -> SortValues] : qs = SortStarts(size, array)
      BY <3>1
    <3>3. size \in Nat /\ SortValues \subseteq Int
      BY SortAssumption
    <3>4. ASSUME size * SIZE_OF_INT < INT_MOD \div 2 PROVE array \in Between(Int, size)
      <4>1. ~(size > Looked)
        <5>1. size * SIZE_OF_INT \in Int /\ INT_MOD \div 2 \in Int
          BY <3>3, SortAssumption DEF SIZE_OF_INT
        <5>2. ~(size * SIZE_OF_INT >= INT_MOD \div 2)
          BY <3>4, <5>1
        <5> QED BY <5>2, SortAssumption
      <4>2. array \in [1..size -> SortValues]
        BY <4>1
      <4> QED BY <3>3, <4>2 DEF Between
    <3> QED BY <3>2, <3>3, <3>4
  <2>2. CASE qs = SortStarts(0, <<>>)
    <3>1. <<>> \in Between(Int, 0)
      BY DEF Between
    <3> QED BY <2>2, <3>1
  <2> QED BY <2>1, <2>2
<1>2. PICK size \in Nat : \E array : Started(size, array)
  BY <1>1, Zenon
<1>3. PICK array : Started(size, array)
  BY <1>2, Zenon
<1>4. /\ qs = [pc |-> "call", call |-> 1, size |-> size, unsorted |-> array, sorted |-> <<>>, kernel |-> <<>>,
               room |-> 0, frames |-> <<>>, buffers |-> 0, faults |-> 0, ret |-> 1]
  BY <1>3 DEF SortStarts
<1>5. SortTypes
  BY <1>3, <1>4 DEF SortTypes, SizeFits
<1> QED BY <1>4, <1>5 DEF SortInv, BufferInv, RightlySorted

(* A step that leaves the array and the sort's own state alone.            *)
LEMMA SortIdles ==
  ASSUME SortInv, qs'.size = qs.size, qs'.unsorted = qs.unsorted, qs'.sorted = qs.sorted,
         qs'.frames = qs.frames, qs'.kernel = qs.kernel,
         SortTypes', BufferInv', qs'.pc # "quick_sort", qs'.ret # 0 \/ qs'.ret = qs.ret,
         qs'.pc = "wild" => ~SizeFits /\ qs.frames = WholeArray,
         qs'.pc # "wild" => qs.frames = <<>>
  PROVE  SortInv'
<1>1. RightlySorted'
  BY DEF SortInv, RightlySorted
<1>2. SizeFits' <=> SizeFits
  BY DEF SizeFits
<1>3. WholeArray' = WholeArray
  BY DEF WholeArray
<1> QED BY <1>1, <1>2, <1>3 DEF SortInv

LEMMA SortCallInv == ASSUME SortInv, SortCall \/ NextCall PROVE SortInv'
<1>1. /\ SortTypes /\ BufferInv /\ qs.pc \in {"call", "returned"} /\ qs.frames = <<>>
  BY DEF SortInv, SortCall, NextCall
<1>2. \/ qs' = [qs EXCEPT !.pc = "returned", !.ret = SEFAULT] /\ qs.pc = "call"
      \/ qs' = [qs EXCEPT !.pc = "kmalloc"] /\ qs.pc = "call" /\ ~(qs.size <= 0)
      \/ qs' = [qs EXCEPT !.pc = "call", !.call = @ + 1] /\ qs.pc = "returned"
  BY DEF SortCall, NextCall, Return, BadArguments
<1>3. /\ qs'.size = qs.size /\ qs'.unsorted = qs.unsorted /\ qs'.sorted = qs.sorted /\ qs'.frames = qs.frames
      /\ qs'.kernel = qs.kernel /\ qs'.room = qs.room /\ qs'.buffers = qs.buffers /\ qs'.faults = qs.faults
      /\ qs'.ret \in {SEFAULT, qs.ret}
      /\ \/ qs'.pc \in {"call", "returned"}
         \/ qs'.pc = "kmalloc" /\ ~(qs.size <= 0)
  BY <1>1, <1>2 DEF SortTypes
<1>4. /\ qs' = [pc |-> qs'.pc, call |-> qs'.call, size |-> qs'.size, unsorted |-> qs'.unsorted, sorted |-> qs'.sorted,
                kernel |-> qs'.kernel, room |-> qs'.room, frames |-> qs'.frames, buffers |-> qs'.buffers,
                faults |-> qs'.faults, ret |-> qs'.ret]
  BY <1>1, <1>2 DEF SortTypes
<1>5. SortTypes'
  BY <1>1, <1>3, <1>4 DEF SortTypes, SizeFits
<1>6. BufferInv'
  BY <1>1, <1>3 DEF BufferInv, SortTypes
<1> QED BY <1>1, <1>3, <1>5, <1>6, SortIdles DEF SEFAULT

LEMMA SortKmallocInv == ASSUME SortInv, SortKmalloc PROVE SortInv'
<1>1. /\ SortTypes /\ BufferInv /\ qs.pc = "kmalloc" /\ qs.frames = <<>> /\ qs.size > 0 /\ qs.buffers = qs.faults
      /\ qs.size \in Nat /\ qs.buffers \in Nat
  BY DEF SortInv, SortKmalloc, BufferInv, SortTypes
<1>2. PICK w : w = Wrapped(qs.size * SIZE_OF_INT)
  OBVIOUS
<1>3. \/ qs' = [qs EXCEPT !.pc = "returned", !.ret = SEFAULT]
      \/ w >= 0 /\ qs' = [qs EXCEPT !.pc = "copy_from_user", !.buffers = @ + 1, !.room = w \div SIZE_OF_INT]
  BY <1>2 DEF SortKmalloc, Return
<1>4. CASE qs' = [qs EXCEPT !.pc = "returned", !.ret = SEFAULT]
  <2>1. /\ qs'.size = qs.size /\ qs'.unsorted = qs.unsorted /\ qs'.sorted = qs.sorted /\ qs'.frames = qs.frames
        /\ qs'.kernel = qs.kernel /\ qs'.room = qs.room /\ qs'.buffers = qs.buffers /\ qs'.faults = qs.faults
        /\ qs'.ret = SEFAULT /\ qs'.pc = "returned"
    BY <1>1, <1>4 DEF SortTypes
  <2>2. SortTypes'
    BY <1>1, <1>4 DEF SortTypes, SizeFits
  <2>3. BufferInv'
    BY <1>1, <2>1 DEF BufferInv
  <2> QED BY <1>1, <2>1, <2>2, <2>3, SortIdles DEF SEFAULT
<1>5. CASE w >= 0 /\ qs' = [qs EXCEPT !.pc = "copy_from_user", !.buffers = @ + 1, !.room = w \div SIZE_OF_INT]
  <2>1. PICK room : room = w \div SIZE_OF_INT
    OBVIOUS
  <2>2. room \in Nat /\ (SizeFits => room = qs.size) /\ (~SizeFits => room <= qs.size - 1)
    BY <1>1, <1>2, <1>5, <2>1, RoomIs DEF SizeFits
  <2>3. /\ qs'.size = qs.size /\ qs'.unsorted = qs.unsorted /\ qs'.sorted = qs.sorted /\ qs'.frames = qs.frames
        /\ qs'.kernel = qs.kernel /\ qs'.room = room /\ qs'.buffers = qs.buffers + 1 /\ qs'.faults = qs.faults
        /\ qs'.ret = qs.ret /\ qs'.pc = "copy_from_user"
    BY <1>1, <1>5, <2>1 DEF SortTypes
  <2>4. SortTypes'
    <3>1. qs.buffers + 1 \in Nat
      BY <1>1
    <3>2. /\ qs' = [pc |-> qs'.pc, call |-> qs'.call, size |-> qs'.size, unsorted |-> qs'.unsorted, sorted |-> qs'.sorted,
                    kernel |-> qs'.kernel, room |-> qs'.room, frames |-> qs'.frames, buffers |-> qs'.buffers,
                    faults |-> qs'.faults, ret |-> qs'.ret]
      BY <1>1, <1>5 DEF SortTypes
    <3> QED BY <1>1, <2>2, <2>3, <3>1, <3>2 DEF SortTypes, SizeFits
  <2>5. BufferInv'
    BY <1>1, <2>2, <2>3 DEF BufferInv, SizeFits
  <2> QED BY <1>1, <2>3, <2>4, <2>5, SortIdles
<1> QED BY <1>3, <1>4, <1>5

LEMMA CopyFaultInv ==
  ASSUME SortInv, NEW from \in {"copy_from_user", "quick_sort"}, CopyFault(from), qs.frames = <<>>
  PROVE  SortInv'
<1>1. /\ SortTypes /\ BufferInv /\ qs.buffers = qs.faults + 1 /\ qs.faults \in Nat
  BY DEF SortInv, CopyFault, BufferInv, SortTypes
<1>2. qs' = [qs EXCEPT !.pc = "returned", !.ret = SEFAULT, !.faults = @ + 1]
  BY <1>1 DEF CopyFault, Return, SortTypes
<1>3. /\ qs'.size = qs.size /\ qs'.unsorted = qs.unsorted /\ qs'.sorted = qs.sorted /\ qs'.frames = qs.frames
      /\ qs'.kernel = qs.kernel /\ qs'.room = qs.room /\ qs'.buffers = qs.buffers /\ qs'.faults = qs.faults + 1
      /\ qs'.ret = SEFAULT /\ qs'.pc = "returned"
  BY <1>1, <1>2 DEF SortTypes
<1>4. SortTypes'
  <2>1. qs.faults + 1 \in Nat
    BY <1>1
  <2>2. /\ qs' = [pc |-> qs'.pc, call |-> qs'.call, size |-> qs'.size, unsorted |-> qs'.unsorted, sorted |-> qs'.sorted,
                  kernel |-> qs'.kernel, room |-> qs'.room, frames |-> qs'.frames, buffers |-> qs'.buffers,
                  faults |-> qs'.faults, ret |-> qs'.ret]
    BY <1>1, <1>2 DEF SortTypes
  <2> QED BY <1>1, <1>3, <2>1, <2>2 DEF SortTypes, SizeFits
<1>5. BufferInv'
  BY <1>1, <1>3 DEF BufferInv
<1> QED BY <1>3, <1>4, <1>5, SortIdles DEF SEFAULT

LEMMA OutOfBoundsInv == ASSUME SortInv, OutOfBounds PROVE SortInv'
<1>1. /\ SortTypes /\ BufferInv /\ qs.pc = "quick_sort" /\ qs.frames # <<>> /\ Head(qs.frames).high >= qs.room
      /\ qs' = [qs EXCEPT !.pc = "wild"]
  BY DEF SortInv, OutOfBounds
<1>2. ~SizeFits
  <2> SUFFICES ASSUME SizeFits PROVE FALSE
    OBVIOUS
  <2>1. Stack(qs.frames, qs.kernel, qs.size) /\ qs.room = qs.size /\ qs.size \in Nat
    BY <1>1 DEF SortInv, BufferInv, SortTypes
  <2>2. qs.frames \in Seq(Calls) /\ \A k \in 1..Len(qs.frames) : Fits(qs.frames[k], Len(qs.frames) - k + 1, qs.size)
    BY <2>1 DEF Stack
  <2>3. 1 \in 1..Len(qs.frames) /\ Head(qs.frames) = qs.frames[1] /\ qs.frames[1].high \in Int
    BY <1>1, <2>2, StackFacts DEF Calls
  <2>4. qs.frames[1].high <= qs.size - 1
    BY <2>2, <2>3 DEF Fits
  <2> QED BY <1>1, <2>1, <2>3, <2>4
<1>3. qs.frames = WholeArray
  BY <1>1, <1>2 DEF SortInv
<1>4. /\ qs'.size = qs.size /\ qs'.unsorted = qs.unsorted /\ qs'.sorted = qs.sorted /\ qs'.frames = qs.frames
      /\ qs'.kernel = qs.kernel /\ qs'.room = qs.room /\ qs'.buffers = qs.buffers /\ qs'.faults = qs.faults
      /\ qs'.ret = qs.ret /\ qs'.pc = "wild"
  BY <1>1 DEF SortTypes
<1>5. SortTypes'
  BY <1>1, <1>4 DEF SortTypes, SizeFits
<1>6. BufferInv'
  BY <1>1, <1>4 DEF BufferInv
<1> QED BY <1>2, <1>3, <1>4, <1>5, <1>6, SortIdles

(* One call for the whole array: nothing is in order yet.                  *)
LEMMA FirstCall ==
  ASSUME NEW n \in Nat, n > 0, NEW a \in Between(Int, n)
  PROVE  Stack(<<Frame(0, n - 1, "enter")>>, a, n)
<1> DEFINE f == Frame(0, n - 1, "enter")
           fs == <<f>>
<1>1. f \in Calls /\ f.low = 0 /\ f.high = n - 1 /\ f.step = "enter"
  BY DEF Frame, Calls
<1> HIDE DEF f
<1>2. fs \in Seq(Calls) /\ Len(fs) = 1 /\ fs[1] = f
  BY <1>1
<1> HIDE DEF fs
<1>3. Fits(f, 1, n)
  BY <1>1 DEF Fits
<1>4. \A k \in 1..Len(fs) : Fits(fs[k], Len(fs) - k + 1, n)
  BY <1>2, <1>3
<1>5. 1 \in 1..Len(fs) /\ Pending(fs[1]) /\ \A p, q \in 0..n - 1 : fs[1].low <= p /\ q <= fs[1].high
  BY <1>1, <1>2 DEF Pending
<1>6. Stack(fs, a, n)
  BY <1>2, <1>4, <1>5 DEF Stack
<1> QED BY <1>6 DEF fs, f

LEMMA CopyFromUserInv == ASSUME SortInv, CopyFromUser PROVE SortInv'
<1>1. /\ SortTypes /\ BufferInv /\ RightlySorted /\ qs.pc = "copy_from_user" /\ qs.size > 0 /\ qs.size \in Nat
      /\ SizeFits => qs.room = qs.size /\ qs.unsorted \in Between(Int, qs.size)
  BY DEF SortInv, CopyFromUser, BufferInv, SortTypes
<1>2. PICK kernel : kernel = SubSeq(qs.unsorted, 1, qs.room)
  OBVIOUS
<1>3. qs' = [qs EXCEPT !.pc = "quick_sort", !.kernel = kernel, !.frames = WholeArray]
  BY <1>2 DEF CopyFromUser, WholeArray, Frame
<1>4. SizeFits => kernel = qs.unsorted
  <2> SUFFICES ASSUME SizeFits PROVE kernel = qs.unsorted
    OBVIOUS
  <2>1. PICK n \in Nat, a \in Between(Int, qs.size) : n = qs.size /\ a = qs.unsorted
    BY <1>1
  <2>2. a \in Seq(Int) /\ Len(a) = n
    BY <2>1 DEF Between
  <2>3. SubSeq(a, 1, Len(a)) = a
    BY <2>2, SubSeqFull
  <2> QED BY <1>1, <1>2, <2>1, <2>2, <2>3
<1>5. /\ qs'.size = qs.size /\ qs'.unsorted = qs.unsorted /\ qs'.sorted = qs.sorted /\ qs'.frames = WholeArray
      /\ qs'.kernel = kernel /\ qs'.room = qs.room /\ qs'.buffers = qs.buffers /\ qs'.faults = qs.faults
      /\ qs'.ret = qs.ret /\ qs'.pc = "quick_sort"
  BY <1>1, <1>3 DEF SortTypes
<1>6. SortTypes'
  <2>1. /\ qs' = [pc |-> qs'.pc, call |-> qs'.call, size |-> qs'.size, unsorted |-> qs'.unsorted, sorted |-> qs'.sorted,
                  kernel |-> qs'.kernel, room |-> qs'.room, frames |-> qs'.frames, buffers |-> qs'.buffers,
                  faults |-> qs'.faults, ret |-> qs'.ret]
    BY <1>1, <1>3 DEF SortTypes
  <2> QED BY <1>1, <1>5, <2>1 DEF SortTypes, SizeFits
<1>7. BufferInv' /\ RightlySorted'
  BY <1>1, <1>5 DEF BufferInv, RightlySorted, SizeFits
<1>8. (SizeFits' <=> SizeFits) /\ WholeArray' = WholeArray
  BY <1>5 DEF SizeFits, WholeArray
<1>9. SizeFits => /\ Stack(qs'.frames, qs'.kernel, qs'.size)
                  /\ Rearranged(qs'.kernel, qs'.unsorted, qs'.size, 1..qs'.size)
  BY <1>1, <1>4, <1>5, FirstCall, NotRearranged DEF WholeArray
<1> QED BY <1>5, <1>6, <1>7, <1>8, <1>9 DEF SortInv

LEMMA QuickSortInv == ASSUME SortInv, quick_sort PROVE SortInv'
<1>1. /\ SortTypes /\ BufferInv /\ RightlySorted /\ qs.pc = "quick_sort" /\ qs.frames # <<>> /\ qs.size \in Nat
      /\ Head(qs.frames).high < qs.room /\ qs.buffers = qs.faults + 1 /\ qs.size > 0
  BY DEF SortInv, quick_sort, BufferInv, SortTypes
<1>2. SizeFits
  <2> SUFFICES ASSUME ~SizeFits PROVE FALSE
    OBVIOUS
  <2>1. qs.frames = WholeArray /\ qs.room <= qs.size - 1 /\ qs.room \in Nat
    BY <1>1 DEF SortInv, BufferInv, SortTypes
  <2>2. Head(qs.frames).high = qs.size - 1
    BY <2>1 DEF WholeArray, Frame
  <2> QED BY <1>1, <2>1, <2>2
<1>3. /\ Stack(qs.frames, qs.kernel, qs.size) /\ Rearranged(qs.kernel, qs.unsorted, qs.size, 1..qs.size)
      /\ qs.room = qs.size
  BY <1>1, <1>2 DEF SortInv, BufferInv
<1>4. PICK f : f = Head(qs.frames)
  OBVIOUS
<1>5. PICK part : part = get_partition_index(qs.kernel, f.low, f.high)
  OBVIOUS
<1>6. ASSUME NEW frames, NEW kernel, qs' = [qs EXCEPT !.frames = frames, !.kernel = kernel],
             Stack(frames, kernel, qs.size), Rearranged(kernel, qs.unsorted, qs.size, 1..qs.size)
      PROVE  SortInv'
  <2>1. /\ qs'.size = qs.size /\ qs'.unsorted = qs.unsorted /\ qs'.sorted = qs.sorted /\ qs'.frames = frames
        /\ qs'.kernel = kernel /\ qs'.room = qs.room /\ qs'.buffers = qs.buffers /\ qs'.faults = qs.faults
        /\ qs'.ret = qs.ret /\ qs'.pc = "quick_sort"
    BY <1>1, <1>6 DEF SortTypes
  <2>2. SortTypes'
    <3>1. /\ qs' = [pc |-> qs'.pc, call |-> qs'.call, size |-> qs'.size, unsorted |-> qs'.unsorted,
                    sorted |-> qs'.sorted, kernel |-> qs'.kernel, room |-> qs'.room, frames |-> qs'.frames,
                    buffers |-> qs'.buffers, faults |-> qs'.faults, ret |-> qs'.ret]
      BY <1>1, <1>6 DEF SortTypes
    <3> QED BY <1>1, <2>1, <3>1 DEF SortTypes, SizeFits
  <2>3. BufferInv' /\ RightlySorted' /\ SizeFits'
    BY <1>1, <1>2, <2>1 DEF BufferInv, RightlySorted, SizeFits
  <2> QED BY <1>6, <2>1, <2>2, <2>3 DEF SortInv
<1>7. CASE qs' = [qs EXCEPT !.frames = <<>> \o Tail(@)] /\ (f.step = "leave" \/ (f.step = "enter" /\ f.low >= f.high))
  <2>1. qs.frames \in Seq(Calls)
    BY <1>3 DEF Stack
  <2>2. Tail(qs.frames) \in Seq(Calls)
    BY <1>1, <2>1, StackFacts
  <2>3. <<>> \o Tail(qs.frames) = Tail(qs.frames)
    BY <2>2, ConcatEmptySeq
  <2>4. Stack(Tail(qs.frames), qs.kernel, qs.size)
    BY <1>1, <1>3, <1>4, <1>7, CallReturns DEF Pending
  <2>5. qs' = [qs EXCEPT !.frames = Tail(qs.frames), !.kernel = qs.kernel]
    BY <1>1, <1>7, <2>3 DEF SortTypes
  <2> QED BY <1>3, <1>6, <2>4, <2>5
<1>8. CASE /\ f.step = "right"
           /\ qs' = [qs EXCEPT !.frames = <<[f EXCEPT !.step = "enter"], [f EXCEPT !.step = "leave"]>> \o Tail(@)]
  <2>1. PICK out : out = <<[f EXCEPT !.step = "enter"], [f EXCEPT !.step = "leave"]>> \o Tail(qs.frames)
    OBVIOUS
  <2>2. Stack(out, qs.kernel, qs.size)
    BY <1>1, <1>3, <1>4, <1>8, <2>1, CallGoesRight
  <2>3. qs' = [qs EXCEPT !.frames = out, !.kernel = qs.kernel]
    BY <1>1, <1>8, <2>1 DEF SortTypes
  <2> QED BY <1>3, <1>6, <2>2, <2>3
<1>9. CASE /\ f.step = "enter" /\ f.low < f.high
           /\ qs' = [[qs EXCEPT !.frames = Split(f, part.i) \o Tail(@)] EXCEPT !.kernel = part.a]
  <2>1. PICK out : out = Split(f, part.i) \o Tail(qs.frames)
    OBVIOUS
  <2>2. PICK n \in Nat, a \in {qs.kernel}, fs \in {qs.frames} : n = qs.size
    BY <1>1
  <2>3. /\ fs \in Seq(Calls) /\ fs # <<>> /\ a \in Between(Int, n) /\ f = Head(fs)
        /\ \A k \in 1..Len(fs) : Fits(fs[k], Len(fs) - k + 1, n)
    BY <1>1, <1>3, <1>4, <2>2 DEF Stack
  <2>4. 1 \in 1..Len(fs) /\ f = fs[1] /\ f \in Calls
    BY <2>3, StackFacts
  <2>5. f.low \in 0..n - 1 /\ f.high \in 0..n - 1 /\ f.low <= f.high
    <3>1. f.low \in Int /\ f.high \in Int /\ f.low >= 0 /\ f.high <= n - 1
      BY <2>3, <2>4 DEF Fits, Calls
    <3> QED BY <1>9, <3>1
  <2>6. Partitions(part, a, n, f.low, f.high)
    BY <1>5, <2>2, <2>3, <2>5, IsPartition
  <2>7. Stack(out, part.a, n)
    BY <1>3, <1>9, <2>1, <2>2, <2>3, <2>6, CallSplits
  <2>8. Rearranged(part.a, qs.unsorted, n, 1..n)
    <3>1. f.low + 1..f.high + 1 \subseteq 1..n
      BY <2>5
    <3>2. PICK S : S = f.low + 1..f.high + 1
      OBVIOUS
    <3>3. Rearranged(part.a, a, n, S) /\ Rearranged(a, qs.unsorted, n, 1..n) /\ S \subseteq 1..n
      BY <1>3, <2>2, <2>6, <3>1, <3>2 DEF Partitions
    <3> QED BY <3>3, RearrangedAgain
  <2>9. qs' = [qs EXCEPT !.frames = out, !.kernel = part.a]
    BY <1>9, <2>1
  <2> QED BY <1>6, <2>2, <2>7, <2>8, <2>9
<1> QED BY <1>4, <1>5, <1>7, <1>8, <1>9 DEF quick_sort

LEMMA CopyToUserInv == ASSUME SortInv, CopyToUser PROVE SortInv'
<1>1. /\ SortTypes /\ BufferInv /\ qs.pc = "quick_sort" /\ qs.frames = <<>> /\ qs.size \in Nat
      /\ qs.buffers = qs.faults + 1 /\ qs.faults \in Nat
      /\ qs' = [qs EXCEPT !.pc = "returned", !.ret = 0, !.sorted = qs.kernel, !.buffers = @ - 1]
  BY DEF SortInv, CopyToUser, BufferInv, SortTypes, Return
<1>2. SizeFits
  <2>1. WholeArray # <<>>
    BY DEF WholeArray
  <2> QED BY <1>1, <2>1 DEF SortInv
<1>3. Stack(<<>>, qs.kernel, qs.size) /\ Rearranged(qs.kernel, qs.unsorted, qs.size, 1..qs.size)
  BY <1>1, <1>2 DEF SortInv
<1>4. \A i, j \in 1..qs.size : i < j => qs.kernel[i] >= qs.kernel[j]
  <2> SUFFICES ASSUME NEW i \in 1..qs.size, NEW j \in 1..qs.size, i < j PROVE qs.kernel[i] >= qs.kernel[j]
    OBVIOUS
  <2>1. i - 1 \in 0..qs.size - 1 /\ j - 1 \in 0..qs.size - 1 /\ i - 1 < j - 1 /\ (i - 1) + 1 = i /\ (j - 1) + 1 = j
    BY <1>1
  <2>2. ~\E k \in 1..Len(<<>>) : TRUE
    OBVIOUS
  <2> QED BY <1>3, <2>1, <2>2 DEF Stack
<1>5. /\ qs'.size = qs.size /\ qs'.unsorted = qs.unsorted /\ qs'.sorted = qs.kernel /\ qs'.frames = <<>>
      /\ qs'.kernel = qs.kernel /\ qs'.room = qs.room /\ qs'.buffers = qs.faults /\ qs'.faults = qs.faults
      /\ qs'.ret = 0 /\ qs'.pc = "returned"
  <2>1. qs.buffers - 1 = qs.faults
    BY <1>1
  <2> QED BY <1>1, <2>1 DEF SortTypes
<1>6. SortTypes'
  <2>1. /\ qs' = [pc |-> qs'.pc, call |-> qs'.call, size |-> qs'.size, unsorted |-> qs'.unsorted, sorted |-> qs'.sorted,
                  kernel |-> qs'.kernel, room |-> qs'.room, frames |-> qs'.frames, buffers |-> qs'.buffers,
                  faults |-> qs'.faults, ret |-> qs'.ret]
    BY <1>1 DEF SortTypes
  <2> QED BY <1>1, <1>5, <2>1 DEF SortTypes, SizeFits
<1>7. BufferInv' /\ RightlySorted'
  BY <1>1, <1>3, <1>4, <1>5 DEF BufferInv, RightlySorted
<1> QED BY <1>5, <1>6, <1>7 DEF SortInv

LEMMA SortStep == SortInv /\ [SortNext]_qs => SortInv'
<1> SUFFICES ASSUME SortInv, [SortNext]_qs PROVE SortInv'
  OBVIOUS
<1>1. CASE UNCHANGED qs
  BY <1>1 DEF SortInv, SortTypes, BufferInv, RightlySorted, SizeFits, WholeArray
<1>2. CASE CopyFault("copy_from_user")
  <2>1. qs.frames = <<>>
    BY <1>2 DEF CopyFault, SortInv
  <2> QED BY <1>2, <2>1, CopyFaultInv
<1>3. CASE qs.frames = <<>> /\ CopyFault("quick_sort")
  BY <1>3, CopyFaultInv
<1> QED
  BY <1>1, <1>2, <1>3, SortCallInv, SortKmallocInv, CopyFromUserInv, OutOfBoundsInv, QuickSortInv, CopyToUserInv
     DEF SortNext

Places(a, n, v) == {i \in 1..n : a[i] = v}

(* Rearranging changes no count.                                           *)
LEMMA RearrangedCounts ==
  ASSUME NEW n \in Nat, NEW a, NEW b, NEW S, Rearranged(b, a, n, S), NEW v
  PROVE  Cardinality(Places(b, n, v)) = Cardinality(Places(a, n, v))
<1> DEFINE A == {i \in 1..n : b[i] = v}
           B == {i \in 1..n : a[i] = v}
<1>1. PICK p, q \in Between(1..n, n) :
        \A k \in 1..n : q[p[k]] = k /\ p[q[k]] = k /\ b[k] = a[p[k]] /\ (k \notin S => p[k] = k)
  BY DEF Rearranged
<1>2. \A k \in 1..n : p[k] \in 1..n /\ q[k] \in 1..n
  BY DEF Between
<1> DEFINE g == [i \in A |-> p[i]]
<1>3. g \in [A -> B]
  BY <1>1, <1>2
<1>4. ASSUME NEW i \in A, NEW j \in A, g[i] = g[j] PROVE i = j
  <2>1. p[i] = p[j] /\ i \in 1..n /\ j \in 1..n
    BY <1>4
  <2> QED BY <1>1, <2>1
<1>5. ASSUME NEW j \in B PROVE \E i \in A : g[i] = j
  <2>1. j \in 1..n /\ a[j] = v
    OBVIOUS
  <2>2. q[j] \in 1..n /\ p[q[j]] = j
    BY <1>1, <1>2, <2>1
  <2>3. b[q[j]] = v
    BY <1>1, <2>1, <2>2
  <2>4. q[j] \in A /\ g[q[j]] = j
    BY <2>2, <2>3
  <2> QED BY <2>4
<1>6. IsFiniteSet(A)
  <2>1. IsFiniteSet(1..n) /\ A \subseteq 1..n
    BY FS_Interval
  <2> QED BY <2>1, FS_Subset
<1> HIDE DEF A, B, g
<1>7. g \in Bijection(A, B)
  BY <1>3, <1>4, <1>5 DEF Bijection, Injection, Surjection, IsInjective
<1>8. ExistsBijection(A, B)
  BY <1>7 DEF ExistsBijection
<1>9. Cardinality(B) = Cardinality(A)
  BY <1>6, <1>8, FS_Bijection
<1> QED BY <1>9 DEF A, B, Places

LEMMA SortSafe == SortInv => SortingWorks
<1> SUFFICES ASSUME SortInv PROVE SortingWorks
  OBVIOUS
<1>1. SortTypes /\ BufferInv /\ RightlySorted /\ qs.size \in Nat
  BY DEF SortInv, SortTypes
<1>2. ASSUME qs.ret = 0 \/ qs.sorted # <<>>
      PROVE  /\ \A i, j \in 1..qs.size : i < j => qs.sorted[i] >= qs.sorted[j]
             /\ \A v \in SortValues : Cardinality({i \in 1..qs.size : qs.sorted[i] = v})
                                    = Cardinality({i \in 1..qs.size : qs.unsorted[i] = v})
  <2>1. PICK n \in Nat, a \in {qs.unsorted}, b \in {qs.sorted} : n = qs.size
    BY <1>1
  <2>2. Rearranged(b, a, n, 1..n) /\ \A i, j \in 1..n : i < j => b[i] >= b[j]
    BY <1>1, <1>2, <2>1 DEF RightlySorted
  <2>3. ASSUME NEW v PROVE Cardinality(Places(b, n, v)) = Cardinality(Places(a, n, v))
    BY <2>2, RearrangedCounts
  <2>4. ASSUME NEW v
        PROVE  /\ Places(b, n, v) = {i \in 1..qs.size : qs.sorted[i] = v}
               /\ Places(a, n, v) = {i \in 1..qs.size : qs.unsorted[i] = v}
    BY <2>1 DEF Places
  <2>5. \A v \in SortValues : Cardinality({i \in 1..qs.size : qs.sorted[i] = v})
                            = Cardinality({i \in 1..qs.size : qs.unsorted[i] = v})
    <3> SUFFICES ASSUME NEW v \in SortValues
                 PROVE  Cardinality({i \in 1..qs.size : qs.sorted[i] = v})
                      = Cardinality({i \in 1..qs.size : qs.unsorted[i] = v})
      OBVIOUS
    <3>1. /\ Places(b, n, v) = {i \in 1..qs.size : qs.sorted[i] = v}
          /\ Places(a, n, v) = {i \in 1..qs.size : qs.unsorted[i] = v}
      BY <2>4
    <3> QED BY <2>3, <3>1, Zenon
  <2> QED BY <2>1, <2>2, <2>5
<1>3. qs.pc = "wild" => qs.size * SIZE_OF_INT >= INT_MOD \div 2
  <2>1. qs.size * SIZE_OF_INT \in Int /\ INT_MOD \div 2 \in Int
    BY <1>1, SortAssumption DEF SIZE_OF_INT
  <2>2. qs.pc = "wild" => ~(qs.size * SIZE_OF_INT < INT_MOD \div 2)
    BY DEF SortInv, SizeFits
  <2> QED BY <2>1, <2>2
<1>4. qs.pc = "returned" => qs.buffers = qs.faults
  BY <1>1 DEF BufferInv
<1>5. DepthBounded
  <2>1. CASE qs.frames = <<>>
    <3>1. Len(qs.frames) = 0
      BY <2>1
    <3> QED BY <1>1, <3>1 DEF DepthBounded
  <2>2. CASE qs.frames # <<>> /\ SizeFits
    <3>1. Stack(qs.frames, qs.kernel, qs.size)
      BY <1>1, <2>2 DEF SortInv, SortTypes
    <3>2. PICK fs \in Seq(Calls) : fs = qs.frames /\ \A k \in 1..Len(fs) : Fits(fs[k], Len(fs) - k + 1, qs.size)
      BY <3>1 DEF Stack
    <3>3. 1 \in 1..Len(fs) /\ Len(fs) - 1 + 1 = Len(fs)
      BY <2>2, <3>2, StackFacts
    <3> QED BY <3>2, <3>3 DEF Fits, DepthBounded
  <2>3. CASE qs.frames # <<>> /\ ~SizeFits
    <3>1. qs.frames = WholeArray /\ qs.size > 0
      BY <1>1, <2>3 DEF SortInv, SortTypes, BufferInv
    <3>2. Len(WholeArray) = 1
      BY DEF WholeArray
    <3> QED BY <1>1, <3>1, <3>2 DEF DepthBounded
  <2> QED BY <2>1, <2>2, <2>3
<1> QED BY <1>2, <1>3, <1>4, <1>5 DEF SortingWorks, SortCorrect

(* An array of any size and values: a sorting that returns 0 has put the   *)
(* program's elements, each as often as it was there, in descending order; *)
(* it stays inside its buffer unless the size in bytes overflows an int;   *)
(* a buffer is lost for each fault of a copy; and the calls of quick_sort  *)
(* are never deeper than the array is long.                                *)
THEOREM SortingAlwaysWorks == HomeworkSpec => []SortingWorks
<1>1. HomeworkInit => SortInv
  BY InitSort DEF HomeworkInit
<1>2. SortInv /\ [HomeworkNext]_homeworkVars => SortInv'
  <2> SUFFICES ASSUME SortInv, [HomeworkNext]_homeworkVars PROVE SortInv'
    OBVIOUS
  <2>1. [SortNext]_qs
    BY DEF HomeworkNext, homeworkVars
  <2> QED BY <2>1, SortStep
<1> QED BY <1>1, <1>2, SortSafe, PTL DEF HomeworkSpec

-----------------------------------------------------------------------------
(* PthreadSub: the report of child 1.                                      *)

Lowered(s) == [k \in DOMAIN s |-> LowerCase(s[k])]

LEMMA LowerIs ==
  ASSUME NEW c \in Nat
  PROVE  /\ LowerCase(c) \in Nat /\ LowerCase(c) \notin Capitals /\ LowerCase(LowerCase(c)) = LowerCase(c)
         /\ c \notin Capitals => LowerCase(c) = c
BY AlphabetAssumption DEF LowerCase

(* What differs in its first character is ordered by it.                   *)
LEMMA RestIs ==
  ASSUME NEW n \in Nat, NEW t \in Between(Nat, n), NEW i \in 1..n, NEW j \in 1..n, t[i] # t[j]
  PROVE  RestIsGreater(t, i, j) <=> t[i] > t[j]
<1> DEFINE differ == {d \in 0..Len(t) : At(t, i + d) # At(t, j + d)}
<1>1. Len(t) = n
  BY DEF Between
<1>2. At(t, i) = t[i] /\ At(t, j) = t[j]
  BY <1>1 DEF At
<1>3. i + 0 = i /\ j + 0 = j
  OBVIOUS
<1>4. 0 \in differ /\ differ \subseteq Nat
  BY <1>1, <1>2, <1>3
<1> HIDE DEF differ
<1>5. Min(differ) = 0
  <2>1. Min(differ) \in differ /\ \A d \in differ : Min(differ) <= d
    <3>1. differ \in SUBSET Nat /\ differ # {}
      BY <1>4
    <3> QED BY <3>1, MinIs
  <2>2. PICK m : m = Min(differ)
    OBVIOUS
  <2>3. m \in Nat /\ m <= 0
    BY <1>4, <2>1, <2>2
  <2>4. m = 0
    BY <2>3
  <2> QED BY <2>2, <2>4
<1>6. RestIsGreater(t, i, j) <=> differ # {} /\ At(t, i + Min(differ)) > At(t, j + Min(differ))
  BY DEF RestIsGreater, differ
<1> QED BY <1>2, <1>3, <1>4, <1>5, <1>6

(* The inner loop's body puts the smaller of the two lowered characters    *)
(* first.                                                                  *)
LEMMA ExchangedIs ==
  ASSUME NEW n \in Nat, NEW s \in Between(Nat, n), NEW i \in 1..n, NEW j \in 1..n, i < j,
         NEW a, NEW b, a = LowerCase(s[i]), b = LowerCase(s[j]),
         NEW u, u = Exchanged(s, i, j)
  PROVE  /\ u \in Between(Nat, n)
         /\ u[i] = (IF a > b THEN b ELSE a) /\ u[j] = (IF a > b THEN a ELSE b)
         /\ \A k \in 1..n : k # i /\ k # j => u[k] = s[k]
<1> DEFINE t == [s EXCEPT ![i] = LowerCase(@), ![j] = LowerCase(@)]
<1>1. a \in Nat /\ b \in Nat /\ DOMAIN s = 1..n /\ \A k \in 1..n : s[k] \in Nat
  BY LowerIs DEF Between
<1>2. t \in Between(Nat, n) /\ t[i] = a /\ t[j] = b /\ \A k \in 1..n : k # i /\ k # j => t[k] = s[k]
  BY <1>1 DEF Between
<1>3. u = IF RestIsGreater(t, i, j) THEN [t EXCEPT ![i] = t[j], ![j] = t[i]] ELSE t
  BY DEF Exchanged
<1> HIDE DEF t
<1>4. DOMAIN t = 1..n /\ \A k \in 1..n : t[k] \in Nat
  BY <1>2 DEF Between
<1>5. CASE RestIsGreater(t, i, j)
  <2>1. u = [t EXCEPT ![i] = t[j], ![j] = t[i]]
    BY <1>3, <1>5
  <2>2. u \in Between(Nat, n) /\ u[i] = b /\ u[j] = a /\ \A k \in 1..n : k # i /\ k # j => u[k] = s[k]
    BY <1>2, <1>4, <2>1 DEF Between
  <2>3. a # b => a > b
    BY <1>2, <1>5, RestIs
  <2> QED BY <1>1, <2>2, <2>3
<1>6. CASE ~RestIsGreater(t, i, j)
  <2>1. u = t
    BY <1>3, <1>6
  <2>2. a # b => ~(a > b)
    BY <1>2, <1>6, RestIs
  <2> QED BY <1>1, <1>2, <2>1, <2>2
<1> QED BY <1>5, <1>6

(* Lowered, the two characters are swapped or where they were.             *)
LEMMA ExchangedRearranges ==
  ASSUME NEW n \in Nat, NEW s \in Between(Nat, n), NEW i \in 1..n, NEW j \in 1..n, i < j,
         NEW u, u = Exchanged(s, i, j)
  PROVE  Rearranged(Lowered(u), Lowered(s), n, 1..n)
<1>1. PICK a \in Nat, b \in Nat : a = LowerCase(s[i]) /\ b = LowerCase(s[j])
  BY LowerIs DEF Between
<1>2. /\ u \in Between(Nat, n)
      /\ u[i] = (IF a > b THEN b ELSE a) /\ u[j] = (IF a > b THEN a ELSE b)
      /\ \A k \in 1..n : k # i /\ k # j => u[k] = s[k]
  BY <1>1, ExchangedIs
<1>3. DOMAIN u = 1..n /\ DOMAIN s = 1..n
  BY <1>2 DEF Between
<1>4. LowerCase(a) = a /\ LowerCase(b) = b
  BY <1>1, LowerIs DEF Between
<1>5. /\ \A k \in 1..n : k # i /\ k # j => Lowered(u)[k] = Lowered(s)[k]
      /\ Lowered(u)[i] = (IF a > b THEN b ELSE a) /\ Lowered(u)[j] = (IF a > b THEN a ELSE b)
      /\ Lowered(s)[i] = a /\ Lowered(s)[j] = b
  BY <1>1, <1>2, <1>3, <1>4 DEF Lowered
<1> DEFINE there == [k \in 1..n |-> IF a > b /\ k = i THEN j ELSE IF a > b /\ k = j THEN i ELSE k]
<1>6. there \in Between(1..n, n)
  BY DEF Between
<1>7. \A k \in 1..n : there[there[k]] = k /\ Lowered(u)[k] = Lowered(s)[there[k]]
  <2>1. CASE a > b
    BY <1>5, <2>1
  <2>2. CASE ~(a > b)
    BY <1>5, <2>2
  <2> QED BY <2>1, <2>2
<1> HIDE DEF there
<1> QED BY <1>6, <1>7 DEF Rearranged

(* The loops over the text satisfy their equations.                        *)
LEMMA InnerLoopIs ==
  ASSUME NEW s, NEW n \in Nat, Len(s) = n, NEW i \in 1..n
  PROVE  /\ InnerLoop(s, i)[i] = s
         /\ \A j \in i..n : j # i => InnerLoop(s, i)[j] = Exchanged(InnerLoop(s, i)[j - 1], i, j)
<1> DEFINE F(f, m) == [j \in i..m |-> IF j = i THEN s ELSE Exchanged(f[j - 1], i, j)]
           D == {d \in Nat : \E f : f = F(f, i + d)}
<1>1. 0 \in D
  <2> DEFINE f == [j \in i..i |-> s]
  <2>1. F(f, i) = f /\ i + 0 = i
    OBVIOUS
  <2> QED BY <2>1
<1>2. ASSUME NEW d \in Nat, d \in D PROVE d + 1 \in D
  <2>1. PICK f : f = F(f, i + d)
    BY <1>2
  <2> DEFINE m == i + (d + 1)
             g == [j \in i..m |-> IF j = m THEN Exchanged(f[m - 1], i, m) ELSE f[j]]
  <2>2. m \in Int /\ m > i /\ m - 1 = i + d
    OBVIOUS
  <2>3. ASSUME NEW j \in i..m PROVE g[j] = F(g, m)[j]
    <3>1. CASE j = m
      <4>1. m - 1 \in i..m /\ m - 1 # m
        BY <2>2
      <4>2. g[m - 1] = f[m - 1]
        BY <4>1
      <4> QED BY <2>2, <3>1, <4>2
    <3>2. CASE j # m /\ j = i
      <4>1. j \in i..i + d
        BY <2>2, <3>2
      <4>2. f[j] = s
        BY <2>1, <3>2, <4>1
      <4> QED BY <3>2, <4>2
    <3>3. CASE j # m /\ j # i
      <4>1. j \in i..i + d /\ j - 1 \in i..m /\ j - 1 # m
        BY <2>2, <3>3
      <4>2. f[j] = Exchanged(f[j - 1], i, j)
        BY <2>1, <3>3, <4>1
      <4>3. g[j] = f[j] /\ g[j - 1] = f[j - 1]
        BY <3>3, <4>1
      <4> QED BY <3>3, <4>2, <4>3
    <3> QED BY <3>1, <3>2, <3>3
  <2>4. g = F(g, m)
    <3> HIDE DEF m
    <3> QED BY <2>3
  <2> HIDE DEF g
  <2> QED BY <2>4
<1>3. n - i \in D
  <2> HIDE DEF D
  <2>1. \A d \in Nat : d \in D => d + 1 \in D
    BY <1>2
  <2>2. Nat \subseteq D
    BY <1>1, <2>1, Induct
  <2> QED BY <2>2
<1>4. \E f : f = F(f, n)
  <2>1. i + (n - i) = n
    OBVIOUS
  <2> QED BY <1>3, <2>1
<1> DEFINE L == CHOOSE f : f = F(f, n)
<1>5. L = F(L, n)
  BY <1>4
<1>6. InnerLoop(s, i) = L
  BY Zenon DEF InnerLoop
<1> HIDE DEF L
<1> QED BY <1>5, <1>6

LEMMA OuterLoopIs ==
  ASSUME NEW s, NEW n \in Nat, Len(s) = n
  PROVE  /\ OuterLoop(s)[0] = s
         /\ \A i \in 1..n : OuterLoop(s)[i] = InnerLoop(OuterLoop(s)[i - 1], i)[n]
<1> DEFINE F(f, m) == [i \in 0..m |-> IF i = 0 THEN s ELSE InnerLoop(f[i - 1], i)[n]]
           D == {m \in Nat : \E f : f = F(f, m)}
<1>1. 0 \in D
  <2> DEFINE f == [i \in 0..0 |-> s]
  <2>1. F(f, 0) = f
    OBVIOUS
  <2> QED BY <2>1
<1>2. ASSUME NEW m \in Nat, m \in D PROVE m + 1 \in D
  <2>1. PICK f : f = F(f, m)
    BY <1>2
  <2> DEFINE g == [i \in 0..m + 1 |-> IF i = m + 1 THEN InnerLoop(f[m], m + 1)[n] ELSE f[i]]
  <2>2. (m + 1) - 1 = m /\ m \in 0..m + 1 /\ m # m + 1
    OBVIOUS
  <2>3. ASSUME NEW i \in 0..m + 1 PROVE g[i] = F(g, m + 1)[i]
    <3>1. CASE i = m + 1
      <4>1. g[m] = f[m]
        BY <2>2
      <4> QED BY <2>2, <3>1, <4>1
    <3>2. CASE i # m + 1 /\ i = 0
      <4>1. f[i] = s
        BY <2>1, <3>2
      <4> QED BY <3>2, <4>1
    <3>3. CASE i # m + 1 /\ i # 0
      <4>1. i \in 0..m /\ i - 1 \in 0..m + 1 /\ i - 1 # m + 1
        BY <3>3
      <4>2. f[i] = InnerLoop(f[i - 1], i)[n]
        BY <2>1, <3>3, <4>1
      <4>3. g[i] = f[i] /\ g[i - 1] = f[i - 1]
        BY <3>3, <4>1
      <4> QED BY <3>3, <4>2, <4>3
    <3> QED BY <3>1, <3>2, <3>3
  <2>4. g = F(g, m + 1)
    BY <2>3
  <2> HIDE DEF g
  <2> QED BY <2>4
<1>3. n \in D
  <2> HIDE DEF D
  <2>1. \A m \in Nat : m \in D => m + 1 \in D
    BY <1>2
  <2> QED BY <1>1, <2>1, Induct
<1> DEFINE L == CHOOSE f : f = F(f, n)
<1>4. L = F(L, n)
  BY <1>3
<1>5. OuterLoop(s) = L
  BY Zenon DEF OuterLoop
<1> HIDE DEF L
<1> QED BY <1>4, <1>5

LEMMA CountingLoopIs ==
  ASSUME NEW s, NEW n \in Nat, Len(s) = n
  PROVE  /\ CountingLoop(s)[0] = [members |-> <<>>, count |-> 1]
         /\ \A i \in 1..n : CountingLoop(s)[i] = CharSeen(CountingLoop(s)[i - 1], s, i)
<1> DEFINE start == [members |-> <<>>, count |-> 1]
           F(f, m) == [i \in 0..m |-> IF i = 0 THEN start ELSE CharSeen(f[i - 1], s, i)]
           D == {m \in Nat : \E f : f = F(f, m)}
<1> HIDE DEF start
<1>1. 0 \in D
  <2> DEFINE f == [i \in 0..0 |-> start]
  <2>1. F(f, 0) = f
    OBVIOUS
  <2> QED BY <2>1
<1>2. ASSUME NEW m \in Nat, m \in D PROVE m + 1 \in D
  <2>1. PICK f : f = F(f, m)
    BY <1>2
  <2> DEFINE g == [i \in 0..m + 1 |-> IF i = m + 1 THEN CharSeen(f[m], s, m + 1) ELSE f[i]]
  <2>2. (m + 1) - 1 = m /\ m \in 0..m + 1 /\ m # m + 1
    OBVIOUS
  <2>3. ASSUME NEW i \in 0..m + 1 PROVE g[i] = F(g, m + 1)[i]
    <3>1. CASE i = m + 1
      <4>1. g[m] = f[m]
        BY <2>2
      <4> QED BY <2>2, <3>1, <4>1
    <3>2. CASE i # m + 1 /\ i = 0
      <4>1. f[i] = start
        BY <2>1, <3>2
      <4> QED BY <3>2, <4>1
    <3>3. CASE i # m + 1 /\ i # 0
      <4>1. i \in 0..m /\ i - 1 \in 0..m + 1 /\ i - 1 # m + 1
        BY <3>3
      <4>2. f[i] = CharSeen(f[i - 1], s, i)
        BY <2>1, <3>3, <4>1
      <4>3. g[i] = f[i] /\ g[i - 1] = f[i - 1]
        BY <3>3, <4>1
      <4> QED BY <3>3, <4>2, <4>3
    <3> QED BY <3>1, <3>2, <3>3
  <2>4. g = F(g, m + 1)
    BY <2>3
  <2> HIDE DEF g
  <2> QED BY <2>4
<1>3. n \in D
  <2> HIDE DEF D
  <2>1. \A m \in Nat : m \in D => m + 1 \in D
    BY <1>2
  <2> QED BY <1>1, <2>1, Induct
<1> DEFINE L == CHOOSE f : f = F(f, n)
<1>4. L = F(L, n)
  BY <1>3
<1>5. CountingLoop(s) = L
  BY Zenon DEF CountingLoop, start
<1> HIDE DEF L
<1> QED BY <1>4, <1>5 DEF start

(* u is the text s when the loops have put the first i - 1 characters in   *)
(* their places and the inner loop has seen j.                             *)
Sorting(u, s, n, i, j) ==
  /\ u \in Between(Nat, n) /\ Rearranged(Lowered(u), Lowered(s), n, 1..n) /\ (n < 2 => u = s)
  /\ \A k, m \in 1..n : k < i /\ k < m => u[k] <= u[m]
  /\ \A m \in i + 1..j : u[i] <= u[m]
  /\ \A k \in 1..n : i > 1 \/ (k <= j /\ j > 1) => u[k] \notin Capitals

LEMMA OneMoreExchanged ==
  ASSUME NEW n \in Nat, NEW s, NEW i \in 1..n, NEW j \in i..n - 1, NEW u, Sorting(u, s, n, i, j)
  PROVE  Sorting(Exchanged(u, i, j + 1), s, n, i, j + 1)
<1>1. PICK v : v = Exchanged(u, i, j + 1)
  OBVIOUS
<1>2. /\ u \in Between(Nat, n) /\ Rearranged(Lowered(u), Lowered(s), n, 1..n)
      /\ \A k, m \in 1..n : k < i /\ k < m => u[k] <= u[m]
      /\ \A m \in i + 1..j : u[i] <= u[m]
      /\ \A k \in 1..n : i > 1 \/ (k <= j /\ j > 1) => u[k] \notin Capitals
  BY DEF Sorting
<1>3. j + 1 \in 1..n /\ i < j + 1 /\ n >= 2 /\ \A k \in 1..n : u[k] \in Nat
  BY <1>2 DEF Between
<1>4. PICK a \in Nat, b \in Nat : a = LowerCase(u[i]) /\ b = LowerCase(u[j + 1])
  BY <1>3, LowerIs
<1>5. /\ v \in Between(Nat, n)
      /\ v[i] = (IF a > b THEN b ELSE a) /\ v[j + 1] = (IF a > b THEN a ELSE b)
      /\ \A k \in 1..n : k # i /\ k # j + 1 => v[k] = u[k]
  BY <1>1, <1>2, <1>3, <1>4, ExchangedIs
<1>6. Rearranged(Lowered(v), Lowered(s), n, 1..n)
  <2>1. Rearranged(Lowered(v), Lowered(u), n, 1..n)
    BY <1>1, <1>2, <1>3, ExchangedRearranges
  <2> QED BY <1>2, <2>1, RearrangedAgain
<1>7. a \notin Capitals /\ b \notin Capitals
  BY <1>3, <1>4, LowerIs
<1>8. /\ i > 1 => a = u[i] /\ b = u[j + 1]
      /\ j > 1 => a = u[i]
  BY <1>2, <1>3, <1>4, LowerIs
<1>9. ASSUME NEW k \in 1..n, NEW m \in 1..n, k < i, k < m PROVE v[k] <= v[m]
  <2>1. v[k] = u[k] /\ i > 1
    BY <1>3, <1>5, <1>9
  <2>2. u[k] <= u[m] /\ u[k] <= u[i] /\ u[k] <= u[j + 1]
    BY <1>2, <1>3, <1>9
  <2>3. v[m] \in {u[i], u[j + 1], u[m]}
    BY <1>5, <1>8, <2>1
  <2> QED BY <2>1, <2>2, <2>3
<1>10. ASSUME NEW m \in i + 1..j + 1 PROVE v[i] <= v[m]
  <2>1. CASE m = j + 1
    BY <1>5, <2>1
  <2>2. CASE m # j + 1
    <3>1. m \in i + 1..j /\ m \in 1..n /\ m # i /\ j > 1
      BY <1>3, <2>2
    <3>2. a <= u[m] /\ v[m] = u[m] /\ u[m] \in Nat
      BY <1>2, <1>3, <1>5, <1>8, <2>2, <3>1
    <3>3. v[i] = a \/ (v[i] = b /\ a > b)
      BY <1>5
    <3> QED BY <3>2, <3>3
  <2> QED BY <2>1, <2>2
<1>11. ASSUME NEW k \in 1..n, i > 1 \/ (k <= j + 1 /\ j + 1 > 1) PROVE v[k] \notin Capitals
  <2>1. CASE k \in {i, j + 1}
    BY <1>5, <1>7, <2>1
  <2>2. CASE k \notin {i, j + 1}
    <3>1. i > 1 \/ (k <= j /\ j > 1)
      BY <1>11, <2>2
    <3> QED BY <1>2, <1>5, <2>2, <3>1
  <2> QED BY <2>1, <2>2
<1>12. Sorting(v, s, n, i, j + 1)
  BY <1>3, <1>5, <1>6, <1>9, <1>10, <1>11 DEF Sorting
<1> QED BY <1>1, <1>12

(* One round of the outer loop.                                            *)
LEMMA InnerSorts ==
  ASSUME NEW n \in Nat, NEW s, NEW i \in 1..n, NEW u, Sorting(u, s, n, i, i)
  PROVE  Sorting(InnerLoop(u, i)[n], s, n, i, n)
<1> DEFINE after(j) == InnerLoop(u, i)[j]
           D == {d \in Nat : i + d <= n => Sorting(after(i + d), s, n, i, i + d)}
<1>1. Len(u) = n
  BY DEF Sorting, Between
<1>2. after(i) = u /\ \A j \in i..n : j # i => after(j) = Exchanged(after(j - 1), i, j)
  BY <1>1, InnerLoopIs
<1> HIDE DEF after
<1>3. 0 \in D
  <2>1. i + 0 = i
    OBVIOUS
  <2> QED BY <1>2, <2>1
<1>4. ASSUME NEW d \in Nat, d \in D PROVE d + 1 \in D
  <2> SUFFICES ASSUME i + (d + 1) <= n PROVE Sorting(after(i + (d + 1)), s, n, i, i + (d + 1))
    OBVIOUS
  <2>1. PICK j \in i..n - 1 : j = i + d
    OBVIOUS
  <2>2. i + (d + 1) = j + 1 /\ j + 1 \in i..n /\ j + 1 # i /\ (j + 1) - 1 = j /\ i + d <= n
    BY <2>1
  <2>3. Sorting(after(j), s, n, i, j)
    BY <1>4, <2>1, <2>2
  <2>4. after(j + 1) = Exchanged(after(j), i, j + 1)
    BY <1>2, <2>2
  <2> QED BY <2>2, <2>3, <2>4, OneMoreExchanged
<1>5. Sorting(after(n), s, n, i, n)
  <2> HIDE DEF D
  <2>1. Nat \subseteq D
    BY <1>3, <1>4, Induct
  <2>2. n - i \in D /\ i + (n - i) = n
    BY <2>1
  <2> QED BY <2>2 DEF D
<1> QED BY <1>5 DEF after

(* SortedText puts the characters in order, lowered if there is more than  *)
(* one.                                                                    *)
LEMMA OuterSorts ==
  ASSUME NEW n \in Nat, n > 0, NEW s \in Between(Nat, n)
  PROVE  Sorting(SortedText(s), s, n, n, n)
<1> DEFINE after(i) == OuterLoop(s)[i]
           D == {i \in Nat : i < n => Sorting(after(i), s, n, i + 1, i + 1)}
<1>1. Len(s) = n
  BY DEF Between
<1>2. after(0) = s /\ \A i \in 1..n : after(i) = InnerLoop(after(i - 1), i)[n]
  BY <1>1, OuterLoopIs
<1> HIDE DEF after
<1>3. 0 \in D
  <2>1. Rearranged(Lowered(s), Lowered(s), n, 1..n)
    BY NotRearranged
  <2>2. Sorting(s, s, n, 1, 1)
    BY <2>1 DEF Sorting
  <2>3. 0 + 1 = 1
    OBVIOUS
  <2> QED BY <1>2, <2>2, <2>3
<1>4. ASSUME NEW i \in Nat, i \in D PROVE i + 1 \in D
  <2> SUFFICES ASSUME i + 1 < n PROVE Sorting(after(i + 1), s, n, (i + 1) + 1, (i + 1) + 1)
    OBVIOUS
  <2>1. PICK m \in 1..n - 1 : m = i + 1
    OBVIOUS
  <2>2. Sorting(after(i), s, n, m, m)
    BY <1>4, <2>1
  <2>3. after(m) = InnerLoop(after(i), m)[n]
    <3>1. m \in 1..n /\ m - 1 = i
      BY <2>1
    <3> QED BY <1>2, <3>1
  <2>4. Sorting(after(m), s, n, m, n)
    <3>1. m \in 1..n
      OBVIOUS
    <3> QED BY <2>2, <2>3, <3>1, InnerSorts
  <2>5. PICK u : u = after(m)
    OBVIOUS
  <2>6. /\ u \in Between(Nat, n) /\ Rearranged(Lowered(u), Lowered(s), n, 1..n) /\ (n < 2 => u = s)
        /\ \A k, l \in 1..n : k < m /\ k < l => u[k] <= u[l]
        /\ \A l \in m + 1..n : u[m] <= u[l]
        /\ \A k \in 1..n : m > 1 \/ (k <= n /\ n > 1) => u[k] \notin Capitals
    BY <2>4, <2>5 DEF Sorting
  <2>7. ASSUME NEW k \in 1..n, NEW l \in 1..n, k < m + 1, k < l PROVE u[k] <= u[l]
    <3>1. k < m \/ (k = m /\ l \in m + 1..n)
      BY <2>7
    <3> QED BY <2>6, <2>7, <3>1
  <2>8. \A k \in 1..n : u[k] \notin Capitals
    BY <2>6
  <2>9. Sorting(u, s, n, m + 1, m + 1)
    <3>1. (m + 1) + 1..m + 1 = {}
      OBVIOUS
    <3> QED BY <2>6, <2>7, <2>8, <3>1 DEF Sorting
  <2> QED BY <2>1, <2>5, <2>9
<1>5. Sorting(after(n), s, n, n, n)
  <2> HIDE DEF D
  <2>1. Nat \subseteq D
    BY <1>3, <1>4, Induct
  <2>2. n - 1 \in D /\ (n - 1) + 1 = n /\ n \in 1..n
    BY <2>1
  <2>3. Sorting(after(n - 1), s, n, n, n)
    BY <2>2 DEF D
  <2>4. after(n) = InnerLoop(after(n - 1), n)[n]
    BY <1>2, <2>2
  <2> QED BY <2>2, <2>3, <2>4, InnerSorts
<1> QED BY <1>1, <1>5 DEF after, SortedText

LEMMA SortedIs ==
  ASSUME NEW n \in Nat, NEW s \in Between(Nat, n), NEW t, t = SortedText(s),
         NEW lower, lower = IF n > 1 THEN Lowered(s) ELSE s
  PROVE  /\ t \in Between(Nat, n) /\ \A k, m \in 1..n : k < m => t[k] <= t[m]
         /\ Rearranged(t, lower, n, 1..n)
<1>1. Len(s) = n
  BY DEF Between
<1>2. CASE n = 0
  <2>1. t = s
    BY <1>1, <1>2, OuterLoopIs DEF SortedText
  <2>2. Rearranged(s, s, n, 1..n)
    BY NotRearranged
  <2> QED BY <1>2, <2>1, <2>2
<1>3. CASE n # 0
  <2>1. Sorting(t, s, n, n, n)
    BY <1>3, OuterSorts
  <2>2. /\ t \in Between(Nat, n) /\ Rearranged(Lowered(t), Lowered(s), n, 1..n) /\ (n < 2 => t = s)
        /\ \A k, m \in 1..n : k < n /\ k < m => t[k] <= t[m]
        /\ \A k \in 1..n : n > 1 \/ (k <= n /\ n > 1) => t[k] \notin Capitals
    BY <2>1 DEF Sorting
  <2>3. \A k, m \in 1..n : k < m => t[k] <= t[m]
    BY <2>2
  <2>4. CASE n > 1
    <3>1. DOMAIN t = 1..n /\ \A k \in 1..n : t[k] \in Nat /\ t[k] \notin Capitals
      BY <2>2, <2>4 DEF Between
    <3>2. \A k \in 1..n : LowerCase(t[k]) = t[k]
      BY <3>1 DEF LowerCase
    <3>3. Lowered(t) = t
      <4>1. Lowered(t) = [k \in 1..n |-> LowerCase(t[k])]
        BY <3>1 DEF Lowered
      <4>2. t = [k \in 1..n |-> t[k]]
        BY <2>2 DEF Between
      <4> QED BY <3>2, <4>1, <4>2
    <3> QED BY <2>2, <2>3, <2>4, <3>3
  <2>5. CASE ~(n > 1)
    <3>1. t = s
      BY <2>2, <2>5, <1>3
    <3>2. Rearranged(s, s, n, 1..n)
      BY NotRearranged
    <3> QED BY <2>2, <2>3, <2>5, <3>1, <3>2
  <2> QED BY <2>4, <2>5
<1> QED BY <1>2, <1>3

(* The letters whose last place in t is not after i and that are reported. *)
Times(t, n, l) == Cardinality(Places(t, n, l))
Passed(t, n, i) == {l \in SmallLetters : Places(t, n, l) # {} /\ Places(t, n, l) \subseteq 1..i
                                         /\ Times(t, n, l) < CountLimit}

Entry(t, n, l) == [alphabet |-> l, count |-> Times(t, n, l)]

(* q reports the letters few of t, in order: f is the sequence of letters. *)
Lists(q, t, n, few, m, f) ==
  /\ f \in Between(few, m) /\ q = [k \in 1..m |-> Entry(t, n, f[k])]
  /\ \A k, l \in 1..m : k < l => f[k] < f[l]
  /\ \A x \in few : \E k \in 1..m : f[k] = x

LEMMA PlacesFinite ==
  ASSUME NEW t, NEW n \in Nat, NEW l
  PROVE  /\ IsFiniteSet(Places(t, n, l)) /\ Times(t, n, l) \in Nat
         /\ Times(t, n, l) = 0 <=> Places(t, n, l) = {}
<1>1. IsFiniteSet(1..n)
  BY FS_Interval
<1>2. IsFiniteSet(Places(t, n, l))
  BY <1>1, FS_Subset DEF Places
<1> QED BY <1>2, FS_CardinalityType, FS_EmptySet DEF Times

LEMMA OneMorePlace ==
  ASSUME NEW t, NEW i \in Nat
  PROVE  Cardinality(Places(t, i + 1, t[i + 1])) = Cardinality(Places(t, i, t[i + 1])) + 1
<1>1. Places(t, i + 1, t[i + 1]) = Places(t, i, t[i + 1]) \cup {i + 1}
  BY DEF Places
<1>2. i + 1 \notin Places(t, i, t[i + 1]) /\ IsFiniteSet(Places(t, i, t[i + 1]))
  <2>1. i + 1 \notin Places(t, i, t[i + 1])
    BY DEF Places
  <2> QED BY <2>1, PlacesFinite
<1> QED BY <1>1, <1>2, FS_AddElement

(* The counting loop at i: count is for the next character, members for    *)
(* the letters passed.                                                     *)
CountIs(c, t, n, i) ==
  c = IF At(t, i + 1) \in SmallLetters THEN 1 + Cardinality(Places(t, i, At(t, i + 1))) ELSE 1

LEMMA NextCount ==
  ASSUME NEW n \in Nat, NEW t \in Between(Nat, n), \A k, m \in 1..n : k < m => t[k] <= t[m],
         NEW i \in 0..n - 1, NEW q, NEW b, CountIs(b, t, n, i),
         NEW before, before = [members |-> q, count |-> b]
  PROVE  CountIs(CharSeen(before, t, i + 1).count, t, n, i + 1)
<1> DEFINE x == t[i + 1]
           y == At(t, (i + 1) + 1)
           c == CharSeen(before, t, i + 1).count
<1>1. Len(t) = n /\ i + 1 \in 1..n /\ At(t, i + 1) = x
  BY DEF Between, At
<1>2. before.count = IF x \in SmallLetters THEN 1 + Cardinality(Places(t, i, x)) ELSE 1
  BY <1>1 DEF CountIs
<1>3. y \in SmallLetters => (i + 1) + 1 \in 1..n /\ y = t[(i + 1) + 1]
  BY <1>1, AlphabetAssumption DEF At, End, Space
<1>4. y \in SmallLetters /\ y # x => Cardinality(Places(t, i + 1, y)) = 0
  <2> SUFFICES ASSUME y \in SmallLetters, y # x PROVE Places(t, i + 1, y) = {}
    BY FS_EmptySet
  <2>1. PICK j \in 1..n : j = (i + 1) + 1 /\ y = t[j]
    BY <1>3
  <2>2. ASSUME NEW k \in 1..i + 1, t[k] = y PROVE FALSE
    <3>1. k \in 1..n /\ i + 1 < j /\ i + 1 \in 1..n
      BY <2>1, <1>1
    <3>2. t[k] <= x /\ x <= y
      <4>1. k = i + 1 \/ k < i + 1
        OBVIOUS
      <4>2. x \in Nat
        BY <1>1 DEF Between
      <4> QED BY <2>1, <3>1, <4>1, <4>2
    <3>3. x \in Nat /\ y \in Nat
      BY <1>1, <2>1 DEF Between
    <3> QED BY <2>2, <3>2, <3>3
  <2> QED BY <2>2 DEF Places
<1>5. CASE x \notin SmallLetters
  <2>1. c = before.count
    BY <1>5 DEF CharSeen
  <2>2. y \in SmallLetters => y # x
    BY <1>5
  <2>3. c = IF y \in SmallLetters THEN 1 + Cardinality(Places(t, i + 1, y)) ELSE 1
    BY <1>2, <1>4, <1>5, <2>1, <2>2
  <2> QED BY <2>3 DEF CountIs
<1>6. CASE x \in SmallLetters /\ x = y
  <2>1. before.count = 1 + Cardinality(Places(t, i, x)) /\ Cardinality(Places(t, i, x)) \in Nat
    BY <1>2, <1>6, PlacesFinite DEF Times
  <2>2. PICK d \in Nat : d = before.count
    BY <2>1
  <2>3. c = before.count + 1
    <3>1. CharSeen(before, t, i + 1) = [before EXCEPT !.count = @ + 1]
      BY <1>6 DEF CharSeen
    <3> QED BY <3>1
  <2>4. c = 1 + Cardinality(Places(t, i + 1, y))
    BY <1>6, <2>1, <2>3, OneMorePlace
  <2> QED BY <1>6, <2>4 DEF CountIs
<1>7. CASE x \in SmallLetters /\ x # y
  <2>1. c = 1
    BY <1>7 DEF CharSeen
  <2> QED BY <1>4, <1>7, <2>1 DEF CountIs
<1> QED BY <1>5, <1>6, <1>7

(* The letter passed with the character at i + 1, if one is.               *)
LEMMA NextPassed ==
  ASSUME NEW n \in Nat, NEW t \in Between(Nat, n), \A k, m \in 1..n : k < m => t[k] <= t[m],
         NEW i \in 0..n - 1, NEW x, x = t[i + 1]
  PROVE  /\ x \in SmallLetters /\ x # At(t, (i + 1) + 1)
            => Places(t, n, x) = Places(t, i + 1, x) /\ x \notin Passed(t, n, i)
               /\ \A l \in Passed(t, n, i) : l < x
         /\ Passed(t, n, i + 1) = Passed(t, n, i)
              \cup (IF x \in SmallLetters /\ x # At(t, (i + 1) + 1) /\ Times(t, n, x) < CountLimit THEN {x} ELSE {})
<1> DEFINE y == At(t, (i + 1) + 1)
<1>1. i + 1 \in 1..n /\ Len(t) = n /\ \A k \in 1..n : t[k] \in Nat
  BY DEF Between
<1>2. (i + 1) + 1 \in 1..n => y = t[(i + 1) + 1]
  BY <1>1 DEF At
<1>3. x \in SmallLetters /\ x # y => \A k \in 1..n : t[k] = x => k \in 1..i + 1
  <2> SUFFICES ASSUME x \in SmallLetters, x # y, NEW k \in 1..n, t[k] = x, k > i + 1 PROVE FALSE
    OBVIOUS
  <2>1. PICK j \in 1..n : j = (i + 1) + 1
    BY <1>1
  <2>2. t[i + 1] <= t[j] /\ (k = j \/ t[j] <= t[k])
    BY <1>1, <2>1
  <2>3. t[j] \in Nat /\ t[k] \in Nat /\ t[j] # x
    BY <1>1, <1>2, <2>1
  <2> QED BY <2>2, <2>3
<1>4. ASSUME x \in SmallLetters, x # y
      PROVE  /\ Places(t, n, x) = Places(t, i + 1, x) /\ x \notin Passed(t, n, i)
             /\ \A l \in Passed(t, n, i) : l < x
  <2>1. Places(t, n, x) = Places(t, i + 1, x)
    BY <1>1, <1>3, <1>4 DEF Places
  <2>2. x \notin Passed(t, n, i)
    BY <1>1 DEF Passed, Places
  <2>3. ASSUME NEW l \in Passed(t, n, i) PROVE l < x
    <3>1. PICK k \in 1..n : t[k] = l /\ k \in 1..i
      BY <2>3 DEF Passed, Places
    <3>2. t[k] <= t[i + 1] /\ t[k] \in Nat /\ x \in Nat /\ l # x
      BY <1>1, <2>2, <2>3, <3>1
    <3> QED BY <3>1, <3>2
  <2> QED BY <2>1, <2>2, <2>3
<1>5. ASSUME NEW l \in SmallLetters
      PROVE  Places(t, n, l) # {} /\ Places(t, n, l) \subseteq 1..i + 1
               <=> (Places(t, n, l) # {} /\ Places(t, n, l) \subseteq 1..i) \/ (l = x /\ x # y)
  <2>1. CASE l = x /\ x # y
    BY <1>1, <1>3, <2>1 DEF Places
  <2>2. CASE l = x /\ x = y
    <3>1. i + 1 \in Places(t, n, l)
      BY <1>1, <2>2 DEF Places
    <3>2. (i + 1) + 1 \in Places(t, n, l)
      <4>1. x # End
        BY <2>2, AlphabetAssumption DEF End, Space
      <4>2. (i + 1) + 1 \in 1..n
        BY <1>1, <2>2, <4>1 DEF At
      <4> QED BY <1>2, <2>2, <4>2 DEF Places
    <3> QED BY <2>2, <3>1, <3>2
  <2>3. CASE l # x
    <3>1. i + 1 \notin Places(t, n, l)
      BY <2>3 DEF Places
    <3> QED BY <2>3, <3>1 DEF Places
  <2> QED BY <2>1, <2>2, <2>3
<1>6. Passed(t, n, i + 1) = Passed(t, n, i)
        \cup (IF x \in SmallLetters /\ x # y /\ Times(t, n, x) < CountLimit THEN {x} ELSE {})
  <2>1. ASSUME NEW l \in SmallLetters
        PROVE  l \in Passed(t, n, i + 1)
                 <=> l \in Passed(t, n, i) \/ (l = x /\ x # y /\ Times(t, n, x) < CountLimit)
    <3>1. l \in Passed(t, n, i + 1) <=> (Places(t, n, l) # {} /\ Places(t, n, l) \subseteq 1..i + 1)
                                        /\ Times(t, n, l) < CountLimit
      BY DEF Passed
    <3>2. l \in Passed(t, n, i) <=> (Places(t, n, l) # {} /\ Places(t, n, l) \subseteq 1..i)
                                    /\ Times(t, n, l) < CountLimit
      BY DEF Passed
    <3> QED BY <1>5, <3>1, <3>2
  <2>2. Passed(t, n, i + 1) \subseteq SmallLetters /\ Passed(t, n, i) \subseteq SmallLetters
    BY DEF Passed
  <2> QED BY <2>1, <2>2
<1> QED BY <1>4, <1>6

LEMMA ListsNothing == ASSUME NEW t, NEW n PROVE Lists(<<>>, t, n, {}, 0, <<>>)
BY DEF Lists, Between

(* A greater letter goes to the end of the list.                           *)
LEMMA ListsOneMore ==
  ASSUME NEW t, NEW n, NEW few \in SUBSET Nat, NEW m \in Nat, NEW q, NEW f, Lists(q, t, n, few, m, f),
         NEW x \in Nat, \A l \in few : l < x
  PROVE  \E g : Lists(Append(q, Entry(t, n, x)), t, n, few \cup {x}, m + 1, g)
<1> DEFINE g == [k \in 1..m + 1 |-> IF k = m + 1 THEN x ELSE f[k]]
           E(l) == Entry(t, n, l)
<1>1. /\ f \in [1..m -> few] /\ q = [k \in 1..m |-> E(f[k])]
      /\ \A k, l \in 1..m : k < l => f[k] < f[l]
      /\ \A l \in few : \E k \in 1..m : f[k] = l
  BY DEF Lists, Between
<1> HIDE DEF E
<1>2. g \in [1..m + 1 -> few \cup {x}] /\ g[m + 1] = x /\ \A k \in 1..m : g[k] = f[k]
  BY <1>1
<1>3. Append(q, E(x)) = [k \in 1..m + 1 |-> E(g[k])]
  <2>1. q \in Seq({E(l) : l \in few})
    BY <1>1
  <2>2. Len(q) = m
    BY <1>1
  <2>3. Append(q, E(x)) = [k \in 1..m + 1 |-> IF k <= m THEN q[k] ELSE E(x)]
    <3>1. PICK e : e = E(x)
      OBVIOUS
    <3>2. q \in Seq({E(l) : l \in few} \cup {e}) /\ e \in {E(l) : l \in few} \cup {e}
      BY <1>1
    <3>3. PICK S : q \in Seq(S) /\ e \in S
      BY <3>2
    <3>4. /\ Append(q, e) \in Seq(S) /\ Len(Append(q, e)) = m + 1
          /\ \A k \in 1..m : Append(q, e)[k] = q[k]
          /\ Append(q, e)[m + 1] = e
      BY <2>2, <3>3, AppendProperties
    <3>5. Append(q, e) = [k \in 1..m + 1 |-> IF k <= m THEN q[k] ELSE e]
      <4>1. PICK r : r = Append(q, e)
        OBVIOUS
      <4>2. r \in Seq(S) /\ Len(r) = m + 1
        BY <3>4, <4>1
      <4>3. r = [k \in 1..m + 1 |-> r[k]]
        BY <4>2
      <4>4. \A k \in 1..m + 1 : r[k] = IF k <= m THEN q[k] ELSE e
        BY <3>4, <4>1
      <4> QED BY <4>1, <4>3, <4>4
    <3> QED BY <3>1, <3>5
  <2>4. \A k \in 1..m + 1 : E(g[k]) = IF k <= m THEN q[k] ELSE E(x)
    BY <1>1, <1>2
  <2> QED BY <2>3, <2>4
<1> HIDE DEF g
<1>4. \A k, l \in 1..m + 1 : k < l => g[k] < g[l]
  <2> SUFFICES ASSUME NEW k \in 1..m + 1, NEW l \in 1..m + 1, k < l PROVE g[k] < g[l]
    OBVIOUS
  <2>1. k \in 1..m /\ g[k] = f[k] /\ f[k] \in few
    BY <1>1, <1>2
  <2>2. l = m + 1 \/ l \in 1..m
    OBVIOUS
  <2> QED BY <1>1, <1>2, <2>1, <2>2
<1>5. \A l \in few \cup {x} : \E k \in 1..m + 1 : g[k] = l
  <2>1. \A k \in 1..m : k \in 1..m + 1
    OBVIOUS
  <2>2. m + 1 \in 1..m + 1
    OBVIOUS
  <2> QED BY <1>1, <1>2, <2>1, <2>2
<1> QED BY <1>2, <1>3, <1>4, <1>5 DEF Lists, Between, E

(* The counting loop at i, with the members for the letters passed.        *)
Counting(c, t, n, i) ==
  \E q, b, f : \E m \in Nat : /\ c = [members |-> q, count |-> b] /\ CountIs(b, t, n, i)
                              /\ Lists(q, t, n, Passed(t, n, i), m, f)

LEMMA CountingStarts ==
  ASSUME NEW n \in Nat, NEW t
  PROVE  Counting([members |-> <<>>, count |-> 1], t, n, 0)
<1>1. Passed(t, n, 0) = {}
  <2>1. 1..0 = {}
    OBVIOUS
  <2> QED BY <2>1 DEF Passed
<1>2. Lists(<<>>, t, n, Passed(t, n, 0), 0, <<>>)
  BY <1>1, ListsNothing
<1>3. CountIs(1, t, n, 0)
  <2>1. \A l : Cardinality(Places(t, 0, l)) = 0
    <3> SUFFICES ASSUME NEW l PROVE Places(t, 0, l) = {}
      BY FS_EmptySet
    <3> QED BY DEF Places
  <2>2. Cardinality(Places(t, 0, At(t, 0 + 1))) = 0
    BY <2>1
  <2> QED BY <2>2 DEF CountIs
<1> QED BY <1>2, <1>3 DEF Counting

LEMMA CountingGoesOn ==
  ASSUME NEW n \in Nat, NEW t \in Between(Nat, n), \A k, m \in 1..n : k < m => t[k] <= t[m],
         NEW i \in 0..n - 1, NEW before, Counting(before, t, n, i)
  PROVE  Counting(CharSeen(before, t, i + 1), t, n, i + 1)
<1> DEFINE x == t[i + 1]
           y == At(t, (i + 1) + 1)
           after == CharSeen(before, t, i + 1)
<1>1. PICK q, b, f : \E m \in Nat : /\ before = [members |-> q, count |-> b] /\ CountIs(b, t, n, i)
                                    /\ Lists(q, t, n, Passed(t, n, i), m, f)
  BY DEF Counting
<1>2. PICK m \in Nat : /\ before = [members |-> q, count |-> b] /\ CountIs(b, t, n, i)
                       /\ Lists(q, t, n, Passed(t, n, i), m, f)
  BY <1>1
<1>3. CountIs(after.count, t, n, i + 1)
  BY <1>2, NextCount
<1>4. i + 1 \in 1..n /\ x \in Nat /\ i \in Nat /\ At(t, i + 1) = x
  BY DEF Between, At
<1>5. /\ x \in SmallLetters /\ x # y
           => Places(t, n, x) = Places(t, i + 1, x) /\ x \notin Passed(t, n, i)
              /\ \A l \in Passed(t, n, i) : l < x
      /\ Passed(t, n, i + 1) = Passed(t, n, i)
           \cup (IF x \in SmallLetters /\ x # y /\ Times(t, n, x) < CountLimit THEN {x} ELSE {})
  BY NextPassed
<1>6. before.members = q /\ before.count = b
  BY <1>2
<1>7. CASE x \notin SmallLetters \/ x = y
  <2>1. after = before \/ after = [before EXCEPT !.count = @ + 1]
    BY <1>7 DEF CharSeen
  <2>2. \E c : after = [members |-> q, count |-> c]
    BY <1>2, <2>1
  <2>3. after = [members |-> q, count |-> after.count]
    BY <2>2
  <2>4. Passed(t, n, i + 1) = Passed(t, n, i)
    BY <1>5, <1>7
  <2>5. Lists(q, t, n, Passed(t, n, i + 1), m, f)
    BY <1>2, <2>4
  <2> HIDE DEF after
  <2>6. Counting(after, t, n, i + 1)
    BY <1>3, <2>3, <2>5 DEF Counting
  <2> QED BY <2>6 DEF after
<1>8. CASE x \in SmallLetters /\ x # y
  <2>1. b = Times(t, n, x)
    <3>1. b = 1 + Cardinality(Places(t, i, x))
      BY <1>2, <1>4, <1>8 DEF CountIs
    <3>2. Cardinality(Places(t, i + 1, x)) = Cardinality(Places(t, i, x)) + 1
      BY <1>4, OneMorePlace
    <3>3. Cardinality(Places(t, i, x)) \in Nat
      BY <1>4, PlacesFinite DEF Times
    <3> QED BY <1>5, <1>8, <3>1, <3>2, <3>3 DEF Times
  <2>2. after = [members |-> IF b < CountLimit THEN Append(q, Entry(t, n, x)) ELSE q, count |-> 1]
    BY <1>6, <1>8, <2>1 DEF CharSeen, add_new_member, Entry
  <2>3. PICK r : r = IF b < CountLimit THEN Append(q, Entry(t, n, x)) ELSE q
    OBVIOUS
  <2>4. after = [members |-> r, count |-> after.count]
    <3>1. after = [members |-> r, count |-> 1]
      BY <2>2, <2>3
    <3> HIDE DEF after
    <3> QED BY <3>1
  <2>5. \E g : \E k \in Nat : Lists(r, t, n, Passed(t, n, i + 1), k, g)
    <3>1. CASE b < CountLimit
      <4>1. Passed(t, n, i + 1) = Passed(t, n, i) \cup {x}
        BY <1>5, <1>8, <2>1, <3>1
      <4>2. Passed(t, n, i) \in SUBSET Nat
        BY AlphabetAssumption DEF Passed
      <4>3. \E g : Lists(Append(q, Entry(t, n, x)), t, n, Passed(t, n, i) \cup {x}, m + 1, g)
        <5>1. \A l \in Passed(t, n, i) : l < x
          BY <1>5, <1>8
        <5>2. PICK few \in SUBSET Nat : few = Passed(t, n, i)
          BY <4>2
        <5>3. Lists(q, t, n, few, m, f) /\ \A l \in few : l < x
          BY <1>2, <5>1, <5>2
        <5>4. PICK z \in Nat : z = x
          BY <1>4
        <5>5. \E g : Lists(Append(q, Entry(t, n, z)), t, n, few \cup {z}, m + 1, g)
          BY <5>3, <5>4, ListsOneMore
        <5>6. Entry(t, n, z) = Entry(t, n, x) /\ few \cup {z} = Passed(t, n, i) \cup {x}
          BY <5>2, <5>4
        <5> QED BY <5>5, <5>6
      <4>4. r = Append(q, Entry(t, n, x)) /\ m + 1 \in Nat
        BY <2>3, <3>1
      <4>5. \E g : Lists(r, t, n, Passed(t, n, i + 1), m + 1, g)
        BY <4>1, <4>3, <4>4
      <4> QED BY <4>4, <4>5, Zenon
    <3>2. CASE ~(b < CountLimit)
      <4>1. Passed(t, n, i + 1) = Passed(t, n, i)
        BY <1>5, <2>1, <3>2
      <4> QED BY <1>2, <2>3, <3>2, <4>1
    <3> QED BY <3>1, <3>2
  <2> HIDE DEF after
  <2>6. Counting(after, t, n, i + 1)
    BY <1>3, <2>4, <2>5 DEF Counting
  <2> QED BY <2>6 DEF after
<1> QED BY <1>7, <1>8

LEMMA CountedIs ==
  ASSUME NEW n \in Nat, NEW t \in Between(Nat, n), \A k, m \in 1..n : k < m => t[k] <= t[m]
  PROVE  \E f : \E m \in Nat : Lists(Counted(t), t, n, Passed(t, n, n), m, f)
<1> DEFINE after(i) == CountingLoop(t)[i]
           D == {i \in Nat : i <= n => Counting(after(i), t, n, i)}
<1>1. Len(t) = n
  BY DEF Between
<1>2. after(0) = [members |-> <<>>, count |-> 1] /\ \A i \in 1..n : after(i) = CharSeen(after(i - 1), t, i)
  BY <1>1, CountingLoopIs
<1> HIDE DEF after
<1>3. 0 \in D
  BY <1>2, CountingStarts
<1>4. ASSUME NEW i \in Nat, i \in D PROVE i + 1 \in D
  <2> SUFFICES ASSUME i + 1 <= n PROVE Counting(after(i + 1), t, n, i + 1)
    OBVIOUS
  <2>1. i \in 0..n - 1 /\ i + 1 \in 1..n /\ (i + 1) - 1 = i /\ i <= n
    OBVIOUS
  <2>2. after(i + 1) = CharSeen(after(i), t, i + 1) /\ Counting(after(i), t, n, i)
    BY <1>2, <1>4, <2>1
  <2> QED BY <2>1, <2>2, CountingGoesOn
<1>5. n \in D
  <2> HIDE DEF D
  <2>1. \A i \in Nat : i \in D => i + 1 \in D
    BY <1>4
  <2> QED BY <1>3, <2>1, Induct
<1>6. Counting(after(n), t, n, n)
  BY <1>5
<1>7. PICK q, b, f : \E m \in Nat : after(n) = [members |-> q, count |-> b] /\ Lists(q, t, n, Passed(t, n, n), m, f)
  BY <1>6 DEF Counting
<1>8. Counted(t) = q
  BY <1>1, <1>7 DEF Counted, after
<1> QED BY <1>7, <1>8

Lesser(few, l) == {x \in few : x < l}

(* A list in order has its letter k in k-th place among those it has.      *)
LEMMA LetterRanks ==
  ASSUME NEW few, NEW m \in Nat, NEW f \in Between(few, m), few \subseteq Nat,
         \A k, l \in 1..m : k < l => f[k] < f[l], \A x \in few : \E k \in 1..m : f[k] = x
  PROVE  /\ IsFiniteSet(few) /\ Cardinality(few) = m
         /\ \A k \in 1..m : Cardinality(Lesser(few, f[k])) = k - 1
<1>1. \A k \in 1..m : f[k] \in few /\ f[k] \in Nat
  BY DEF Between
<1>2. \A k, l \in 1..m : f[k] = f[l] => k = l
  <2> SUFFICES ASSUME NEW k \in 1..m, NEW l \in 1..m, f[k] = f[l], k # l PROVE FALSE
    OBVIOUS
  <2>1. k < l \/ l < k
    OBVIOUS
  <2> QED BY <1>1, <2>1
<1>3. ASSUME NEW k \in 0..m, NEW S, S = {f[j] : j \in 1..k}
      PROVE  IsFiniteSet(S) /\ Cardinality(S) = k
  <2> DEFINE g == [j \in 1..k |-> f[j]]
  <2>1. \A j \in 1..k : j \in 1..m
    OBVIOUS
  <2>2. g \in [1..k -> S] /\ \A j \in 1..k : g[j] = f[j]
    BY <1>3
  <2>3. \A j, l \in 1..k : g[j] = g[l] => j = l
    BY <1>2, <2>1, <2>2
  <2>4. \A x \in S : \E j \in 1..k : g[j] = x
    BY <1>3, <2>2
  <2> HIDE DEF g
  <2>5. g \in Bijection(1..k, S)
    BY <2>2, <2>3, <2>4 DEF Bijection, Injection, Surjection, IsInjective
  <2>6. IsFiniteSet(1..k) /\ Cardinality(1..k) = k
    BY FS_Interval
  <2> QED BY <2>5, <2>6, FS_Bijection DEF ExistsBijection
<1>4. few = {f[j] : j \in 1..m}
  BY <1>1
<1>5. IsFiniteSet(few) /\ Cardinality(few) = m
  BY <1>3, <1>4
<1>6. ASSUME NEW k \in 1..m PROVE Cardinality(Lesser(few, f[k])) = k - 1
  <2>1. ASSUME NEW j \in 1..m PROVE f[j] < f[k] <=> j \in 1..k - 1
    <3>1. j < k \/ j = k \/ k < j
      OBVIOUS
    <3> QED BY <1>1, <3>1
  <2>2. Lesser(few, f[k]) = {f[j] : j \in 1..k - 1}
    <3>1. \A j \in 1..k - 1 : j \in 1..m
      OBVIOUS
    <3> QED BY <1>1, <1>4, <2>1, <3>1 DEF Lesser
  <2>3. k - 1 \in 0..m
    OBVIOUS
  <2> QED BY <1>3, <2>2, <2>3
<1> QED BY <1>5, <1>6

(* For every text: what child 1 builds is the right report.                *)
LEMMA BuiltIsRight ==
  ASSUME NEW s \in Texts, NEW q, q = Counted(SortedText(s))
  PROVE  q = RightReport(s) /\ \E m \in Nat : q = [k \in 1..m |-> q[k]]
<1>1. PICK n \in TextLengths : s \in [1..n -> {Space} \cup Capitals \cup SmallLetters]
  BY DEF Texts
<1>2. n \in Nat /\ s \in Between(Nat, n) /\ Len(s) = n /\ DOMAIN s = 1..n
  <2>1. n \in Nat
    BY PthreadAssumption
  <2>2. {Space} \cup Capitals \cup SmallLetters \subseteq Nat
    BY AlphabetAssumption DEF Space
  <2>3. s \in [1..n -> Nat]
    BY <1>1, <2>2
  <2> QED BY <2>1, <2>3 DEF Between
<1> DEFINE lower == IF Len(s) > 1 THEN Lowered(s) ELSE s
           t == SortedText(s)
           few == Passed(t, n, n)
<1>3. /\ t \in Between(Nat, n) /\ \A k, m \in 1..n : k < m => t[k] <= t[m]
      /\ Rearranged(t, lower, n, 1..n)
  <2>1. lower = IF n > 1 THEN Lowered(s) ELSE s
    BY <1>2
  <2> HIDE DEF lower
  <2> QED BY <1>2, <2>1, SortedIs
<1>4. PICK f : \E m \in Nat : Lists(Counted(t), t, n, few, m, f)
  <2> HIDE DEF t
  <2> QED BY <1>2, <1>3, CountedIs
<1>5. PICK m \in Nat : Lists(Counted(t), t, n, few, m, f)
  BY <1>4
<1>6. \A l : Times(t, n, l) = Times(lower, n, l)
  <2> HIDE DEF t, lower
  <2> SUFFICES ASSUME NEW l PROVE Cardinality(Places(t, n, l)) = Cardinality(Places(lower, n, l))
    BY DEF Times
  <2> QED BY <1>2, <1>3, RearrangedCounts
<1> DEFINE Often(l) == Cardinality({i \in DOMAIN s : lower[i] = l})
           some == {l \in SmallLetters : Often(l) \in 1..CountLimit - 1}
           Nth(k) == CHOOSE l \in some : Cardinality({x \in some : x < l}) = k - 1
<1>7. RightReport(s) = [k \in 1..Cardinality(some) |-> [alphabet |-> Nth(k), count |-> Often(Nth(k))]]
  BY Zenon DEF RightReport, Lowered
<1>8. \A l : Often(l) = Times(t, n, l)
  <2>1. \A l : Often(l) = Times(lower, n, l)
    BY <1>2 DEF Times, Places
  <2> HIDE DEF t, lower, Often
  <2> QED BY <1>6, <2>1
<1> HIDE DEF t, lower, Often
<1>9. some = few
  <2>1. ASSUME NEW l \in SmallLetters PROVE Often(l) \in 1..CountLimit - 1 <=> l \in Passed(t, n, n)
    <3>1. Places(t, n, l) \subseteq 1..n
      BY DEF Places
    <3>2. /\ Times(t, n, l) \in Nat
          /\ Times(t, n, l) = 0 <=> Places(t, n, l) = {}
      BY <1>2, PlacesFinite
    <3>3. CountLimit \in Nat
      BY PthreadAssumption
    <3>4. l \in Passed(t, n, n) <=> Times(t, n, l) # 0 /\ Times(t, n, l) < CountLimit
      BY <3>1, <3>2 DEF Passed
    <3> QED BY <1>8, <3>2, <3>3, <3>4
  <2> QED BY <2>1 DEF Passed
<1> HIDE DEF some, few
<1>10. /\ f \in Between(few, m) /\ Counted(t) = [k \in 1..m |-> Entry(t, n, f[k])]
       /\ \A k, l \in 1..m : k < l => f[k] < f[l]
       /\ \A x \in few : \E k \in 1..m : f[k] = x
  BY <1>5 DEF Lists
<1>11. few \subseteq Nat
  BY AlphabetAssumption DEF few, Passed
<1>12. Cardinality(few) = m /\ \A k \in 1..m : Cardinality(Lesser(few, f[k])) = k - 1
  BY <1>10, <1>11, LetterRanks
<1>13. ASSUME NEW k \in 1..m PROVE Nth(k) = f[k]
  <2>1. f[k] \in some /\ Cardinality({x \in some : x < f[k]}) = k - 1
    BY <1>9, <1>10, <1>12 DEF Between, Lesser
  <2>2. ASSUME NEW l \in some, Cardinality({x \in some : x < l}) = k - 1 PROVE l = f[k]
    <3>1. PICK j \in 1..m : f[j] = l
      BY <1>9, <1>10, <2>2
    <3>2. j - 1 = k - 1
      BY <1>9, <1>12, <2>2, <3>1 DEF Lesser
    <3> QED BY <3>1, <3>2
  <2> QED BY <2>1, <2>2
<1>14. \A k \in 1..m : [alphabet |-> Nth(k), count |-> Often(Nth(k))] = Entry(t, n, f[k])
  <2> HIDE DEF Nth
  <2> QED BY <1>8, <1>13 DEF Entry
<1>15. RightReport(s) = [k \in 1..m |-> Entry(t, n, f[k])]
  <2> HIDE DEF Nth
  <2> QED BY <1>7, <1>9, <1>12, <1>14
<1>16. Counted(t) = RightReport(s)
  BY <1>10, <1>15
<1>17. q = Counted(t)
  BY DEF t
<1>18. q = [k \in 1..m |-> q[k]]
  BY <1>10, <1>17
<1> QED BY <1>16, <1>17, <1>18

(* p is a beginning of the sequence l.                                     *)
Beginning(p, l) ==
  /\ Len(l) \in Nat /\ l = [k \in 1..Len(l) |-> l[k]]
  /\ Len(p) \in 0..Len(l) /\ p = [k \in 1..Len(p) |-> l[k]]

LEMMA BeginningIs ==
  ASSUME NEW p, NEW l, Beginning(p, l)
  PROVE  /\ IsPrefix(p, l) /\ (Len(p) = Len(l) => p = l)
         /\ Len(p) < Len(l) => Beginning(Append(p, l[Len(p) + 1]), l)
<1> DEFINE S == {l[k] : k \in 1..Len(l)}
<1>1. l \in Seq(S) /\ p \in Seq(S) /\ Len(p) \in Nat /\ Len(p) <= Len(l)
  <2>1. Len(l) \in Nat /\ Len(p) \in 0..Len(l)
    BY DEF Beginning
  <2>2. l \in [1..Len(l) -> S]
    BY DEF Beginning
  <2>3. p \in [1..Len(p) -> S]
    <3>1. \A k \in 1..Len(p) : k \in 1..Len(l)
      BY <2>1
    <3> QED BY <3>1 DEF Beginning
  <2> HIDE DEF S
  <2> QED BY <2>1, <2>2, <2>3
<1>2. \A k \in 1..Len(p) : p[k] = l[k]
  BY DEF Beginning
<1> HIDE DEF S
<1>3. IsPrefix(p, l)
  <2>1. SubSeq(p, 1, Len(p)) = [k \in 1..Len(p) |-> p[k]]
    BY <1>1
  <2>2. SubSeq(l, 1, Len(p)) = [k \in 1..Len(p) |-> l[k]]
    BY <1>1
  <2> QED BY <1>1, <1>2, <2>1, <2>2 DEF IsPrefix
<1>4. Len(p) = Len(l) => p = l
  BY DEF Beginning
<1>5. ASSUME Len(p) < Len(l) PROVE Beginning(Append(p, l[Len(p) + 1]), l)
  <2>1. PICK e : e = l[Len(p) + 1]
    OBVIOUS
  <2>2. e \in S
    BY <1>1, <1>5, <2>1 DEF S
  <2>3. PICK r : r = Append(p, e)
    OBVIOUS
  <2>4. /\ r \in Seq(S) /\ Len(r) = Len(p) + 1
        /\ \A k \in 1..Len(p) : r[k] = p[k]
        /\ r[Len(p) + 1] = e
    BY <1>1, <2>2, <2>3, AppendProperties
  <2>5. r = [k \in 1..Len(r) |-> r[k]]
    BY <2>4
  <2>6. \A k \in 1..Len(r) : r[k] = l[k]
    BY <1>1, <1>2, <2>1, <2>4
  <2>7. r = [k \in 1..Len(r) |-> l[k]]
    BY <2>5, <2>6
  <2>8. Len(r) \in 0..Len(l)
    BY <1>1, <1>5, <2>4
  <2>9. Beginning(r, l)
    BY <2>7, <2>8 DEF Beginning
  <2> QED BY <2>1, <2>3, <2>9
<1> QED BY <1>3, <1>4, <1>5

(* The report child 1 has built of gdb.txt is the right one; what it has   *)
(* printed is a beginning of what it built, nothing before it has built    *)
(* that, and all of it when it is done.                                    *)
ReportInv ==
  /\ (unread \/ list = wanted) /\ Beginning(printed, list)
  /\ pc["child1"] \in {"none", "open", "greet", "greeted"} => list = <<>> /\ printed = <<>>
  /\ pc["child1"] = "close" \/ closed1 => printed = list

LEMMA InitReport == PthreadInit => ReportInv
<1>1. Beginning(<<>>, <<>>)
  BY DEF Beginning
<1> QED BY <1>1 DEF PthreadInit, ReportInv, Thread

(* A step that neither reads the text nor prints.                          *)
LEMMA ReportKept ==
  ASSUME ReportInv, UNCHANGED <<list, wanted, unread, printed>>,
         pc'["child1"] \in {"none", "open", "greet", "greeted"}
           => pc["child1"] \in {"none", "open", "greet", "greeted"},
         pc'["child1"] = "close" \/ closed1' => pc["child1"] = "close" \/ closed1 \/ printed = list
  PROVE  ReportInv'
BY DEF ReportInv

LEMMA MainReport == ASSUME OrderInv, ReportInv, Main PROVE ReportInv'
<1>1. DOMAIN pc = Thread /\ {"main", "child1", "child2"} = Thread
  BY DEF OrderInv, Thread
<1>2. UNCHANGED <<list, wanted, unread, printed, closed1>>
  BY DEF Main, main
<1>3. \/ pc'["child1"] = pc["child1"]
      \/ pc["child1"] = "none" /\ pc'["child1"] \in {"open", "gone"}
  <2>1. CASE pc["main"] = "create1"
    <3>1. pc["child1"] = "none" /\ pc' \in {[pc EXCEPT !["main"] = "create2", !["child1"] = "open"],
                                             [pc EXCEPT !["main"] = "create2", !["child1"] = "gone"]}
      BY <2>1 DEF Main, main, Goes, FprintfLog, OrderInv
    <3> QED BY <1>1, <3>1
  <2>2. CASE pc["main"] # "create1"
    <3>1. \E to : pc' = [pc EXCEPT !["main"] = to] \/ pc' = [pc EXCEPT !["main"] = "join1", !["child2"] = to]
      BY <2>2 DEF Main, main, Goes, FprintfLog, Crash
    <3> QED BY <1>1, <3>1
  <2> QED BY <2>1, <2>2
<1> QED BY <1>2, <1>3, ReportKept

LEMMA Child1Report == ASSUME OrderInv, ReportInv, Child1 PROVE ReportInv'
<1> DEFINE Early == {"none", "open", "greet", "greeted"}
<1>1. DOMAIN pc = Thread /\ {"main", "child1", "child2"} = Thread /\ (closed1 => pc["child1"] = "gone")
  BY DEF OrderInv, Thread
<1>2. (unread \/ list = wanted) /\ Beginning(printed, list)
  BY DEF ReportInv
<1>3. child1_funct
  BY DEF Child1
<1>4. CASE /\ Goes("child1", "open", "greet") \/ Greet("child1")
           /\ UNCHANGED <<list, wanted, unread, printed, closed1>>
  <2>1. pc["child1"] \in Early /\ pc'["child1"] \in Early
    BY <1>1, <1>4 DEF Goes, Greet, FprintfLog, Crash
  <2> QED BY <1>4, <2>1, ReportKept
<1>5. CASE /\ Goes("child1", "greeted", "print") /\ UNCHANGED <<printed, closed1>>
           /\ \E r \in BuiltReports : list' = r.list /\ (wanted' = r.wanted \/ unread')
  <2>1. PICK s \in Texts : list' = Counted(SortedText(s)) /\ (wanted' = RightReport(s) \/ unread')
    BY <1>5 DEF BuiltReports
  <2>2. (unread' \/ list' = wanted') /\ \E m \in Nat : list' = [k \in 1..m |-> list'[k]]
    BY <2>1, BuiltIsRight
  <2>3. printed' = <<>> /\ pc["child1"] = "greeted" /\ pc'["child1"] = "print" /\ closed1' = closed1
    BY <1>1, <1>5 DEF ReportInv, Goes
  <2>4. Beginning(printed', list')
    <3>1. PICK l : l = list'
      OBVIOUS
    <3>2. PICK m \in Nat : l = [k \in 1..m |-> l[k]]
      BY <2>2, <3>1
    <3>3. Len(l) = m
      BY <3>2
    <3>4. Beginning(<<>>, l)
      BY <3>2, <3>3 DEF Beginning
    <3> QED BY <2>3, <3>1, <3>4
  <2> QED BY <1>1, <2>2, <2>3, <2>4 DEF ReportInv
<1>6. CASE Crash /\ UNCHANGED <<list, wanted, unread, printed, closed1>>
  <2>1. pc'["child1"] = pc["child1"]
    BY <1>1, <1>6 DEF Crash
  <2> QED BY <1>6, <2>1, ReportKept
<1>7. CASE /\ Len(printed) < Len(list) /\ FprintfLog("child1", "print", "print")
           /\ printed' = Append(printed, list[Len(printed) + 1])
           /\ UNCHANGED <<list, wanted, unread, closed1>>
  <2>1. pc["child1"] = "print" /\ pc'["child1"] = "print"
    BY <1>1, <1>7 DEF FprintfLog, Crash
  <2>2. Beginning(printed', list')
    BY <1>2, <1>7, BeginningIs
  <2> QED BY <1>1, <1>2, <1>7, <2>1, <2>2 DEF ReportInv
<1>8. CASE /\ printed = list /\ FprintfLog("child1", "print", "close")
           /\ UNCHANGED <<list, wanted, unread, printed, closed1>>
  <2>1. pc["child1"] = "print" /\ pc'["child1"] \in {"print", "close"}
    BY <1>1, <1>8 DEF FprintfLog, Crash
  <2> QED BY <1>8, <2>1, ReportKept
<1>9. CASE /\ pc["child1"] = "close"
           /\ IF logging = NULL THEN Crash ELSE Goes("child1", "close", "gone")
           /\ UNCHANGED <<list, wanted, unread, printed>>
  <2>1. pc'["child1"] \in {"close", "gone"}
    BY <1>1, <1>9 DEF Goes, Crash
  <2> QED BY <1>9, <2>1, ReportKept
<1> QED BY <1>3, <1>4, <1>5, <1>6, <1>7, <1>8, <1>9 DEF child1_funct

LEMMA OthersReport == ASSUME OrderInv, ReportInv, Child2 \/ Signals PROVE ReportInv'
<1>1. DOMAIN pc = Thread /\ {"main", "child1", "child2"} = Thread
  BY DEF OrderInv, Thread
<1>2. CASE Child2
  <2>1. UNCHANGED <<list, wanted, unread, printed, closed1>>
    BY <1>2 DEF Child2, child2_funct
  <2>2. \E to : pc' = [pc EXCEPT !["child2"] = to] \/ pc' = [pc EXCEPT !["main"] = to]
    BY <1>2 DEF Child2, child2_funct, Goes, Greet, FprintfLog, Crash
  <2>3. pc'["child1"] = pc["child1"]
    BY <1>1, <2>2
  <2> QED BY <2>1, <2>3, ReportKept
<1>3. CASE TimerSignal
  <2>1. UNCHANGED <<list, wanted, unread, printed, closed1, pc>>
    BY <1>3 DEF TimerSignal, threadVars
  <2> QED BY <2>1, ReportKept
<1>4. CASE KillSignal
  <2>1. UNCHANGED <<list, wanted, unread, printed, closed1>>
    BY <1>4 DEF KillSignal
  <2>2. PICK t \in Living : pc' = [pc EXCEPT ![t] = "gone"]
    BY <1>4 DEF KillSignal, handler
  <2>3. pc'["child1"] \in {pc["child1"], "gone"}
    BY <1>1, <2>2 DEF Living
  <2> QED BY <2>1, <2>3, ReportKept
<1> QED BY <1>2, <1>3, <1>4 DEF Signals

(* For every text, alphabet and limit, and however many timer and kill     *)
(* signals end whichever threads: when gdb.txt could be opened, what child *)
(* 1 has printed is a beginning of the right report, and all of it when it *)
(* has closed the log.                                                     *)
THEOREM ReportsCountRight == PthreadSpec => []ReportCounts
<1>1. ReportInv => ReportCounts
  <2>1. ReportInv => unread \/ (Beginning(printed, wanted) /\ (closed1 => printed = wanted))
    BY DEF ReportInv
  <2> QED BY <2>1, BeginningIs DEF ReportCounts
<1>2. PthreadInv /\ ReportInv /\ [PthreadNext]_pthreadVars => ReportInv'
  <2> SUFFICES ASSUME PthreadInv, ReportInv, [PthreadNext]_pthreadVars PROVE ReportInv'
    OBVIOUS
  <2>1. OrderInv
    BY DEF PthreadInv
  <2>2. CASE UNCHANGED pthreadVars
    BY <2>2, ReportKept DEF pthreadVars, threadVars
  <2> QED BY <2>1, <2>2, MainReport, Child1Report, OthersReport DEF PthreadNext
<1>3. PthreadSpec => PthreadInit /\ [][PthreadNext]_pthreadVars
  BY DEF PthreadSpec
<1> QED BY <1>1, <1>2, <1>3, PthreadAlways, InitReport, PTL
================================================================================
