------------------------------- MODULE SysCred -------------------------------
(***************************************************************************)
(* The user and group ids of a process, and the system calls of HW2's      *)
(* sys.c that change them.  A call works on a copy of the credentials      *)
(* (prepare_creds) that is committed at the end or thrown away, so each    *)
(* call is one step, and a refused call changes no id.                     *)
(***************************************************************************)
EXTENDS Integers

CONSTANTS Uids, Gids   \* valid ids, 0 among the Uids: root

ASSUME CredAssumption == 0 \in Uids /\ Uids \subseteq Nat /\ Gids \subseteq Nat

NoId == -1         \* (uid_t) -1: leave this id alone
Unmapped == -2     \* an id that make_kuid or make_kgid cannot map
Caps == {"CAP_SETUID", "CAP_SETGID"}

VARIABLES cred,     \* of the current task
          nproc     \* PF_NPROC_EXCEEDED in current->flags

credVars == <<cred, nproc>>

IdSet(i) == {i.r, i.e, i.s}
AllAre(id) == [r |-> id, e |-> id, s |-> id, fs |-> id]

(* A process just after execve: of a user, of root, or running a program   *)
(* whose file is set-user-id or set-group-id.                              *)
CredStarts ==
  {LET caps == IF o = 0 THEN Caps ELSE {}
   IN [uid |-> [AllAre(o) EXCEPT !.r = u], gid |-> [AllAre(h) EXCEPT !.r = g],
       user |-> u, perm |-> IF 0 \in {u, o} THEN Caps ELSE {}, eff |-> caps] :
     u \in Uids, o \in Uids, g \in Gids, h \in Gids}

CredInit == cred \in CredStarts /\ nproc = FALSE

ns_capable(cap) == cap \in cred.eff

(* The call fails: bad argument, no memory, or no permission.              *)
Refused == UNCHANGED credVars

(* security_task_fix_setuid, the part of the capability module: a process  *)
(* that gives up root in all three ids loses its capabilities.             *)
FixSetuid(c, new) ==
  LET drops == 0 \in IdSet(c.uid) /\ 0 \notin IdSet(new)
  IN [c EXCEPT !.uid = new,
               !.perm = IF drops THEN {} ELSE @,
               !.eff  = CASE drops \/ (c.uid.e = 0 /\ new.e # 0) -> {}
                          [] c.uid.e # 0 /\ new.e = 0 -> c.perm
                          [] OTHER -> @]

(* A new set of user ids.  When the real id changes set_user moves the     *)
(* process to the new user's count and notes whether that is above the     *)
(* limit; alloc_uid may fail before, the security module may refuse after. *)
set_user(new) ==
  \/ new.r = cred.uid.r /\ UNCHANGED nproc
  \/ /\ new.r # cred.uid.r
     /\ \E above \in BOOLEAN : nproc' = (above /\ new.r # 0)

CommitUidSameUser(new) ==
  \/ Refused
  \/ set_user(new) /\ cred' = cred
  \/ set_user(new) /\ cred' = FixSetuid(cred, new)

CommitUid(new) ==
  \/ Refused
  \/ set_user(new) /\ cred' = cred
  \/ set_user(new) /\ cred' = [FixSetuid(cred, new) EXCEPT !.user = new.r]

CommitGid(new) == cred' = [cred EXCEPT !.gid = new] /\ UNCHANGED nproc

Given(id, old) == IF id = NoId THEN old ELSE id

(* The rules shared by the user and the group form of a call.  old are the *)
(* four ids before it.                                                     *)
MayRe(old, r, e, cap) ==
  ns_capable(cap) \/ (r \in {NoId, old.r, old.e} /\ e \in {NoId} \cup IdSet(old))

NewRe(old, r, e) ==
  LET ne == Given(e, old.e)
  IN [r |-> Given(r, old.r), e |-> ne, fs |-> ne,
      s |-> IF r # NoId \/ e \notin {NoId, old.r} THEN ne ELSE old.s]

MayRes(old, r, e, s, cap) == ns_capable(cap) \/ {r, e, s} \subseteq {NoId} \cup IdSet(old)

NewRes(old, r, e, s) ==
  [r |-> Given(r, old.r), e |-> Given(e, old.e), s |-> Given(s, old.s), fs |-> Given(e, old.e)]

setregid(rgid, egid) ==
  \/ Refused
  \/ /\ Unmapped \notin {rgid, egid}
     /\ MayRe(cred.gid, rgid, egid, "CAP_SETGID")
     /\ CommitGid(NewRe(cred.gid, rgid, egid))

setgid(gid) ==
  \/ Refused
  \/ /\ gid # Unmapped /\ ns_capable("CAP_SETGID")
     /\ CommitGid(AllAre(gid))
  \/ /\ ~ns_capable("CAP_SETGID") /\ gid \in {cred.gid.r, cred.gid.s}
     /\ CommitGid([cred.gid EXCEPT !.e = gid, !.fs = gid])

setreuid(ruid, euid) ==
  \/ Refused
  \/ /\ Unmapped \notin {ruid, euid}
     /\ MayRe(cred.uid, ruid, euid, "CAP_SETUID")
     /\ CommitUid(NewRe(cred.uid, ruid, euid))

setuid(uid) ==
  \/ Refused
  \/ /\ uid # Unmapped /\ ns_capable("CAP_SETUID")
     /\ CommitUid(AllAre(uid))
  \/ /\ ~ns_capable("CAP_SETUID") /\ uid \in {cred.uid.r, cred.uid.s}
     /\ CommitUid([cred.uid EXCEPT !.e = uid, !.fs = uid])

setresuidUnchecked(ruid, euid, suid) ==
  \/ Refused
  \/ /\ Unmapped \notin {ruid, euid, suid}
     /\ MayRes(cred.uid, ruid, euid, NoId, "CAP_SETUID")
     /\ CommitUid(NewRes(cred.uid, ruid, euid, suid))

setresuid(ruid, euid, suid) ==
  \/ Refused
  \/ /\ Unmapped \notin {ruid, euid, suid}
     /\ MayRes(cred.uid, ruid, euid, suid, "CAP_SETUID")
     /\ CommitUid(NewRes(cred.uid, ruid, euid, suid))

setresgid(rgid, egid, sgid) ==
  \/ Refused
  \/ /\ Unmapped \notin {rgid, egid, sgid}
     /\ MayRes(cred.gid, rgid, egid, sgid, "CAP_SETGID")
     /\ CommitGid(NewRes(cred.gid, rgid, egid, sgid))

(* The security hook may still refuse; it leaves the other ids alone.      *)
setfsuid(uid) ==
  \/ Refused
  \/ /\ uid # Unmapped
     /\ ns_capable("CAP_SETUID") \/ uid \in IdSet(cred.uid)
     /\ cred' = [cred EXCEPT !.uid.fs = uid] /\ UNCHANGED nproc

setfsgid(gid) ==
  \/ Refused
  \/ /\ gid # Unmapped
     /\ ns_capable("CAP_SETGID") \/ gid \in IdSet(cred.gid)
     /\ CommitGid([cred.gid EXCEPT !.fs = gid])

CredNext ==
  \/ \E u \in Uids \cup {Unmapped} : setuid(u) \/ setfsuid(u)
  \/ \E g \in Gids \cup {Unmapped} : setgid(g) \/ setfsgid(g)
  \/ \E r, e \in Uids \cup {NoId, Unmapped} :
       setreuid(r, e) \/ \E s \in Uids \cup {NoId, Unmapped} : setresuid(r, e, s)
  \/ \E r, e \in Gids \cup {NoId, Unmapped} :
       setregid(r, e) \/ \E s \in Gids \cup {NoId, Unmapped} : setresgid(r, e, s)

CredSpec == CredInit /\ [][CredNext]_credVars

-----------------------------------------------------------------------------
(* No sequence of these calls gives a process without the capability an id *)
(* it did not hold as its real, effective or saved id; the ids it can      *)
(* still use only become fewer.                                            *)
IdsNeverGrow ==
  [][ /\ "CAP_SETUID" \notin cred.eff =>
           IdSet(cred'.uid) \subseteq IdSet(cred.uid) /\ cred'.uid.fs \in IdSet(cred.uid) \cup {cred.uid.fs}
      /\ "CAP_SETGID" \notin cred.eff =>
           IdSet(cred'.gid) \subseteq IdSet(cred.gid) /\ cred'.gid.fs \in IdSet(cred.gid) \cup {cred.gid.fs}
    ]_cred

(* "This makes it possible for a setuid program to completely drop its     *)
(* privileges": a process none of whose real, effective and saved ids is   *)
(* root has no capability left, so it cannot get root back; and it is      *)
(* counted for the user whose real id it has.                              *)
DroppedForGood ==
  /\ 0 \notin IdSet(cred.uid) => cred.perm = {} /\ cred.eff = {}
  /\ cred.eff \subseteq cred.perm
  /\ cred.user = cred.uid.r
=============================================================================
