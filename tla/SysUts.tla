------------------------------- MODULE SysUts -------------------------------
(***************************************************************************)
(* The system's names: sethostname, setdomainname and the calls that read  *)
(* them, in HW2's sys.c.  A name is kept in a buffer of fixed size; each   *)
(* call copies a part of it under uts_sem.                                 *)
(***************************************************************************)
EXTENDS Integers, SequencesExt, FiniteSetsExt

CONSTANTS NEW_UTS_LEN,   \* 64: the buffer has one more byte
          OLD_UTS_LEN,   \* 8
          Letters        \* characters of a name, as numbers

ASSUME UtsAssumption ==
  NEW_UTS_LEN \in Nat /\ OLD_UTS_LEN \in 0..NEW_UTS_LEN /\ Letters \subseteq Nat

NUL == 0
Buffer == 1..NEW_UTS_LEN + 1
DOT == -1
DASH == -2
UTS_RELEASE == <<4, DOT, 4, DOT, 9, DASH, 7>>     \* 4.4.9-7
VERSION_MINOR == 4

VARIABLES uts,    \* nodename and domainname
          given   \* history: the name each was last set to

utsVars == <<uts, given>>

UtsInit ==
  /\ uts = [nodename |-> [i \in Buffer |-> NUL], domainname |-> [i \in Buffer |-> NUL]]
  /\ given = [nodename |-> <<>>, domainname |-> <<>>]

(* A C string at the start of a buffer.                                    *)
StringIn(b) == LET end == Min({i \in DOMAIN b : b[i] = NUL} \cup {Len(b) + 1}) IN SubSeq(b, 1, end - 1)

StoreName(old, name) == [i \in Buffer |-> IF i <= Len(name) THEN name[i] ELSE NUL]

(* sethostname and setdomainname, past the capability check.  The caller's *)
(* memory may turn out not to be readable.                                 *)
SetName(which, name) ==
  /\ Len(name) <= NEW_UTS_LEN
  /\ uts' = [uts EXCEPT ![which] = StoreName(@, name)]
  /\ given' = [given EXCEPT ![which] = name]

sethostname(name) == SetName("nodename", name)
setdomainname(name) == SetName("domainname", name)

(* What gethostname copies to a buffer of len bytes: the terminator only   *)
(* when there is room for it.                                              *)
gethostname(len) == SubSeq(uts.nodename, 1, Min({1 + Len(StringIn(uts.nodename)), len}))

(* The release shown to a process with UNAME26: 2.6.(60 + minor) and what  *)
(* follows the third dot or the first other character of the real one,     *)
(* cut to the len bytes of the caller's field.                             *)
override_release(len) ==
  LET dots(i) == Cardinality({j \in 1..i : UTS_RELEASE[j] = DOT})
      stops == {i \in DOMAIN UTS_RELEASE : \/ UTS_RELEASE[i] = DASH
                                           \/ UTS_RELEASE[i] = DOT /\ dots(i) = 3}
      rest == SubSeq(UTS_RELEASE, Min(stops \cup {Len(UTS_RELEASE) + 1}), Len(UTS_RELEASE))
      text == <<2, DOT, 6, DOT, VERSION_MINOR + 60>> \o rest
  IN SubSeq(text, 1, Min({Len(text), len - 1})) \o <<NUL>>

(* newuname copies the whole buffer; the old layout has room for the first *)
(* bytes and always gets a terminator.                                     *)
newuname(which) == uts[which]
olduname(which) == SubSeq(uts[which], 1, OLD_UTS_LEN) \o <<NUL>>

UtsNext ==
  \E name \in BoundedSeq(Letters \cup {NUL}, NEW_UTS_LEN + 1) : sethostname(name) \/ setdomainname(name)

UtsSpec == UtsInit /\ [][UtsNext]_utsVars

-----------------------------------------------------------------------------
(* Every reader sees exactly the name that was last set, up to its first   *)
(* NUL, or as much of it as fits: nothing of a longer earlier name shows   *)
(* through, every copy with room for it is terminated, and the two names   *)
(* do not touch each other.                                                *)
NamesReadBack ==
  LET Shown(which) == StringIn(Append(given[which], NUL))
  IN /\ \A which \in DOMAIN uts : /\ StringIn(newuname(which)) = Shown(which)
                                  /\ NUL \in Range(newuname(which))
                                  /\ IsPrefix(StringIn(olduname(which)), Shown(which))
                                  /\ \A i \in Len(given[which]) + 1..NEW_UTS_LEN + 1 : newuname(which)[i] = NUL
     /\ \A len \in 0..NEW_UTS_LEN + 2 :
          IF len > Len(Shown("nodename")) THEN gethostname(len) = Append(Shown("nodename"), NUL)
          ELSE gethostname(len) = SubSeq(Shown("nodename"), 1, len)
     /\ \A len \in 1..10 : Len(override_release(len)) <= len
=============================================================================
