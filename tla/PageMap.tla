------------------------------ MODULE PageMap ------------------------------
(***************************************************************************)
(* What mm/vm_space.c and mm/vmm_x64.c promise the processes: each has the *)
(* user pages it has mapped, all of them see the same kernel pages, a      *)
(* range is mapped or unmapped as a whole or not at all, and no call       *)
(* touches a page that is not in the range it names - whether or not the   *)
(* processes share their tables.                                           *)
(***************************************************************************)
EXTENDS Integers

CONSTANTS Spaces, PhysPages, UserPages, KernelPages, KernelAt(_)
VARIABLES
  alive,    \* the processes there are
  user,     \* process -> page -> what it finds there, of the pages it has mapped
  kernel    \* page -> what all find there

Absent == [phys |-> -1, wr |-> FALSE]
Present(at, vas) == \A va \in vas : at[va] # Absent
Unmapped == [va \in UserPages |-> Absent]

\* Some pages of a process change, all of them among vas.
ChangeIn(s, vas, new(_)) ==
  user' = [user EXCEPT ![s] = [va \in UserPages |-> IF va \in vas THEN new(va) ELSE @[va]]]

Join(s) == s \notin alive /\ alive' = alive \cup {s} /\ UNCHANGED <<user, kernel>>
\* A process that goes leaves its pages, and nothing else takes them from it.
Leave(s) ==
  /\ s \in alive /\ alive' = alive \ {s}
  /\ user' = [user EXCEPT ![s] = Unmapped] /\ UNCHANGED kernel

Map(s, from, n, phys, wr) ==
  LET vas == from..(from + n - 1)
  IN  /\ vas \subseteq UserPages /\ \A va \in vas : user[s][va] = Absent
      /\ ChangeIn(s, vas, LAMBDA va : [phys |-> phys + va - from, wr |-> wr])
      /\ UNCHANGED <<alive, kernel>>

Unmap(s, from, n) ==
  LET vas == from..(from + n - 1)
  IN  /\ vas \subseteq UserPages /\ Present(user[s], vas)
      /\ ChangeIn(s, vas, LAMBDA va : Absent)
      /\ UNCHANGED <<alive, kernel>>

Protect(s, from, n, wr) ==
  LET vas == from..(from + n - 1)
  IN  /\ vas \subseteq UserPages /\ Present(user[s], vas)
      /\ ChangeIn(s, vas, LAMBDA va : [user[s][va] EXCEPT !.wr = wr])
      /\ UNCHANGED <<alive, kernel>>

\* Device memory appears where all memory does; it never moves or goes away.
Reveal(vas) ==
  /\ kernel' = [va \in KernelPages |-> IF va \in vas THEN [phys |-> KernelAt(va), wr |-> TRUE] ELSE kernel[va]]
  /\ \A va \in vas : kernel[va] = Absent
  /\ UNCHANGED <<alive, user>>

PageNext ==
  \/ \E s \in Spaces : Join(s) \/ Leave(s)
  \/ \E s \in alive, from \in UserPages, n \in 1..2, wr \in BOOLEAN :
       (\E phys \in PhysPages : Map(s, from, n, phys, wr)) \/ Unmap(s, from, n) \/ Protect(s, from, n, wr)
  \/ \E vas \in SUBSET KernelPages : Reveal(vas)

PageInit ==
  /\ alive \subseteq Spaces
  /\ user = [s \in Spaces |-> Unmapped]
  /\ \A va \in KernelPages : kernel[va] \in {Absent, [phys |-> KernelAt(va), wr |-> TRUE]}

PageSpec == PageInit /\ [][PageNext]_<<alive, user, kernel>>
============================================================================
