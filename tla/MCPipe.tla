------------------------------- MODULE MCPipe -------------------------------
(***************************************************************************)
(* A pipe byte by byte, the shell whose processes use pipes, and a network *)
(* card, side by side: a behaviour is of one of them.  The last two share  *)
(* the variables v1..v16; one of the card ends where its interrupt has     *)
(* overtaken a process, of which nothing more is claimed.                  *)
(***************************************************************************)
EXTENDS Pipe

CONSTANTS reader, writer, both, Jobs, Text, PIPE_CAPACITY, MaxFds, MaxProcs, Faults,
  IDX, RING, LOOPS, MAX_Q, Machines, PCI_MAX_DEVICES, Frames, Runts

VARIABLES which, v1, v2, v3, v4, v5, v6, v7, v8, v9, v10, v11, v12, v13, v14, v15, v16

S == INSTANCE Shell WITH
       job <- v1, ln <- v2, pc <- v3, k <- v4, pids <- v5, redir <- v6, pipefds <- v7, closing <-
       v8, tbl <- v9, child <- v10, data <- v11, npipes <- v12, file <- v13, shown <- v14, hit <- v15
N == INSTANCE Nic WITH Loads <- Frames,
       g_pci_devices <- v1, up <- v2, g_active <- v3, irqs <- v4, netif <- v5, tx <- v6, rx <- v7,
       accepted <- v8, wire <- v9, arrived <- v10, poll <- v11, stack <- v12, dropped <- v13, load
       <- v14, crowded <- v15, overtaken <- v16

shared == <<v1, v2, v3, v4, v5, v6, v7, v8, v9, v10, v11, v12, v13, v14, v15, v16>>
Unused ==
  /\ v1 = "" /\ v2 = "" /\ v3 = "" /\ v4 = "" /\ v5 = "" /\ v6 = "" /\ v7 = "" /\ v8 = ""
  /\ v9 = "" /\ v10 = "" /\ v11 = "" /\ v12 = "" /\ v13 = "" /\ v14 = "" /\ v15 = ""
  /\ v16 = ""

StreamsInit ==
  /\ Init
  /\ \/ which = "pipe" /\ Unused
     \/ which = "shell" /\ S!Init /\ v16 = ""
     \/ which = "nic" /\ N!Init
InShell(A) == which = "shell" /\ A /\ UNCHANGED <<which, vars, v16>>
StreamsNext ==
  \/ which = "pipe" /\ Next /\ UNCHANGED <<which, shared>>
  \/ InShell(S!Next)
  \/ which = "nic" /\ ~v16 /\ N!Next /\ UNCHANGED <<which, vars>>
allvars == <<which, vars, shared>>
\* The scheduler runs every ready process again and again.
StreamsSpec ==
  /\ StreamsInit /\ [][StreamsNext]_allvars
  /\ WF_allvars(InShell(S!Caller)) /\ \A p \in 1..MaxProcs : WF_allvars(InShell(S!Program(p)))

-----------------------------------------------------------------------------
(* The properties of Shell and Nic, where they are explained.              *)

\* Every pipe of a command line is given back when the line is over: Shell!PipesReleased.
PipesReleased == which = "shell" => S!PipesReleased
\* Every job of the shell comes to its end: Shell!JobsEnd.
JobsEnd ==
  <>(which = "shell" => S!Finished) \/ \E p \in 1..MaxProcs : <>[](which = "shell" /\ S!FedItself(p))
\* Every frame that was accepted leaves the card unharmed and in order: Nic!SendsIntact.
SendsIntact == which = "nic" => N!SendsIntact
\* Every frame the card received reaches the stack once, or is dropped: Nic!ReceiveExact.
ReceiveExact == which = "nic" => N!ReceiveExact

-----------------------------------------------------------------------------
(* Shell. *)
L(cmds, r) == [cmds |-> cmds, redir |-> r]
J(caller, lines) == [caller |-> caller, lines |-> lines]
ShellText == <<"x", "y">>
ShellJobs == {
  J("terminal", <<L(<<"echo", "grep">>, FALSE)>>),
  J("terminal", <<L(<<"echo", "cat", "grep">>, FALSE)>>),
  J("terminal", <<L(<<"echo", "bad">>, FALSE), L(<<"cat">>, FALSE)>>),
  J("terminal", <<L(<<"echo">>, TRUE), L(<<"cd">>, FALSE)>>),
  J("script", <<L(<<"echo", "grep">>, TRUE), L(<<"echo">>, FALSE)>>),
  J("script", <<L(<<"echo", "cat">>, FALSE)>>)}

-----------------------------------------------------------------------------
(* Nic: five machines: none; a virtio card behind another function, with  *)
(* a receive queue longer than there are buffers; an e1000 between two     *)
(* virtio functions of which one is out of reach; a dead e1000 and a       *)
(* virtio function without a transmit queue beside a working virtio card,  *)
(* which fill the table; and an e1000 without an interrupt.                *)

Fn(kind, b, ok, rxq, txq, line) ==
  [kind |-> kind, bar |-> b, works |-> ok, rxq |-> rxq, txq |-> txq, irq |-> line, bound |-> ""]
Absent == Fn("absent", "none", FALSE, 0, 0, 0)
Virtio(rxq, txq) == Fn("virtio", "io", TRUE, rxq, txq, 11)
E1000(ok, line) == Fn("e1000", "mmio", ok, 0, 0, line)
One(fn) == [multi |-> FALSE, fns |-> <<fn>>]
Many(fns) == [multi |-> TRUE, fns |-> fns]

NicMachines ==
  {<<>>,
   <<Many(<<Fn("other", "io", TRUE, 0, 0, 9), Absent, Virtio(8, 8)>>)>>,
   <<One(Fn("virtio", "mmio", TRUE, 8, 8, 11)), One(E1000(TRUE, 11)), One(Virtio(4, 4))>>,
   <<Many(<<Absent, E1000(TRUE, 11)>>), One(E1000(FALSE, 11)), One(Virtio(2, 0)),
     One(Virtio(2, 4)), One(E1000(TRUE, 11))>>,
   <<One(E1000(TRUE, 255))>>}

\* Enough frames for the sixteen-bit indices, here three bits, to wrap.
NicFrames == {[send |-> 10, arrive |-> 0, drop |-> 0], [send |-> 0, arrive |-> 10, drop |-> 0],
              [send |-> 2, arrive |-> 3, drop |-> 2]}
=============================================================================
