----------------------------- MODULE MadManager -----------------------------
(***************************************************************************)
(* The driver processes (MADs) of a manager and the thread that listens to *)
(* them (src/mad): each is a process with a pipe to it and a pipe from it; *)
(* the listener waits on the descriptors in fds and takes the i-th of them *)
(* for the i-th driver of mads.  A driver that ends is started again.  The *)
(* operating system gives the lowest free descriptors to who opens a pipe. *)
(*                                                                         *)
(* What drivers are sent and answer is up to the manager: requests and     *)
(* answers are bags of Messages, for drivers work on several at a time.    *)
(***************************************************************************)
EXTENDS Integers, Sequences, FiniteSets, SequencesExt

CONSTANTS
  Drivers,
  Messages,
  MaxDeaths,     \* bound: how often drivers end, or stall in a message
  MaxOthers,     \* bound: files the other threads of oned have open
  RestartsFail   \* TRUE: a driver may fail to start again

MadAssumption ==
  /\ IsFiniteSet(Drivers)
  /\ MaxDeaths \in Nat /\ MaxOthers \in Nat
  /\ RestartsFail \in BOOLEAN

ASSUME MadAssumption

VARIABLES
  mads,      \* the drivers of the manager
  fds,       \* the descriptors the listener waits on, after pipe_r
  rd, wr,    \* mad_nebula_pipe and nebula_mad_pipe of each driver
  used,      \* descriptors in use
  others,    \* those the other threads have open
  alive,     \* drivers whose process runs
  requests,  \* what each driver has been sent and works on
  answers,   \* what it has written and the listener has not read
  ready,     \* positions of fds select has found ready
  deaths

madVars == <<mads, fds, rd, wr, used, others, alive, requests, answers, ready, deaths>>

\* Enough for the two pipes of each driver, those of one being started, and others.
Descriptors == 0..(2 * Cardinality(Drivers) + 3 + MaxOthers)

Bags == [Messages -> Nat]
Nothing == [m \in Messages |-> 0]

MadTypeOK ==
  /\ mads \in Seq(Drivers) /\ fds \in Seq(Descriptors)
  /\ {rd, wr} \subseteq [Drivers -> Descriptors]
  /\ others \subseteq used /\ used \subseteq Descriptors
  /\ alive \subseteq Drivers
  /\ {requests, answers} \subseteq [Drivers -> Bags]
  /\ ready \subseteq DOMAIN fds
  /\ deaths \in 0..MaxDeaths

\* The i-th of the descriptors that are free when those of set are in use.
LowestFree(set, i) ==
  CHOOSE d \in Descriptors :
    d \notin set /\ Cardinality({e \in Descriptors \ set : e < d}) = i - 1

\* Mad::start opens two pipes, and closes the ends of the driver: it keeps the
\* write end of the first and the read end of the second.
StartWr(set) == LowestFree(set, 2)
StartRd(set) == LowestFree(set, 3)

\* load_mads has started the drivers one after the other, each with the
\* descriptors the ones before it have left, and the listener has been told.
MadInit ==
  \E ds \in SetToSeqs(Drivers) :
    LET at(d) == CHOOSE i \in DOMAIN ds : ds[i] = d
    IN  /\ mads = ds
        /\ wr = [d \in Drivers |-> 2 * at(d) - 1]
        /\ rd = [d \in Drivers |-> 2 * at(d)]
        /\ fds = [i \in DOMAIN ds |-> rd[ds[i]]]
        /\ used = 1..(2 * Len(ds))
        /\ others = {} /\ alive = Drivers
        /\ requests = [d \in Drivers |-> Nothing] /\ answers = requests
        /\ ready = {} /\ deaths = 0

-----------------------------------------------------------------------------
(* The manager's side                                                      *)

\* MadManager::get finds the driver by its name.
HasMad(d) == \E i \in DOMAIN mads : mads[i] = d

\* Mad::write: SIGPIPE is ignored, what a dead process is sent is lost.
Write(d, m) ==
  requests' = IF d \in alive THEN [requests EXCEPT ![d][m] = @ + 1] ELSE requests

-----------------------------------------------------------------------------
(* The drivers (external), and the other threads of oned                   *)

DriverAnswers(d) ==
  /\ d \in alive
  /\ \E m \in Messages :
       /\ requests[d][m] > 0
       /\ requests' = [requests EXCEPT ![d][m] = @ - 1]
       /\ answers' = [answers EXCEPT ![d][m] = @ + 1]
  /\ UNCHANGED <<mads, fds, rd, wr, used, others, alive, ready, deaths>>

\* What the process was working on is lost, what it has written is not.
DriverDies(d) ==
  /\ d \in alive /\ deaths < MaxDeaths
  /\ deaths' = deaths + 1
  /\ alive' = alive \ {d}
  /\ requests' = [requests EXCEPT ![d] = Nothing]
  /\ UNCHANGED <<mads, fds, rd, wr, used, others, answers, ready>>

\* A client connects, a log is opened, or they are closed.
OthersOpen ==
  /\ Cardinality(others) < MaxOthers
  /\ used' = used \cup {LowestFree(used, 1)}
  /\ others' = others \cup {LowestFree(used, 1)}
  /\ UNCHANGED <<mads, fds, rd, wr, alive, requests, answers, ready, deaths>>

OthersClose ==
  /\ \E d \in others : used' = used \ {d} /\ others' = others \ {d}
  /\ UNCHANGED <<mads, fds, rd, wr, alive, requests, answers, ready, deaths>>

-----------------------------------------------------------------------------
(* The listener                                                            *)

\* There is something to read at descriptor fd: a message, or the end of the
\* file.
Readable(fd) ==
  \E d \in Drivers : HasMad(d) /\ rd[d] = fd /\ (answers[d] # Nothing \/ d \notin alive)

\* The positions that are readable.
ReadyNow == {i \in DOMAIN fds : Readable(fds[i])}

\* select fails, and is called again, while one descriptor is not open.  The
\* files of other threads may be readable or not.
Select ==
  /\ ready = {}
  /\ Range(fds) \subseteq used
  /\ \E foreign \in SUBSET {i \in DOMAIN fds : fds[i] \in others} :
       ready' = ReadyNow \cup foreign
  /\ ready' # {}
  /\ UNCHANGED <<mads, fds, rd, wr, used, others, alive, requests, answers, deaths>>

\* The next position the loop over fds comes to, and the driver it takes.
Position == CHOOSE i \in ready : \A j \in ready : i <= j
Mad == mads[Position]

Listening == ready # {} /\ Position \in DOMAIN mads

\* A whole message can be read: it is for the protocol of the manager.
Receive(m) ==
  /\ Listening /\ answers[Mad][m] > 0
  /\ answers' = [answers EXCEPT ![Mad][m] = @ - 1]
  /\ ready' = ready \ {Position}
  /\ UNCHANGED <<mads, fds, rd, wr, used, others, alive, requests, deaths>>

\* Mutant: the pipes of every driver that has ended are closed at once.
ReloadClosesAll ==
  LET ended == (Drivers \ alive) \cup {Mad}
      rest  == used \ {fd \in used : \E d \in ended : fd \in {rd[d], wr[d]}}
  IN  /\ rd' = [rd EXCEPT ![Mad] = StartRd(rest)]
      /\ wr' = [wr EXCEPT ![Mad] = StartWr(rest)]
      /\ used' = rest \cup {StartRd(rest), StartWr(rest)}
      /\ alive' = alive \cup {Mad}
      /\ UNCHANGED mads

\* The driver is started again.  fds is not filled again.
Reload ==
  LET rest == used \ {rd[Mad], wr[Mad]}
  IN  /\ rd' = [rd EXCEPT ![Mad] = StartRd(rest)]
      /\ wr' = [wr EXCEPT ![Mad] = StartWr(rest)]
      /\ used' = rest \cup {StartRd(rest), StartWr(rest)}
      /\ alive' = alive \cup {Mad}
      /\ UNCHANGED mads

\* It does not answer INIT: it is erased from mads, and not from fds.
ReloadFails ==
  /\ RestartsFail
  /\ used' = used \ {rd[Mad], wr[Mad]}
  /\ mads' = RemoveAt(mads, Position)
  /\ alive' = alive \ {Mad}
  /\ UNCHANGED <<rd, wr>>

\* Nothing can be read for 25 ms, or the file has ended: whatever the process
\* was working on, or had begun to write, is lost.
Recover ==
  /\ Listening
  /\ \/ answers[Mad] = Nothing /\ UNCHANGED deaths
     \/ answers[Mad] # Nothing /\ deaths < MaxDeaths /\ deaths' = deaths + 1
  /\ Reload \/ ReloadFails
  /\ requests' = [requests EXCEPT ![Mad] = Nothing]
  /\ answers' = [answers EXCEPT ![Mad] = Nothing]
  /\ ready' = ready \ {Position}
  /\ UNCHANGED <<fds, others>>

-----------------------------------------------------------------------------
(* Properties                                                              *)

\* fds "contains the file descriptors of the driver pipes (to read Mads
\* responses)" (MadManager.h:144): the listener waits on the pipe of each
\* driver, at its position.
FdsArePipes == fds = [i \in DOMAIN mads |-> rd[mads[i]]]

\* Nothing fills fds again when a driver is started again: it has to be given
\* the descriptor it had, and is as long as no other thread opens a file, even
\* when several drivers are started again one after the other.
RestartKeepsPipes ==
  [][FdsArePipes /\ others = {} /\ mads' = mads => FdsArePipes']_madVars
=============================================================================
