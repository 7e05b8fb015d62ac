------------------------------ MODULE PortChecks ------------------------------
(***************************************************************************)
(* The port checks (agent/main.go, RunPortChecks and main; the port        *)
(* handlers and tables of the backend).  Every minute main starts a round  *)
(* in a goroutine of its own: it asks the backend for the checks of its    *)
(* server, dials them one after the other and posts each result.  Nothing  *)
(* keeps a round from starting while an earlier one is still dialling.     *)
(*                                                                         *)
(* Time passes in units, and not beyond the timeout of an operation that   *)
(* is under way.  What a dial finds, and whether a request succeeds, fails *)
(* or is answered too late, is open.  The work of the five second ticker   *)
(* (Ingest) is one stay of main away from its select.                      *)
(***************************************************************************)
EXTENDS Naturals, FiniteSets, SequencesExt

CONSTANTS MaxChecks,    \* bound on the rows of port_checks of this server
          Period,       \* of the portTicker, 60 s
          GetTimeout,   \* of the http.Client, 10 s
          DialTimeout,  \* of net.DialTimeout, 5 s
          PostTimeout   \* of the http.Client, 10 s

ASSUME PortTimesAssumption ==
  /\ MaxChecks \in Nat
  /\ {Period, GetTimeout, DialTimeout, PostTimeout} \subseteq Nat \ {0}

\* Checks are numbered in the order of their names.
Checks == 1 .. MaxChecks

VARIABLES
  checks,   \* port_checks
  recent,   \* checks with a row in port_results since the ticker last fired
  main,     \* main of the agent: in its "select", "busy" with a case, or "down"
  quit,     \* the channel of signals holds one
  asked,    \* history: a signal has come since the agent was started
  elapsed,  \* time since the portTicker was created or last fired
  due,      \* portTicker.C holds a tick
  rounds,   \* the goroutines of RunPortChecks, oldest first
  held      \* the connections that unread responses keep

tables == <<checks, recent>>
vars == <<tables, main, quit, asked, elapsed, due, rounds, held>>

\* A round is "get"ting the checks, or "dial"ling or "post"ing the first of
\* those it has still to do.  The operation times out in left units.
Round == [at : {"get", "dial", "post"}, todo : SUBSET Checks, left : Nat, age : Nat]

\* The result of a check was posted, by a round which is age old by now; the
\* timeout of the request is left units away.  No two rounds are equally old.
Connection == [check : Checks, age : Nat, left : 1 .. PostTimeout]

TypeOK ==
  /\ checks \subseteq Checks
  /\ recent \subseteq Checks
  /\ main \in {"select", "busy", "down"}
  /\ quit \in BOOLEAN
  /\ asked \in BOOLEAN
  /\ elapsed \in 0 .. Period - 1
  /\ due \in BOOLEAN
  /\ rounds \in Seq(Round)
  /\ \A i \in DOMAIN rounds : rounds[i].at # "get" => rounds[i].todo # {}
  /\ held \subseteq Connection

Init ==
  /\ checks = {}
  /\ recent = {}
  /\ main = "down"
  /\ quit = FALSE
  /\ asked = FALSE
  /\ elapsed = 0
  /\ due = FALSE
  /\ rounds = <<>>
  /\ held = {}

-----------------------------------------------------------------------------
(* The backend: POST /ports/checks.                                        *)

CreatePortCheck(c) ==
  /\ checks' = checks \cup {c}
  /\ UNCHANGED <<recent, main, quit, asked, elapsed, due, rounds, held>>

-----------------------------------------------------------------------------
(* The main loop.                                                          *)

\* The tickers, the channel and the goroutines of a process.
NoProcess ==
  /\ quit' = FALSE
  /\ asked' = FALSE
  /\ elapsed' = 0
  /\ due' = FALSE
  /\ rounds' = <<>>
  /\ held' = {}

\* The agent is started, registers, and enters its main loop.
AgentStarts ==
  /\ main = "down"
  /\ main' = "select"
  /\ UNCHANGED <<tables, quit, asked, elapsed, due, rounds, held>>

AgentCrashes ==
  /\ main # "down"
  /\ main' = "down"
  /\ NoProcess
  /\ UNCHANGED tables

\* Mutant of Keeps: a channel without a buffer loses what is not waited for.
KeepsNothing == main = "select"

\* make(chan os.Signal, 1)
Keeps == main # "down"

\* SIGINT or SIGTERM: signal.Notify never blocks.
Signal ==
  /\ main # "down"
  /\ quit' = (quit \/ Keeps)
  /\ asked' = TRUE
  /\ UNCHANGED <<tables, main, elapsed, due, rounds, held>>

\* case <-ticker.C: collect and send.
Work ==
  /\ main = "select"
  /\ main' = "busy"
  /\ UNCHANGED <<tables, quit, asked, elapsed, due, rounds, held>>

WorkEnds ==
  /\ main = "busy"
  /\ main' = "select"
  /\ UNCHANGED <<tables, quit, asked, elapsed, due, rounds, held>>

\* case <-portTicker.C: go RunPortChecks()
StartRound ==
  /\ main = "select" /\ due
  /\ due' = FALSE
  /\ rounds' = Append(rounds, [at |-> "get", todo |-> {}, left |-> GetTimeout, age |-> 0])
  /\ UNCHANGED <<tables, main, quit, asked, elapsed, held>>

\* case <-quit: main returns, and the goroutines end with it.
Quit ==
  /\ main = "select" /\ quit
  /\ main' = "down"
  /\ NoProcess
  /\ UNCHANGED tables

-----------------------------------------------------------------------------
(* RunPortChecks.                                                          *)

EndRound(i) == rounds' = RemoveAt(rounds, i)

\* Round i turns to an operation at, with the checks in todo before it.
GoOn(i, at, todo, timeout) ==
  rounds' = [rounds EXCEPT ![i] =
               [at |-> at, todo |-> todo, left |-> timeout, age |-> @.age]]

\* Mutant of DialLimit: net.Dial leaves it to the system, for minutes.
SystemLimit == DialTimeout + 2 * Period

DialLimit == DialTimeout

\* Mutant of RangeOver: a check is tried before it is asked for.
RangeOverAtLeastOnce(i, todo) == GoOn(i, "dial", todo, DialLimit)

\* for _, check := range checks
RangeOver(i, todo) == IF todo = {} THEN EndRound(i) ELSE GoOn(i, "dial", todo, DialLimit)

\* ListPortChecks answers with the rows of the server by name.  The loop of
\* GetPortChecks ends early when the rows break off, and does not tell: the
\* answer may be any first part of them.
Fetched(i) ==
  /\ rounds[i].at = "get"
  /\ \E n \in 0 .. MaxChecks : RangeOver(i, {c \in checks : c <= n})
  /\ UNCHANGED <<tables, main, quit, asked, elapsed, due, held>>

\* No answer within the timeout, a status other than 200, a broken body.
FetchFails(i) ==
  /\ rounds[i].at = "get"
  /\ EndRound(i)
  /\ UNCHANGED <<tables, main, quit, asked, elapsed, due, held>>

\* Mutant of AfterDial: a failure ends the round.
AfterDialReturn(i, ok) ==
  IF ok THEN GoOn(i, "post", rounds[i].todo, PostTimeout) ELSE EndRound(i)

\* A failed dial is a result like any other.
AfterDial(i, ok) == GoOn(i, "post", rounds[i].todo, PostTimeout)

DialEnds(i) ==
  /\ rounds[i].at = "dial"
  /\ \E ok \in BOOLEAN : AfterDial(i, ok)
  /\ UNCHANGED <<tables, main, quit, asked, elapsed, due, held>>

\* The check that round i is at.
IsCurrent(i, c) == c \in rounds[i].todo /\ \A d \in rounds[i].todo : c <= d

\* CreatePortResult, if the row gets stored.
CreatePortResult(c, stored) == recent' = IF stored THEN recent \cup {c} ELSE recent

\* The result of check c was posted.  stored: IngestPortResult has inserted it.
\* answered: in time, with whatever status.  The response is neither looked at
\* nor closed, and keeps its connection until the timeout of its request.
PostEnds(i, c, stored, answered) ==
  /\ rounds[i].at = "post" /\ IsCurrent(i, c)
  /\ RangeOver(i, rounds[i].todo \ {c})
  /\ CreatePortResult(c, stored)
  /\ held' = IF answered /\ rounds[i].left > 0
             THEN held \cup {[check |-> c, age |-> rounds[i].age, left |-> rounds[i].left]}
             ELSE held
  /\ UNCHANGED <<checks, main, quit, asked, elapsed, due>>

\* The operation of round i ends, well or not.
Ends(i) ==
  \/ Fetched(i) \/ FetchFails(i) \/ DialEnds(i)
  \/ \E c \in Checks, stored, answered \in BOOLEAN : PostEnds(i, c, stored, answered)

-----------------------------------------------------------------------------
(* Time.                                                                   *)

\* Mutant of Fires: the port ticker is as fast as the other one.
FiresOften == main # "down"

\* The portTicker fires.
Fires == main # "down" /\ elapsed + 1 = Period

\* Mutant of Release: an http.Client without a Timeout.
ReleaseNone == held' = {[h EXCEPT !.age = @ + 1] : h \in held}

Release == held' = {[check |-> h.check, age |-> h.age + 1, left |-> h.left - 1] :
                      h \in {g \in held : g.left > 1}}

Later(r) ==
  [at |-> r.at, todo |-> r.todo, left |-> r.left - 1, age |-> r.age + 1]

\* A unit of time passes.  A tick that finds the channel full is dropped.
PassTime ==
  /\ \A i \in DOMAIN rounds : rounds[i].left > 0
  /\ rounds' = [i \in DOMAIN rounds |-> Later(rounds[i])]
  /\ Release
  /\ elapsed' = IF Fires \/ main = "down" THEN 0 ELSE elapsed + 1
  /\ due' = (due \/ Fires)
  /\ recent' = IF Fires THEN {} ELSE recent
  /\ UNCHANGED <<checks, main, quit, asked>>

-----------------------------------------------------------------------------
Main == AgentStarts \/ AgentCrashes \/ Signal \/ Work \/ WorkEnds \/ StartRound \/ Quit

Next ==
  \/ \E c \in Checks : CreatePortCheck(c)
  \/ Main
  \/ \E i \in DOMAIN rounds : Ends(i)
  \/ PassTime

Spec == Init /\ [][Next]_vars

\* The whole list arrives.
FetchedAll(i) == Fetched(i) /\ RangeOver(i, checks)

\* A result of check c is stored.
Reported(c) ==
  \E i \in DOMAIN rounds, answered \in BOOLEAN : PostEnds(i, c, TRUE, answered)

(***************************************************************************)
(* Time passes and timeouts are kept.  Docker answers, so that main        *)
(* returns to its select, which chooses at random among the cases that are *)
(* ready.  Fetching, and storing the result of a check, succeed when tried *)
(* again and again.  Nothing is assumed of what dials find.                *)
(***************************************************************************)
Fairness ==
  /\ WF_vars(PassTime)
  /\ WF_vars(\E i \in DOMAIN rounds : rounds[i].left = 0 /\ Ends(i))
  /\ WF_vars(WorkEnds) /\ SF_vars(StartRound) /\ SF_vars(Quit)
  /\ SF_vars(\E i \in DOMAIN rounds : FetchedAll(i))
  /\ \A c \in Checks : SF_vars(Reported(c))

FairSpec == Spec /\ Fairness

-----------------------------------------------------------------------------
\* The time a round may take.
Longest == GetTimeout + MaxChecks * (DialTimeout + PostTimeout)

\* A round is over in time whatever the backend and the hosts do: it goes with
\* the number of checks, each of which may cost both timeouts in full.
RoundEnds == \A i \in DOMAIN rounds : rounds[i].age <= Longest

\* Rounds may overlap, but do not pile up, even when main is kept from its
\* select for long and a tick waits for it: there are no more of them than
\* fit into the time of the longest, and two.
RoundsBounded == Len(rounds) > 2 => (Len(rounds) - 2) * Period <= Longest

\* The connections left behind by unread responses do not pile up either, from
\* round to round: the timeout of the client, which was set for the request,
\* closes each before its round could be over.
HeldBounded == Cardinality(held) <= MaxChecks * ((Longest - 1) \div Period + 2)

\* Under FairSpec: every check is reported again and again once the agent is
\* no longer restarted, however the others fare and whatever ticks and
\* requests are lost.
ReportsIfUp ==
  <>[](main # "down") => \A c \in Checks : c \in checks ~> c \in recent

\* Under FairSpec: a signal ends the agent, even one that comes while main is
\* busy, or finds other cases ready.
QuitObeyed == asked ~> main = "down"
=============================================================================
