------------------------------ MODULE TestHooks ------------------------------
(***************************************************************************)
(* What one test does in its process: the pretest hook, the plugins that   *)
(* switch something on and defer switching it off, the body, and the       *)
(* deferred hooks at the end or when an assertion fails                    *)
(* (src/verilate/include/testbench.h, vsrc/testbench.cpp). That a failing  *)
(* assertion reaches abort_testbench is the work of a handler for SIGABRT  *)
(* that the program using the harness installs (hook_signal, common.cpp).  *)
(***************************************************************************)
EXTENDS Naturals, Sequences

CONSTANTS
  Processes,    \* 0 is the process that was started, the others are workers
  SwitchedOn,   \* what main has switched on before the tests: a subset of Plugins
  TestPlugins   \* for each test the plugins between WITH and its body

Plugins == {"log", "status", "trace"}

ASSUME SwitchedOnAssumption == SwitchedOn \subseteq Plugins

VARIABLES
  at,      \* how far the process is in its test
  current, \* its test, of those in the domain of TestPlugins
  defers,  \* defer_list
  left,    \* of those being run: the hooks before the reverse iterator
  enabled, \* the controllers that are on
  past,    \* ghost: the tests that have ended in this process
  shown    \* the tests whose result was printed

hookVars == <<at, current, defers, left, enabled, past, shown>>

Hooks == {"post"} \cup Plugins

NoTest == 0 - 1 \* nullptr

HooksTypeOK ==
  /\ at \in [Processes -> {"idle", "pretest", "setup", "enabling", "defers", "abort", "dead"}]
  /\ \A p \in Processes :
       /\ current[p] \in DOMAIN TestPlugins \/ (at[p] = "idle" /\ current[p] = NoTest)
       /\ defers[p] \in Seq(Hooks) /\ left[p] \in Seq(Hooks)
       /\ enabled[p] \subseteq Plugins
       /\ past[p] \subseteq DOMAIN TestPlugins
  /\ shown \subseteq DOMAIN TestPlugins

HooksInit ==
  /\ at = [p \in Processes |-> "idle"]
  /\ current = [p \in Processes |-> NoTest]
  /\ defers = [p \in Processes |-> <<>>]
  /\ left = [p \in Processes |-> <<>>]
  /\ enabled = [p \in Processes |-> SwitchedOn]
  /\ past = [p \in Processes |-> {}]
  /\ shown = {}

Last(s)  == s[Len(s)]
Front(s) == SubSeq(s, 1, Len(s) - 1)

Begin(p, t) ==
  /\ at[p] = "idle"
  /\ at' = [at EXCEPT ![p] = "pretest"]
  /\ current' = [current EXCEPT ![p] = t]
  /\ UNCHANGED <<defers, left, enabled, past, shown>>

\* The pretest hook has returned; DeferListProxy asserts that the list is empty.
Construct(p) ==
  /\ at[p] = "pretest" /\ defers[p] = <<>>
  /\ at' = [at EXCEPT ![p] = "setup"]
  /\ defers' = [defers EXCEPT ![p] = <<"post">>]
  /\ UNCHANGED <<current, left, enabled, past, shown>>

\* controller(true), and what else the plugin does: TRACE opens a file and resets.
EnablePlugin(p) ==
  /\ at[p] = "setup" /\ Len(defers[p]) <= Len(TestPlugins[current[p]])
  /\ at' = [at EXCEPT ![p] = "enabling"]
  /\ enabled' = [enabled EXCEPT ![p] = @ \cup {TestPlugins[current[p]][Len(defers[p])]}]
  /\ UNCHANGED <<current, defers, left, past, shown>>

DeferHook(p) ==
  /\ at[p] = "enabling"
  /\ at' = [at EXCEPT ![p] = "setup"]
  /\ defers' = [defers EXCEPT ![p] = Append(@, TestPlugins[current[p]][Len(@)])]
  /\ UNCHANGED <<current, left, enabled, past, shown>>

\* Mutant: only the posttest hook is run.
LeaveBodyForgets(p) ==
  /\ at[p] = "setup"
  /\ at' = [at EXCEPT ![p] = "defers"]
  /\ left' = [left EXCEPT ![p] = <<"post">>]
  /\ UNCHANGED <<current, defers, enabled, past, shown>>

\* The body ends, or SKIP returns from between the plugins.
LeaveBody(p) ==
  /\ at[p] = "setup"
  /\ at' = [at EXCEPT ![p] = "defers"]
  /\ left' = [left EXCEPT ![p] = defers[p]]
  /\ UNCHANGED <<current, defers, enabled, past, shown>>

\* Mutant: the oldest hook first.
RunHookForward(p) ==
  /\ at[p] \in {"defers", "abort"} /\ left[p] # <<>>
  /\ enabled' = [enabled EXCEPT ![p] = @ \ {Head(left[p])}]
  /\ left' = [left EXCEPT ![p] = Tail(@)]
  /\ UNCHANGED <<at, current, defers, past, shown>>

\* Mutant: every hook switches logging off.
RunHookSilences(p) ==
  /\ at[p] \in {"defers", "abort"} /\ left[p] # <<>>
  /\ enabled' = [enabled EXCEPT ![p] = @ \ {Last(left[p]), "log"}]
  /\ left' = [left EXCEPT ![p] = Front(@)]
  /\ UNCHANGED <<at, current, defers, past, shown>>

\* run_defers: the list is not popped while it is run.
RunHook(p) ==
  /\ at[p] \in {"defers", "abort"} /\ left[p] # <<>>
  /\ enabled' = [enabled EXCEPT ![p] = @ \ {Last(left[p])}]
  /\ left' = [left EXCEPT ![p] = Front(@)]
  /\ UNCHANGED <<at, current, defers, past, shown>>

\* The list is cleared; info prints the result if logging is on.
Finish(p) ==
  /\ at[p] = "defers" /\ left[p] = <<>>
  /\ at' = [at EXCEPT ![p] = "idle"]
  /\ defers' = [defers EXCEPT ![p] = <<>>]
  /\ past' = [past EXCEPT ![p] = @ \cup {current[p]}]
  /\ shown' = IF "log" \in enabled[p] THEN shown \cup {current[p]} ELSE shown
  /\ current' = [current EXCEPT ![p] = NoTest]
  /\ UNCHANGED <<left, enabled>>

\* An assertion fails in a hook, in a plugin or in the body: abort_testbench runs
\* the whole list, also when part of it has been run already. The hooks are taken
\* not to fail there again.
Abort(p) ==
  /\ at[p] \in {"pretest", "setup", "enabling", "defers"}
  /\ at' = [at EXCEPT ![p] = "abort"]
  /\ left' = [left EXCEPT ![p] = defers[p]]
  /\ UNCHANGED <<current, defers, enabled, past, shown>>

Die(p) ==
  /\ at[p] = "abort" /\ left[p] = <<>>
  /\ at' = [at EXCEPT ![p] = "dead"]
  /\ UNCHANGED <<current, defers, left, enabled, past, shown>>

HookStep(p) == Construct(p) \/ EnablePlugin(p) \/ DeferHook(p) \/ LeaveBody(p) \/ RunHook(p)

(***************************************************************************)
(* Properties.                                                             *)
(***************************************************************************)
Elements(s) == {s[k] : k \in DOMAIN s}

\* No test leaves on what it has switched on, whether it ends, is skipped half way
\* through its plugins or aborts (testbench.h:131-139); after an abort a plugin may
\* be left on only if it had not deferred its hook yet.
NothingLeftOn ==
  \A p \in Processes :
    /\ at[p] = "idle" => enabled[p] \subseteq SwitchedOn /\ defers[p] = <<>>
    /\ at[p] = "dead" => enabled[p] \cap Elements(defers[p]) = {}

\* "defer_list acts like a stack" (testbench.cpp:23): while a plugin is on, those
\* enabled before it are on too, also in its hook (a test uses a plugin once).
HooksNest ==
  \A p \in Processes :
    at[p] \in {"setup", "defers"} =>
      \A k \in 2 .. Len(defers[p]) :
        defers[p][k] \in enabled[p] =>
          \A l \in 2 .. k - 1 : defers[p][l] \in enabled[p]

\* The result of a test is missing only if logging has been switched off by the end
\* of a test with the plugin LOG, in the same process (testbench.h:143: it does not
\* restore what was set, and the result is printed after the hooks).
LostOnlyToLog ==
  \A p \in Processes : \A t \in past[p] :
    t \notin shown => \E u \in past[p] : "log" \in Elements(TestPlugins[u])
=============================================================================
