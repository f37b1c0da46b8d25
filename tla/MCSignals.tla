----------------------------- MODULE MCSignals -----------------------------
(* Signals for TLC: a program and its children, SIGINT and SIGKILL,        *)
(* handlers of every sort, at most two frames deep, frames edited.         *)
EXTENDS Signals

Handler(m, nodefer, resethand, restorer) ==
  [handler |-> "user", mask |-> m, nodefer |-> nodefer,
   resethand |-> resethand, restorer |-> restorer]
Ignore == [DefaultAction EXCEPT !.handler = "ignore"]

\* The default is what every signal has at first, after SA_RESETHAND and
\* after execve.
MCActions ==
  {Ignore, Handler({9}, FALSE, TRUE, TRUE), Handler({}, TRUE, FALSE, TRUE)}
=============================================================================
