---------------------------- MODULE MCMainProgram ----------------------------
(* An instance of MainProgram: two recordings of two threads, every option *)
(* that decides which files are written, and one to three workers.         *)
EXTENDS MainProgram

Inv(share, caller, t, s, child) == [share |-> share, caller |-> caller, t |-> t, s |-> s, child |-> child]
Call(name, t, s) == [name |-> name, t |-> t, s |-> s]

MCTrace ==
  [old |-> [t1 |-> <<Inv(0, "f", 3, 0, <<>>), Inv(2, UNKNOWN, Unknown, 0, <<Call("g", 1, 0)>>)>>,
            t2 |-> <<Inv(1, "f", 0, 0, <<>>), Inv(2, "h", 5, 5, <<Call("g", 5, 5)>>)>>],
   new |-> [t1 |-> <<Inv(0, "f", 9, 4, <<Call("g", 2, 1), Call("g", 3, 3)>>),
                     Inv(1, "f", Unknown, 0, <<Call("g", 4, 0)>>), Inv(1, "f", 70, 0, <<>>)>>,
            t2 |-> <<Inv(0, UNKNOWN, Unknown, 0, <<Call("h", 2, 2)>>),
                     Inv(1, "h", 1, 1, <<Call("g", 1, 1)>>)>>]]
MCShares == [old |-> 3, new |-> 2]

Command(history, verbose, parallel, worker_num, compact, target) ==
  [history |-> history, verbose |-> verbose, parallel |-> parallel, worker_num |-> worker_num,
   compact |-> compact, target |-> target]
MCCommands ==
  {Command(h, v, TRUE, w, c, TRUE) : h \in 0 .. 3, v \in BOOLEAN, w \in 1 .. 3, c \in BOOLEAN}
    \cup {Command(h, v, FALSE, 2, TRUE, TRUE) : h \in 0 .. 3, v \in BOOLEAN}
    \cup {Command(1, FALSE, TRUE, 2, TRUE, FALSE)}

=============================================================================
