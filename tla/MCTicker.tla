------------------------------ MODULE MCTicker ------------------------------
(* Instances of Ticker: the operations an administrator sends.             *)
EXTENDS Ticker

MCValues == -3 .. 4

Range(b, e) == [NoOp EXCEPT !.begin = {b}, !.end = {e}]
Rate(c) == [NoOp EXCEPT !.cps = {c}]

(* Every kind of parameter, valid or not.                                  *)
Anything ==
    {[Range(1, 3) EXCEPT !.cps = {1}],
     [Range(0, 1) EXCEPT !.cps = {1}, !.repeat = {TRUE}],
     Rate(0), Rate(1),
     [NoOp EXCEPT !.repeat = {FALSE}],
     [Rate(0) EXCEPT !.bad = "repeat"],
     [Range(1, 1) EXCEPT !.bad = "cps"],
     [NoOp EXCEPT !.end = {3}],
     [NoOp EXCEPT !.begin = {3}],
     [NoOp EXCEPT !.bad = "range"],
     [NoOp EXCEPT !.sequence = {1}, !.cps = {1}],
     [NoOp EXCEPT !.sequence = {0}],
     [NoOp EXCEPT !.bad = "sequence"]}
=============================================================================
