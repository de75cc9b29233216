----------------------------- MODULE MCTraining -----------------------------
(* Small instances of Training for TLC. *)
EXTENDS Training

\* The logistic job started in time, and early; the softmax job at any time.
AllSetups == {[job |-> "logistic", early |-> FALSE, deaths |-> TRUE],
              [job |-> "logistic", early |-> TRUE, deaths |-> FALSE],
              [job |-> "softmax", early |-> TRUE, deaths |-> TRUE]}

SafeSetups == [job : {"logistic", "softmax"}, early : {FALSE}, deaths : {FALSE}]

DyingSetups == [job : {"softmax"}, early : {FALSE}, deaths : {TRUE}]

EarlySetups == [job : {"logistic"}, early : {TRUE}, deaths : {FALSE}]
=============================================================================
