---------------------------- MODULE MCThreadPool ----------------------------
(* Two workers, and more tasks than one handleEvents deals with. *)
EXTENDS ThreadPool
MCWorkers == {1, 2}
=============================================================================
