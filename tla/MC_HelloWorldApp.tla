--------------------------- MODULE MC_HelloWorldApp ---------------------------
(* Instantiation of HelloWorldApp for TLC: main and one other process,     *)
(* each with one thread and one descriptor, competing for a single domain  *)
(* slot; the enclave binary has a shared and a private segment.            *)
EXTENDS HelloWorldApp, TLC

CONSTANTS mf, of, mt, ot, d1, rs, rp

MCAppFiles   == {mf, of}
MCAppThreads == {mt, ot}
MCAppDomains == {d1}
MCAppRegions == {rs, rp}
=============================================================================
