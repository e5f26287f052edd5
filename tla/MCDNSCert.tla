------------------------------ MODULE MCDNSCert ------------------------------
(***************************************************************************)
(* Bounded instances of DNSCert for TLC.  DNSCert.cfg has two managers and *)
(* autocert, which meet in the account key file and in nothing else: its   *)
(* orders have no authorization left to solve.  DNSCertOrder.cfg has one   *)
(* manager with two, checked for liveness too, without symmetry.           *)
(***************************************************************************)
EXTENDS DNSCert, TLC

\* Managers and keys are interchangeable; used only by the run that checks no
\* liveness.
Symmetry == Permutations(Managers) \cup Permutations(Keys)
=============================================================================
