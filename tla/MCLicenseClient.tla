-------------------------- MODULE MCLicenseClient --------------------------
(* The instances of LicenseClient that TLC checks.                         *)
EXTENDS LicenseClient
=============================================================================
