---------------------------- MODULE MCInstaller ----------------------------
(***************************************************************************)
(* TLC's instance of Installer.                                            *)
(***************************************************************************)
EXTENDS Installer, TLC

InstallerSymmetry == Permutations(Installers)
=============================================================================
