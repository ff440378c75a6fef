------------------------------ MODULE MCLaunch ------------------------------
(* Instances of Launch for TLC: file paths that meet every branch of           *)
(* InternalFileMatches.                                                        *)
EXTENDS Launch

Path(len, separators) == [len |-> len, separators |-> separators]

MCImages == {
  Path(4, {}),        \* too short for either name
  Path(8, {}),        \* boot.efi, and every other name of its length
  Path(9, {0}),       \* \boot.efi, the character looked at is not the separator
  Path(12, {3}),      \* \EF\boot.efi
  Path(32, {0, 4})}   \* \EFI\..., the character looked at lies behind the path
=============================================================================
