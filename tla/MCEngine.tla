------------------------------- MODULE MCEngine -------------------------------
(***************************************************************************)
(* Small instances of Engine for TLC.                                      *)
(***************************************************************************)
EXTENDS Engine, TLC

(* Every file with a segment name of its own (Names = Files).              *)
OwnName == [f \in Files |-> f]

(* Every file with the same last path component.                           *)
SharedName == [f \in Files |-> CHOOSE n \in Names : TRUE]

FlatDirs == [d \in Dirs |-> {d}]

(* The other directories are inside DefaultDir.                            *)
NestedDirs == [d \in Dirs |-> IF d = DefaultDir THEN Dirs ELSE {d}]

OneDevice == [d \in Dirs |-> 0]

(* DefaultDir and the other directories are on different devices.          *)
TwoDevices == [d \in Dirs |-> IF d = DefaultDir THEN 0 ELSE 1]

(* Documents that share a term; one repeats a term.                        *)
TwoTexts == {<<"a">>, <<"b", "a", "b">>}

(* The empty document, which an unreadable file amounts to, and one        *)
(* that is not.                                                            *)
EmptyAndFull == {<<>>, <<"b", "a", "b">>}

(* Where generations tell the contents of a segment apart.                 *)
OneText == {<<"b", "a", "b">>}

SingleFiles == {<<f>> : f \in Files}

(* Single files, and pairs: one file twice is what a directory with a      *)
(* symbolic link to one of its own files yields.                           *)
UpToTwoFiles == SingleFiles \cup {<<f, g>> : f \in Files, g \in Files}

FileSymmetry == Permutations(Files)
HandlerSymmetry == Permutations(Handlers)
Symmetry == FileSymmetry \cup HandlerSymmetry
=============================================================================
