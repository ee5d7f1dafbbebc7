---------------------------- MODULE MCMockedHost -----------------------------
(* MockedHost on small instances: the values of its constants.             *)
EXTENDS MockedHost, TLC

NoValues == {}
OneToThree == 1..3
CodeSizes == {0, 3}
CopyRanges == 0..4
InputSizes == {0, 1, 4}      \* empty, kept inside the bytes object, on the heap
=============================================================================
