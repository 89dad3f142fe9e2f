--------------------------- MODULE MCXcpDaqConfig ---------------------------
(* Model-checking instance of XcpDaqConfig: the configurations of the runs. *)
EXTENDS XcpDaqConfig

Setup(dynamic, absolute, minDaq, daqs, odtCount) ==
  [dynamic |-> dynamic, absolute |-> absolute, minDaq |-> minDaq, daqs |-> daqs,
   odts |-> 2, odtCount |-> odtCount]

DynamicRelative == {Setup(TRUE, FALSE, 0, 0, 2)}
DynamicAbsolute == {Setup(TRUE, TRUE, 0, 0, 2)}
DynamicBehindPredefined == {Setup(TRUE, FALSE, 1, 1, 2)}
StaticRelative == {Setup(FALSE, FALSE, 0, 1, 2)}
StaticAbsolute == {Setup(FALSE, TRUE, 0, 1, 2)}
StaticUncounted == {Setup(FALSE, TRUE, 0, 1, 0)}
StaticBehindPredefined == {Setup(FALSE, TRUE, 1, 2, 2)}

\* The two that README.txt describes in full.
DynamicOrStatic == DynamicRelative \cup StaticBehindPredefined
=============================================================================
