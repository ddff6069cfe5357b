-------------------------- MODULE MCMsgAnalyzerDlg --------------------------
(* A model-checking instance of MsgAnalyzerDlg: two rules that share a        *)
(* condition, the second with an action that resets it.                       *)
EXTENDS MsgAnalyzerDlg

MCCondsOf == [r1 |-> {"c1", "c2"}, r2 |-> {"c2"}]
MCMessages ==
  {[app |-> "a1", sev |-> SINFO, fits |-> {"c1"}],
   [app |-> "a1", sev |-> SERROR, fits |-> {"c1", "c2"}],
   [app |-> "a1", sev |-> SWARNING, fits |-> {"c2"}]}
MCOnWarning == << {"a1"}, {"*"} >>
MCOnError == << {"a1"} >>
=============================================================================
