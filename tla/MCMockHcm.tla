----------------------------- MODULE MCMockHcm -----------------------------
(***************************************************************************)
(* A small instance of HcmApi: two employees with two days each.           *)
(***************************************************************************)
EXTENDS HcmApi

MCAccounts == [employee : {1, 2}, location : {"NYC"}, leaveType : {"ANNUAL"}]
MCSeed == [a \in MCAccounts |-> 2]

=============================================================================
