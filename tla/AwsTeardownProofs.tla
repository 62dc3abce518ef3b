--------------------------- MODULE AwsTeardownProofs ---------------------------
(***************************************************************************)
(* Proofs about AwsTeardown: when AWS never throttles, an exit status of 0 *)
(* means every resource the script deletes is gone, whatever the starting *)
(* resources and whatever transient failures AWS answers.                 *)
(***************************************************************************)
EXTENDS AwsTeardown, TLAPS

(* The statements after each of the first four steps has returned.          *)
AfterNodes == {"cluster_delete", "cluster_poll", "vpc_describe", "vpc_delete", "vpc_poll",
               "detach_cluster_policy", "detach_service_policy", "role_delete",
               "keypair_delete", "done"}
AfterCluster == {"vpc_describe", "vpc_delete", "vpc_poll", "detach_cluster_policy",
                 "detach_service_policy", "role_delete", "keypair_delete", "done"}
AfterVpc == {"detach_cluster_policy", "detach_service_policy", "role_delete",
             "keypair_delete", "done"}
AfterRole == {"keypair_delete", "done"}

StackGone(s) == stack[s] \in {"none", "DELETE_COMPLETE"}

(***************************************************************************)
(* Every step the script has finished left its resource gone, and AWS     *)
(* never brings a gone resource back.                                      *)
(***************************************************************************)
Cleaned ==
    /\ pc \in AfterNodes => StackGone("nodes")
    /\ pc \in AfterCluster => cluster = "absent"
    /\ pc \in AfterVpc => StackGone("vpc")
    /\ pc \in AfterRole => ~role
    /\ pc = "done" => ~keypair

(* The script has not panicked, and while deferError is unset the steps it *)
(* finished are Cleaned.                                                   *)
IInv == TypeOK /\ NeverPanics /\ (~deferError => Cleaned)

-----------------------------------------------------------------------------
(* The initial state satisfies the inductive invariant.                   *)
LEMMA InitIInv == Init => IInv
<1> SUFFICES ASSUME Init PROVE IInv
    OBVIOUS
<1>1. TypeOK
    BY Zenon DEF Init, TypeOK, Pcs, StackStatus, Stacks, Policies
<1>2. Cleaned
    BY DEF Init, Cleaned, AfterNodes, AfterCluster, AfterVpc, AfterRole
<1>3. QED
    BY <1>1, <1>2 DEF IInv, NeverPanics, Init

(***************************************************************************)
(* Every step preserves IInv when AWS never throttles.                     *)
(***************************************************************************)
LEMMA NextIInv ==
    ASSUME ~Throttle
    PROVE  IInv /\ [Next]_vars => IInv'
<1> SUFFICES ASSUME IInv, [Next]_vars PROVE IInv'
    OBVIOUS
<1> USE DEF IInv, NeverPanics, TypeOK, Pcs, StackStatus, Stacks, Policies, Cleaned, StackGone,
           AfterNodes, AfterCluster, AfterVpc, AfterRole,
           Answer, CheckDeferError, Harmful, SetDeferError, Answered, After, Step, StackPc, Listed
<1>1. ASSUME NEW s \in Stacks, DescribeStack(s) PROVE IInv'
    <2>1. CASE s = "nodes"
        BY <1>1, <2>1 DEF DescribeStack
    <2>2. CASE s = "vpc"
        BY <1>1, <2>2 DEF DescribeStack
    <2>3. QED
        BY <2>1, <2>2
<1>2. ASSUME NEW s \in Stacks, DeleteStack(s) PROVE IInv'
    <2>1. CASE s = "nodes"
        BY <1>2, <2>1 DEF DeleteStack
    <2>2. CASE s = "vpc"
        BY <1>2, <2>2 DEF DeleteStack
    <2>3. QED
        BY <2>1, <2>2
<1>3. ASSUME NEW s \in Stacks, PollStack(s) PROVE IInv'
    <2>1. CASE s = "nodes"
        BY <1>3, <2>1 DEF PollStack
    <2>2. CASE s = "vpc"
        BY <1>3, <2>2 DEF PollStack
    <2>3. QED
        BY <2>1, <2>2
<1>4. CASE DeleteCluster
    BY <1>4 DEF DeleteCluster
<1>5. CASE PollCluster
    BY <1>5 DEF PollCluster
<1>6. CASE DetachClusterPolicy
    BY <1>6 DEF DetachClusterPolicy, DetachRolePolicy
<1>7. CASE DetachServicePolicy
    BY <1>7 DEF DetachServicePolicy, DetachRolePolicy
<1>8. CASE DeleteRole
    BY <1>8 DEF DeleteRole
<1>9. CASE DeleteKeyPair
    BY <1>9 DEF DeleteKeyPair
<1>10. ASSUME NEW s \in Stacks, StackDeletionEnds(s) PROVE IInv'
    BY <1>10 DEF StackDeletionEnds
<1>11. CASE ClusterDeletionEnds
    BY <1>11 DEF ClusterDeletionEnds
<1>12. CASE UNCHANGED vars
    BY <1>12 DEF vars
<1>13. QED
    BY <1>1, <1>2, <1>3, <1>4, <1>5, <1>6, <1>7, <1>8, <1>9, <1>10, <1>11, <1>12
       DEF Next, Script, Aws

-----------------------------------------------------------------------------
(***************************************************************************)
(* ExitZeroMeansCleanHolds: when AWS never throttles, an exit with status  *)
(* 0 (deleteAWSKubernetesCluster returned and deferError is unset) leaves  *)
(* both stacks, the cluster, the role and the key pair gone, from every   *)
(* starting set of resources (ExitZeroMeansClean).  Each step either      *)
(* leaves its resource gone, or sets deferError, or does not return.      *)
(***************************************************************************)
THEOREM ExitZeroMeansCleanHolds ==
    ASSUME ~Throttle
    PROVE  Spec => []ExitZeroMeansClean
<1>1. Init => IInv
    BY InitIInv
<1>2. IInv /\ [Next]_vars => IInv'
    BY NextIInv
<1>3. IInv => ExitZeroMeansClean
    BY DEF IInv, Cleaned, StackGone, ExitZeroMeansClean, AfterNodes, AfterCluster,
           AfterVpc, AfterRole, Stacks
<1>4. QED
    BY <1>1, <1>2, <1>3, PTL DEF Spec
=============================================================================
