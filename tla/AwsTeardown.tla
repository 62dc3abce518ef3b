----------------------------- MODULE AwsTeardown -----------------------------
(***************************************************************************)
(* The EKS teardown script (scripts/aws/destroy-kubernetes-cluster.go).    *)
(*                                                                         *)
(* deleteAWSKubernetesCluster runs five steps in sequence: delete the      *)
(* worker nodes' CloudFormation stack and poll it until DELETE_COMPLETE,   *)
(* delete the EKS cluster and poll it until it is gone, delete the         *)
(* cluster's VPC stack and poll it, detach two policies from the service   *)
(* role and delete the role, delete the EC2 key pair.  Every AWS error     *)
(* goes through checkDeferError, which sorts it into "go on" (no error,    *)
(* Throttling), "return, harmless" (NoSuchEntity,                         *)
(* ResourceNotFoundException, ValidationError) and "return, exit 1 at the *)
(* end" (any other code).  The process exits 1 when deferError is set.     *)
(*                                                                         *)
(* AWS is the environment: each call answers what the resource's state    *)
(* dictates, or fails with a transient error; deletions started by a call  *)
(* complete later.  A stack's state is its StackStatus as DescribeStacks  *)
(* by id reports it; "none" is a stack that never existed.                *)
(***************************************************************************)
EXTENDS Naturals, Sequences

CONSTANTS
    Throttle    \* TRUE: AWS may answer any call with a Throttling error

ASSUME AwsTeardownAssumption == Throttle \in BOOLEAN

Stacks == {"nodes", "vpc"}
StackStatus == {"none", "CREATE_COMPLETE", "DELETE_IN_PROGRESS",
                "DELETE_COMPLETE", "DELETE_FAILED"}
Policies == {"AmazonEKSClusterPolicy", "AmazonEKSServicePolicy"}
Pcs == {"nodes_describe", "nodes_delete", "nodes_poll",
        "cluster_delete", "cluster_poll",
        "vpc_describe", "vpc_delete", "vpc_poll",
        "detach_cluster_policy", "detach_service_policy", "role_delete",
        "keypair_delete", "done", "panic"}

VARIABLES
    pc,         \* the statement deleteAWSKubernetesCluster is at; "panic": nil dereference
    deferError, \* the package-level flag
    stack,      \* stack[s]: the status of CloudFormation stack s
    cluster,    \* the EKS cluster: "absent", "ACTIVE", "DELETING"
    role,       \* the IAM role exists
    attached,   \* the managed policies attached to the role
    keypair,    \* the EC2 key pair exists
    transient   \* the script's last call failed transiently (for fairness)

vars == <<pc, deferError, stack, cluster, role, attached, keypair, transient>>

TypeOK ==
    /\ pc \in Pcs
    /\ deferError \in BOOLEAN
    /\ stack \in [Stacks -> StackStatus]
    /\ cluster \in {"absent", "ACTIVE", "DELETING"}
    /\ role \in BOOLEAN
    /\ attached \subseteq Policies
    /\ keypair \in BOOLEAN
    /\ transient \in BOOLEAN

-----------------------------------------------------------------------------
(* The answers a call can get when AWS, given the resource's state, would  *)
(* answer code ("nil" for success): that one, or a transient failure.     *)
Answer(code) == {code, "InternalFailure"} \cup (IF Throttle THEN {"Throttling"} ELSE {})

(* checkDeferError's result: TRUE makes the caller return.                 *)
CheckDeferError(err) == err \notin {"nil", "Throttling"}

(* Mutant: the default case of checkDeferError forgets deferError = true. *)
HarmfulNever(err) == FALSE

(* The codes for which checkDeferError sets deferError: all but the three *)
(* harmless ones and Throttling.                                           *)
Harmful(err) == err \notin {"nil", "Throttling", "NoSuchEntity",
                            "ResourceNotFoundException", "ValidationError"}

SetDeferError(err) == deferError' = (deferError \/ Harmful(err))

(* A call answered err where AWS's own answer was code.                    *)
Answered(code, err) == transient' = (err # code)

(* The step after the function handling stack s returns.                   *)
After(s) == IF s = "nodes" THEN "cluster_delete" ELSE "detach_cluster_policy"

(* The statement of the function handling stack s at which it does x.     *)
StackPc == [nodes |-> [describe |-> "nodes_describe", delete |-> "nodes_delete", poll |-> "nodes_poll"],
            vpc   |-> [describe |-> "vpc_describe", delete |-> "vpc_delete", poll |-> "vpc_poll"]]

Step(s, x) == StackPc[s][x]

(* A stack that exists under its name.                                     *)
Listed(s) == stack[s] \in {"CREATE_COMPLETE", "DELETE_IN_PROGRESS", "DELETE_FAILED"}

Init ==
    /\ pc = "nodes_describe"
    /\ deferError = FALSE
    /\ stack \in [Stacks -> {"none", "CREATE_COMPLETE"}]
    /\ cluster \in {"absent", "ACTIVE"}
    /\ role \in BOOLEAN
    /\ attached \in IF role THEN SUBSET Policies ELSE {{}}
    /\ keypair \in BOOLEAN
    /\ transient = FALSE

-----------------------------------------------------------------------------
(***************************************************************************)
(* DescribeStacks by name, then stackId := resp.Stacks[0].StackId: a       *)
(* missing stack is a ValidationError (return, harmless); after a         *)
(* throttled call resp holds no stack and resp.Stacks[0] panics.          *)
(***************************************************************************)
DescribeStack(s) ==
    /\ pc = Step(s, "describe")
    /\ LET code == IF Listed(s) THEN "nil" ELSE "ValidationError" IN
       \E err \in Answer(code) :
          /\ Answered(code, err)
          /\ SetDeferError(err)
          /\ pc' = CASE CheckDeferError(err) -> After(s)
                     [] err = "Throttling"   -> "panic"
                     [] OTHER                -> Step(s, "delete")
    /\ UNCHANGED <<stack, cluster, role, attached, keypair>>

(* DeleteStack by name starts the deletion; after a throttled call the     *)
(* loop is entered all the same.                                            *)
DeleteStack(s) ==
    /\ pc = Step(s, "delete")
    /\ \E err \in Answer("nil") :
          /\ Answered("nil", err)
          /\ SetDeferError(err)
          /\ stack' = IF err = "nil" THEN [stack EXCEPT ![s] = "DELETE_IN_PROGRESS"] ELSE stack
          /\ pc' = IF CheckDeferError(err) THEN After(s) ELSE Step(s, "poll")
    /\ UNCHANGED <<cluster, role, attached, keypair>>

(* Mutant: the poll loop keeps waiting on a stack whose deletion failed.   *)
PollStackWaitsOnFailed(s) ==
    /\ pc = Step(s, "poll")
    /\ \E err \in Answer("nil") :
          /\ Answered("nil", err)
          /\ pc' = CASE CheckDeferError(err) -> After(s)
                     [] err = "Throttling" -> "panic"
                     [] stack[s] = "DELETE_COMPLETE" -> After(s)
                     [] stack[s] \in {"DELETE_IN_PROGRESS", "DELETE_FAILED"} -> pc
                     [] OTHER -> After(s)
          /\ deferError' = (deferError \/ Harmful(err)
                              \/ (err = "nil" /\ stack[s] = "CREATE_COMPLETE"))
    /\ UNCHANGED <<stack, cluster, role, attached, keypair>>

(***************************************************************************)
(* One iteration of the for loop on DescribeStacks by stackId (which AWS   *)
(* answers for a deleted stack too): DELETE_COMPLETE returns,              *)
(* DELETE_IN_PROGRESS sleeps and loops, any other status sets deferError   *)
(* and returns; after a throttled call resp.Stacks[0] panics.              *)
(***************************************************************************)
PollStack(s) ==
    /\ pc = Step(s, "poll")
    /\ \E err \in Answer("nil") :
          /\ Answered("nil", err)
          /\ pc' = CASE CheckDeferError(err) -> After(s)
                     [] err = "Throttling" -> "panic"
                     [] stack[s] = "DELETE_IN_PROGRESS" -> pc
                     [] OTHER -> After(s)
          /\ deferError' = (deferError \/ Harmful(err)
                              \/ (err = "nil" /\ stack[s] \notin {"DELETE_COMPLETE", "DELETE_IN_PROGRESS"}))
    /\ UNCHANGED <<stack, cluster, role, attached, keypair>>

(* DeleteCluster: ResourceNotFoundException for a missing cluster returns  *)
(* harmlessly; after a throttled call the loop is entered all the same.    *)
DeleteCluster ==
    /\ pc = "cluster_delete"
    /\ LET code == IF cluster = "absent" THEN "ResourceNotFoundException" ELSE "nil" IN
       \E err \in Answer(code) :
          /\ Answered(code, err)
          /\ SetDeferError(err)
          /\ cluster' = IF err = "nil" THEN "DELETING" ELSE cluster
          /\ pc' = IF CheckDeferError(err) THEN "vpc_describe" ELSE "cluster_poll"
    /\ UNCHANGED <<stack, role, attached, keypair>>

(***************************************************************************)
(* One iteration of the DescribeCluster loop: ResourceNotFoundException    *)
(* means deleted; another error returns through checkDeferError, except    *)
(* Throttling, which leaves resp.Cluster nil for *resp.Cluster.Status;    *)
(* DELETING sleeps and loops; any other status sets deferError and        *)
(* returns.                                                                 *)
(***************************************************************************)
PollCluster ==
    /\ pc = "cluster_poll"
    /\ LET code == IF cluster = "absent" THEN "ResourceNotFoundException" ELSE "nil" IN
       \E err \in Answer(code) :
          /\ Answered(code, err)
          /\ pc' = CASE CheckDeferError(err) -> "vpc_describe"
                     [] err = "Throttling" -> "panic"
                     [] cluster = "DELETING" -> pc
                     [] OTHER -> "vpc_describe"
          /\ deferError' = (deferError \/ Harmful(err)
                              \/ (err = "nil" /\ cluster # "DELETING"))
    /\ UNCHANGED <<stack, cluster, role, attached, keypair>>

(***************************************************************************)
(* DetachRolePolicy for one policy: NoSuchEntity for a missing role or an  *)
(* unattached policy; the result of checkDeferError is ignored.            *)
(***************************************************************************)
DetachRolePolicy(p, next) ==
    /\ LET code == IF role /\ p \in attached THEN "nil" ELSE "NoSuchEntity" IN
       \E err \in Answer(code) :
          /\ Answered(code, err)
          /\ SetDeferError(err)
          /\ attached' = IF err = "nil" THEN attached \ {p} ELSE attached
    /\ pc' = next
    /\ UNCHANGED <<stack, cluster, role, keypair>>

DetachClusterPolicy ==
    /\ pc = "detach_cluster_policy"
    /\ DetachRolePolicy("AmazonEKSClusterPolicy", "detach_service_policy")

DetachServicePolicy ==
    /\ pc = "detach_service_policy"
    /\ DetachRolePolicy("AmazonEKSServicePolicy", "role_delete")

(* DeleteRole: NoSuchEntity for a missing role, DeleteConflict while a     *)
(* policy is still attached.                                                *)
DeleteRole ==
    /\ pc = "role_delete"
    /\ LET code == IF ~role THEN "NoSuchEntity"
                   ELSE IF attached # {} THEN "DeleteConflict" ELSE "nil" IN
       \E err \in Answer(code) :
          /\ Answered(code, err)
          /\ SetDeferError(err)
          /\ role' = (role /\ err # "nil")
    /\ pc' = "keypair_delete"
    /\ UNCHANGED <<stack, cluster, attached, keypair>>

(* DeleteKeyPair (EC2 answers success for a missing key), then the exit   *)
(* on deferError.                                                           *)
DeleteKeyPair ==
    /\ pc = "keypair_delete"
    /\ \E err \in Answer("nil") :
          /\ Answered("nil", err)
          /\ SetDeferError(err)
          /\ keypair' = (keypair /\ err # "nil")
    /\ pc' = "done"
    /\ UNCHANGED <<stack, cluster, role, attached>>

-----------------------------------------------------------------------------
(* AWS finishes a stack deletion.  The VPC stack cannot be deleted while   *)
(* the cluster's network interfaces use it; the nodes' stack may fail.    *)
StackDeletionEnds(s) ==
    /\ stack[s] = "DELETE_IN_PROGRESS"
    /\ \E st \in IF s = "vpc" /\ cluster # "absent" THEN {"DELETE_FAILED"}
                 ELSE {"DELETE_COMPLETE", "DELETE_FAILED"} :
          stack' = [stack EXCEPT ![s] = st]
    /\ UNCHANGED <<pc, deferError, cluster, role, attached, keypair, transient>>

(* AWS finishes the cluster's deletion.                                     *)
ClusterDeletionEnds ==
    /\ cluster = "DELETING"
    /\ cluster' = "absent"
    /\ UNCHANGED <<pc, deferError, stack, role, attached, keypair, transient>>

Script ==
    \/ \E s \in Stacks : DescribeStack(s) \/ DeleteStack(s) \/ PollStack(s)
    \/ DeleteCluster \/ PollCluster
    \/ DetachClusterPolicy \/ DetachServicePolicy \/ DeleteRole \/ DeleteKeyPair

Aws == (\E s \in Stacks : StackDeletionEnds(s)) \/ ClusterDeletionEnds

Next == Script \/ Aws

(***************************************************************************)
(* The script runs to its end unless it panics, and AWS completes the     *)
(* deletions it accepted.  Fairness is on the script's steps that get     *)
(* AWS's own answer: transient failures may happen, but are never forced.  *)
(***************************************************************************)
Spec == Init /\ [][Next]_vars /\ WF_vars(Script /\ ~transient')
        /\ WF_vars(Aws)

-----------------------------------------------------------------------------
(***************************************************************************)
(* ExitZeroMeansClean: when the script exits with status 0 every resource *)
(* it deletes is gone: both stacks, the cluster, the role and the key     *)
(* pair.  This is what a caller of the script relies on, and what the     *)
(* "successfully deleted" messages announce.                               *)
(***************************************************************************)
ExitZeroMeansClean ==
    (pc = "done" /\ ~deferError) =>
        /\ \A s \in Stacks : stack[s] \in {"none", "DELETE_COMPLETE"}
        /\ cluster = "absent"
        /\ ~role
        /\ ~keypair

(***************************************************************************)
(* NeverPanics: no AWS answer makes the script index an empty DescribeStacks *)
(* output or dereference a nil Cluster.  It fails as soon as AWS throttles *)
(* a describe call: checkDeferError lets Throttling through (line 23) and  *)
(* resp.Stacks[0] (84, 104, 175, 192) or resp.Cluster.Status (142) panics. *)
(* Without throttling it is part of the inductive invariant of             *)
(* AwsTeardownProofs.                                                      *)
(***************************************************************************)
NeverPanics == pc # "panic"

(***************************************************************************)
(* ScriptEnds: every poll loop ends, so the script reaches its exit (or a *)
(* panic) whatever AWS answers.                                            *)
(***************************************************************************)
ScriptEnds == <>(pc \in {"done", "panic"})
=============================================================================
