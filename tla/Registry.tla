------------------------------ MODULE Registry ------------------------------
(***************************************************************************)
(* The Registry aggregate: one Resource with its editable draft, its       *)
(* validation summary, its published versions and its deployments, and     *)
(* the public commands on it.  Every command runs in one PostgreSQL        *)
(* transaction that locks the Resource row, so a command is one action.    *)
(* A client command carries an idempotency key and the Resource version    *)
(* the client last read; it may be delivered late, and more than once.     *)
(*                                                                         *)
(* Abstracted: documents are known by their canonical digest; permissions, *)
(* outbox back-pressure and Artifact readiness only refuse a command, and  *)
(* every command may be refused; events and outbox rows are written with   *)
(* the command and never read back here.                                   *)
(***************************************************************************)
EXTENDS Integers

CONSTANTS Documents,          \* draft documents
          NoDocument,         \* no validation summary
          Keys,               \* idempotency keys; they also name what a command creates
          NoId,               \* no active target
          IsAgent,            \* the Resource is an Agent
          TargetsDeployment,  \* activation_target() is a Deployment, not a Version
          MaxVersion          \* the Resource is not changed beyond this version

ASSUME RegistryAssumption ==
    /\ NoDocument \notin Documents
    /\ NoId \notin Keys
    /\ IsAgent \in BOOLEAN
    /\ TargetsDeployment \in BOOLEAN
    /\ IsAgent => TargetsDeployment
    /\ MaxVersion \in Nat

VARIABLES resource,     \* the Resource row
          published,    \* resource_versions rows
          deployments,  \* deployments rows
          receipts      \* succeeded command Receipts: <<operation, idempotency key>>

registryVars == <<resource, published, deployments, receipts>>

Lifecycle == {"absent", "active", "archived", "retired"}
Gate == {"enabled", "suspended"}
Operation == {"create", "update", "validate", "record", "publish", "deploy", "activate",
              "suspend", "transition", "gate"}

Resource == [version : Nat, document : Documents \cup {NoDocument},
             validation : Documents \cup {NoDocument}, lifecycle : Lifecycle,
             gate : Gate, active : Keys \cup {NoId}]
PublishedVersion == [id : Keys, document : Documents, validation : Documents]
Deployment == [id : Keys, version : Keys]

Absent == [version |-> 0, document |-> NoDocument, validation |-> NoDocument,
           lifecycle |-> "absent", gate |-> "enabled", active |-> NoId]

RegistryInit ==
    /\ resource = Absent
    /\ published = {}
    /\ deployments = {}
    /\ receipts = {}

-----------------------------------------------------------------------------
(* Receipts: a command whose (operation, key) is already claimed changes   *)
(* nothing, it is a replay or an idempotency conflict.                     *)

\* Mutant: a delivery is not checked against the Receipts.
receipt_unchecked(operation, key) == receipts' = receipts \cup {<<operation, key>>}

claim_command_receipt(operation, key) ==
    /\ <<operation, key>> \notin receipts
    /\ receipts' = receipts \cup {<<operation, key>>}

\* The row is locked at the version the client expects, and moves by one.
AtVersion(expected_version) ==
    /\ resource.lifecycle # "absent"
    /\ resource.version = expected_version
    /\ resource.version < MaxVersion

-----------------------------------------------------------------------------
(* Authoring.                                                              *)

create_resource_draft(key, document) ==
    /\ resource = Absent
    /\ claim_command_receipt("create", key)
    /\ resource' = [version |-> 1, document |-> document, validation |-> NoDocument,
                    lifecycle |-> "active", gate |-> "enabled", active |-> NoId]
    /\ UNCHANGED <<published, deployments>>

\* Mutant: the replacement keeps the validation summary of the old document.
update_keeps_validation(key, expected_version, document) ==
    /\ claim_command_receipt("update", key)
    /\ AtVersion(expected_version)
    /\ resource.lifecycle # "retired"
    /\ resource' = [resource EXCEPT !.document = document, !.version = expected_version + 1]
    /\ UNCHANGED <<published, deployments>>

\* A submitted draft carries no validation: replacing the document drops it.
update_resource_draft(key, expected_version, document) ==
    /\ claim_command_receipt("update", key)
    /\ AtVersion(expected_version)
    /\ resource.lifecycle # "retired"
    /\ resource' = [resource EXCEPT !.document = document,
                                    !.validation = NoDocument,
                                    !.version = expected_version + 1]
    /\ UNCHANGED <<published, deployments>>

\* Validation evidence submitted by an operator, never for an Agent.
record_resource_validation(key, expected_version, document) ==
    /\ ~IsAgent
    /\ claim_command_receipt("record", key)
    /\ AtVersion(expected_version)
    /\ resource.document = document
    /\ resource.lifecycle # "retired"
    /\ resource' = [resource EXCEPT !.validation = document,
                                    !.version = expected_version + 1]
    /\ UNCHANGED <<published, deployments>>

\* Mutant: any document may be published once some draft was validated.
publish_any_document(key, expected_version, document) ==
    /\ claim_command_receipt("publish", key)
    /\ AtVersion(expected_version)
    /\ resource.lifecycle = "active"
    /\ resource.validation # NoDocument
    /\ \A v \in published : v.id # key
    /\ published' = published \cup
          {[id |-> key, document |-> document, validation |-> resource.validation]}
    /\ resource' = [resource EXCEPT !.version = expected_version + 1]
    /\ UNCHANGED deployments

\* Only the validated draft is published, unchanged and with its summary.
publish_resource_versions(key, expected_version, document) ==
    /\ claim_command_receipt("publish", key)
    /\ AtVersion(expected_version)
    /\ resource.document = document
    /\ resource.lifecycle = "active"
    /\ resource.validation = document
    /\ \A v \in published : v.id # key
    /\ published' = published \cup
          {[id |-> key, document |-> document, validation |-> resource.validation]}
    /\ resource' = [resource EXCEPT !.version = expected_version + 1]
    /\ UNCHANGED deployments

-----------------------------------------------------------------------------
(* Deployment, activation and administrative control.                      *)

create_deployment(key, expected_version, version_id) ==
    /\ TargetsDeployment
    /\ claim_command_receipt("deploy", key)
    /\ AtVersion(expected_version)
    /\ resource.lifecycle = "active"
    /\ \E v \in published : v.id = version_id
    /\ \A d \in deployments : d.id # key
    /\ deployments' = deployments \cup {[id |-> key, version |-> version_id]}
    /\ resource' = [resource EXCEPT !.version = expected_version + 1]
    /\ UNCHANGED published

\* Mutant: the target's existence is not checked.
activation_target_unchecked(target) == target \in Keys

resolve_activation_target(target) ==
    IF TargetsDeployment
    THEN \E d \in deployments : d.id = target
    ELSE \E v \in published : v.id = target

\* Activating a deployment re-enables a suspended Resource.
activate_resource(key, expected_version, target) ==
    /\ claim_command_receipt("activate", key)
    /\ AtVersion(expected_version)
    /\ resource.lifecycle = "active"
    /\ TargetsDeployment \/ resource.gate = "enabled"
    /\ resolve_activation_target(target)
    /\ resource' = [resource EXCEPT !.active = target,
                                    !.gate = "enabled",
                                    !.version = expected_version + 1]
    /\ UNCHANGED <<published, deployments>>

suspend_resource_deployment(key, expected_version, target) ==
    /\ TargetsDeployment
    /\ claim_command_receipt("suspend", key)
    /\ AtVersion(expected_version)
    /\ resource.lifecycle = "active"
    /\ resource.gate = "enabled"
    /\ resource.active = target
    /\ resource' = [resource EXCEPT !.gate = "suspended", !.version = expected_version + 1]
    /\ UNCHANGED <<published, deployments>>

\* EntityLifecycle: archived comes back, retired does not.
LifecycleTransitions ==
    {<<"active", "archived">>, <<"active", "retired">>,
     <<"archived", "active">>, <<"archived", "retired">>}

transition_resource_lifecycle(key, expected_version, target) ==
    /\ claim_command_receipt("transition", key)
    /\ AtVersion(expected_version)
    /\ <<resource.lifecycle, target>> \in LifecycleTransitions
    /\ resource' = [resource EXCEPT !.lifecycle = target, !.version = expected_version + 1]
    /\ UNCHANGED <<published, deployments>>

\* The gate moves whatever the lifecycle, on a retired Resource too.
set_resource_gate(key, expected_version, target) ==
    /\ claim_command_receipt("gate", key)
    /\ AtVersion(expected_version)
    /\ resource.gate # target
    /\ resource' = [resource EXCEPT !.gate = target, !.version = expected_version + 1]
    /\ UNCHANGED <<published, deployments>>

\* A client delivers a command it decided on at some version it once read.
RegistryCommand ==
    \E key \in Keys :
        \/ \E document \in Documents : create_resource_draft(key, document)
        \/ \E expected_version \in 1..MaxVersion :
              \/ \E document \in Documents :
                    \/ update_resource_draft(key, expected_version, document)
                    \/ record_resource_validation(key, expected_version, document)
                    \/ publish_resource_versions(key, expected_version, document)
              \/ \E target \in Keys :
                    \/ create_deployment(key, expected_version, target)
                    \/ activate_resource(key, expected_version, target)
                    \/ suspend_resource_deployment(key, expected_version, target)
              \/ \E target \in Lifecycle :
                    transition_resource_lifecycle(key, expected_version, target)
              \/ \E target \in Gate : set_resource_gate(key, expected_version, target)
=============================================================================
