--------------------------- MODULE ActionTaxonomy ---------------------------
(***************************************************************************)
(* The actions a packet gives rise to (lib/server/action-taxonomy.ts), and *)
(* what a transport makes of one (action-transport.ts, transports/): the   *)
(* executor of ActionExecutor reserves the first and calls the second.     *)
(*                                                                         *)
(* env is the set of environment variables that are set and not blank; an  *)
(* answer is what a provider's call came to.                               *)
(***************************************************************************)
EXTENDS PacketGraders

ActionTaxonomy ==
    LET Entry(reversibility, channel) == [reversibility |-> reversibility, channel |-> channel]
    IN  [ROLE_OWNER_ALERT |-> Entry("REVERSIBLE", "SLACK"),
         AUDIT_LOG |-> Entry("REVERSIBLE", "INTERNAL"),
         TICKET_DRAFT |-> Entry("REVERSIBLE", "TICKET"),
         SUPPLIER_EMAIL_SEND |-> Entry("IRREVERSIBLE", "EMAIL"),
         RFQ_DISPATCH |-> Entry("IRREVERSIBLE", "EMAIL"),
         ERP_CASE |-> Entry("IRREVERSIBLE", "N8N")]

SafeEventType(raw) == IF raw \in ThreatEventTypes THEN raw ELSE "OTHER_UNMAPPED"

\* Only what can be taken back may fire by itself.
ClassifyAction(actionType) ==
    [channel |-> ActionTaxonomy[actionType].channel,
     autoFireEligible |-> ActionTaxonomy[actionType].reversibility = "REVERSIBLE"]

Keyed(key, draft, class) ==
    [idempotencyKey |-> key, actionType |-> draft.actionType, digest |-> draft.digest,
     channel |-> class.channel, autoFireEligible |-> class.autoFireEligible]

\* (mutant) a key tells the packet and the type, not which of them
FinalizeActionOfType(packetId, draft) ==
    Keyed(<<packetId, draft.actionType>>, draft, ClassifyAction(draft.actionType))

\* The hash in a key stands for what is hashed: the type and the digest.
FinalizeAction(packetId, draft) ==
    Keyed(<<packetId, draft.actionType, draft.digest>>, draft, ClassifyAction(draft.actionType))

AuditLog(packetId, packet) ==
    [actionType |-> "AUDIT_LOG",
     digest |-> [packetId |-> packetId, recommendation |-> packet.recommendation]]

\* What is asked of the outside: the owner alerted, the items, the drafts.  Owners and
\* states of an item, and the channel of a draft, are literals of the Dispatcher.
OutboundDrafts(packetId, packet) ==
    {[actionType |-> "ROLE_OWNER_ALERT",
      digest |-> [packetId |-> packetId, eventType |-> SafeEventType(packet.card.eventType)]]}
    \cup {[actionType |-> "TICKET_DRAFT", digest |-> [actionItemId |-> i.id]] : i \in packet.items}
    \cup {[actionType |-> "SUPPLIER_EMAIL_SEND",
           digest |-> [messageId |-> m.supplier, supplierId |-> m.supplier]] : m \in packet.messages}

\* (mutant) a refusal still alerts the owner
DeriveAll(packetId, packet) ==
    {FinalizeAction(packetId, d) :
        d \in {AuditLog(packetId, packet)} \cup OutboundDrafts(packetId, packet)}

DeriveGovernableActions(packetId, packet) ==
    {FinalizeAction(packetId, d) :
        d \in {AuditLog(packetId, packet)}
              \cup IF packet.recommendation = "NO_ACTION" THEN {}
                   ELSE OutboundDrafts(packetId, packet)}

-----------------------------------------------------------------------------
(* Transports.                                                             *)

HeaderPair == {"N8N_ERP_WEBHOOK_HEADER_NAME", "N8N_ERP_WEBHOOK_HEADER_VALUE"}

\* (mutant) the webhook's URL alone wires it
WiredByUrl(env) ==
    (IF {"SLACK_BOT_TOKEN", "SLACK_ALERT_CHANNEL"} \subseteq env THEN {"SLACK"} ELSE {})
    \cup (IF {"RESEND_API_KEY", "RESEND_FROM_EMAIL", "RESEND_ALERT_EMAIL"} \subseteq env
          THEN {"EMAIL"} ELSE {})
    \cup (IF "N8N_ERP_WEBHOOK_URL" \in env THEN {"N8N"} ELSE {})

\* The channels a transport is registered for.
TransportRegistryFromEnv(env) ==
    (IF {"SLACK_BOT_TOKEN", "SLACK_ALERT_CHANNEL"} \subseteq env THEN {"SLACK"} ELSE {})
    \cup (IF {"RESEND_API_KEY", "RESEND_FROM_EMAIL", "RESEND_ALERT_EMAIL"} \subseteq env
          THEN {"EMAIL"} ELSE {})
    \cup (IF "N8N_ERP_WEBHOOK_URL" \in env /\ HeaderPair \cap env \in {{}, HeaderPair}
          THEN {"N8N"} ELSE {})

Throws == [transport |-> "none", delivered |-> FALSE]
NoopTransport == [transport |-> "noop", delivered |-> FALSE]

\* An answer's status is "none" when the call failed or ran out of time, headers or
\* body; its claim is the body's own word that all went well, and its ref the id given.
SlackAccepts(answer) == answer.status = "ok" /\ answer.claim /\ answer.ref
EmailAccepts(answer) == answer.status = "ok" /\ answer.ref
N8nAccepts(answer) == answer.status = "ok"

Accepts(channel, answer) ==
    \/ channel = "SLACK" /\ SlackAccepts(answer)
    \/ channel = "EMAIL" /\ EmailAccepts(answer)
    \/ channel = "N8N" /\ N8nAccepts(answer)

Deliver(channel, env, answer) ==
    IF channel \notin TransportRegistryFromEnv(env) THEN NoopTransport
    ELSE IF Accepts(channel, answer) THEN [transport |-> channel, delivered |-> TRUE]
    ELSE Throws
=============================================================================
