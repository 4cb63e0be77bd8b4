------------------------------ MODULE Channels ------------------------------
(***************************************************************************)
(* The tables channels and providers and the handlers that edit them.  A   *)
(* channel names its provider, and no foreign key ties the two tables: a   *)
(* provider can be deleted, or created anew with another type, under a     *)
(* channel that is bound to it.                                            *)
(***************************************************************************)
EXTENDS Naturals

CONSTANTS
  ChannelId,    \* ids of channels
  ProviderId,   \* ids of providers
  NoProvider,   \* a channel's empty provider_id
  Type,         \* the types in use, out of telegram, email, webhook
  MaxEdits      \* bound: requests that edit the tables

ASSUME ChannelsAssumption ==
  /\ NoProvider \notin ProviderId
  /\ Type \subseteq {"telegram", "email", "webhook"}
  /\ MaxEdits \in Nat

VARIABLES
  channels,    \* rows by id
  providers,   \* types by id, "none" for no row
  creating,    \* channels that POST /channels has validated and not yet inserted
  edits        \* how many requests there were

tableVars == <<channels, providers, creating, edits>>

ChannelRow == [type : Type \union {"none"}, provider : ProviderId \union {NoProvider}]
NoChannel == [type |-> "none", provider |-> NoProvider]

ChannelsTypeOK ==
  /\ channels \in [ChannelId -> ChannelRow]
  /\ providers \in [ProviderId -> Type \union {"none"}]
  /\ creating \subseteq [id : ChannelId, type : Type, provider : ProviderId \union {NoProvider}]
  /\ edits \in 0..MaxEdits

\* Any tables: whatever a channel is bound to, its provider may be gone or of
\* another type by now.
ChannelsInit ==
  /\ channels \in [ChannelId -> {row \in ChannelRow : row.type = "none" => row = NoChannel}]
  /\ providers \in [ProviderId -> Type \union {"none"}]
  /\ creating = {}
  /\ edits = 0

------------------------------------------------------------------------------

Edit == edits < MaxEdits /\ edits' = edits + 1

CreateProvider(p, t) ==
  /\ Edit /\ providers[p] = "none"
  /\ providers' = [providers EXCEPT ![p] = t]
  /\ UNCHANGED <<channels, creating>>

\* Channels bound to the provider are left as they are.
DeleteProvider(p) ==
  /\ Edit /\ providers[p] # "none"
  /\ providers' = [providers EXCEPT ![p] = "none"]
  /\ UNCHANGED <<channels, creating>>

\* createChannel checks the provider with one statement ...
CheckChannel(c, t, p) ==
  /\ Edit
  /\ p # NoProvider => providers[p] = t
  /\ creating' = creating \union {[id |-> c, type |-> t, provider |-> p]}
  /\ UNCHANGED <<channels, providers>>

\* ... and inserts the row with another, which refuses a taken id or may fail.
InsertChannel(new) ==
  /\ creating' = creating \ {new}
  /\ \/ /\ channels[new.id] = NoChannel
        /\ channels' = [channels EXCEPT ![new.id] =
                          [type |-> new.type, provider |-> new.provider]]
     \/ UNCHANGED channels
  /\ UNCHANGED <<providers, edits>>

DeleteChannel(c) ==
  /\ Edit /\ channels[c] # NoChannel
  /\ channels' = [channels EXCEPT ![c] = NoChannel]
  /\ UNCHANGED <<providers, creating>>

EditTables ==
  \/ \E p \in ProviderId : DeleteProvider(p) \/ \E t \in Type : CreateProvider(p, t)
  \/ \E c \in ChannelId :
       \/ DeleteChannel(c)
       \/ \E t \in Type, p \in ProviderId \union {NoProvider} : CheckChannel(c, t, p)
  \/ \E new \in creating : InsertChannel(new)
=============================================================================
