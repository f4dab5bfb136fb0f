--------------------------- MODULE MCVkMessenger ---------------------------
EXTENDS VkMessenger, TLC

With(peer, live, alerts, summary, wall) ==
    [peer_id |-> peer, access_token |-> TRUE, live_enabled |-> live, alerts_enabled |-> alerts,
     summary_enabled |-> summary, wall_post_enabled |-> wall]

\* Everything that is told, to one chat; an old device without a chat, that has only a wall.
MCSettings ==
    {With(CHOOSE c \in Chats : TRUE, TRUE, TRUE, TRUE, TRUE), With(NoChat, FALSE, TRUE, FALSE, TRUE)}

\* Another chat, the chat of an old client, and the switch of the alerts.
MCBodies ==
    {"peer_id" :> c : c \in Chats} \cup {"alerts_peer_id" :> c : c \in Chats}
      \cup {"alerts_enabled" :> FALSE @@ "access_token" :> FALSE}

Bound(alerts, toggles, puts, ends) == [alerts |-> alerts, toggles |-> toggles, puts |-> puts, ends |-> ends]
MCLimits == {Bound(2, 1, 1, 0), Bound(2, 3, 0, 0), Bound(1, 1, 1, 1), Bound(0, 3, 0, 2)}
============================================================================
