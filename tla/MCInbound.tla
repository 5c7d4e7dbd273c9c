----------------------------- MODULE MCInbound -----------------------------
(* Two people on Telegram, one of them allowed, one on Discord and one on      *)
(* WhatsApp, with rules that overlap.                                          *)
EXTENDS Inbound

MCTelegramMessage == [from : {"ann", "bob", None}, to : {"group"}]

MCDiscordMessage ==
    [from : {"dan"}, to : {"general"}, guild : {None, "home", "away"},
     bot : BOOLEAN, mentioned : BOOLEAN, content : BOOLEAN]

MCWhatsAppMessage ==
    [participant : {"eve"}, remoteJid : {"chat"}, fromMe : BOOLEAN,
     broadcast : BOOLEAN, content : BOOLEAN]

Rule(type, channel, user, agent, priority) ==
    [channelType |-> type, channelId |-> channel, userId |-> user,
     agentId |-> agent, priority |-> priority]

MCAgents == <<"first", "clerk", "aide", "guide">>

\* ann is matched by three rules, the most important of which comes last; a rule
\* more important still is kept for bob.
\* The two rules about dan are as important as each other.
MCRouting ==
    <<Rule("telegram", None, None, "clerk", 0),
      Rule("telegram", "group", None, "guide", 1),
      Rule("telegram", "group", <<"telegram", "ann">>, "aide", 5),
      Rule("telegram", "group", <<"telegram", "bob">>, "guide", 7),
      Rule("discord", "general", None, "guide", 1),
      Rule("discord", None, <<"discord", "dan">>, "aide", 1)>>
=============================================================================
