SPECIFICATION Spec
CONSTANTS
    None = None
    TelegramMessage <- MCTelegramMessage
    DiscordMessage <- MCDiscordMessage
    WhatsAppMessage <- MCWhatsAppMessage
    allowedUsers = {"ann"}
    allowedGuilds = {"home"}
    allowedChannels = {}
    routing <- MCRouting
    agents <- MCAgents
    maxPerMinute = 2
    Minute = 2
    MaxTime = 6
INVARIANTS
    TypeOK
    RouterBound
    RoutedByPriority
