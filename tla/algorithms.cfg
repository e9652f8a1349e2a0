SPECIFICATION Spec
CONSTANTS
    NoAnswer = NoAnswer
    Cards <- MCCards
    Blocks <- MCBlocks
    Discoveries <- MCDiscoveries
    Catalogues <- MCCatalogues
    Conversations <- MCConversations
    Writings <- MCWritings
    Drafts <- MCDrafts
    Questions <- MCQuestions
    Replies <- MCReplies
    NewContacts <- MCNewContacts
    Searches <- MCSearches
    Fits <- MCFits
INVARIANTS
    PagesKeepTheirFields
    DiscoveryOnlyFills
    RatingAgreesWithPrices
    NewsCostsByAnalysisOnly
    AgentTextIsPermitted
    RouterTakesFirstProducts
    RequirementsAreAccounted
CHECK_DEADLOCK FALSE
