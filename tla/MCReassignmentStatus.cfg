SPECIFICATION ServicesSpec
CONSTANTS
    tap = tap
    c1 = c1
    c2 = c2
    x1 = x1
    x2 = x2
    founder = founder
    campaign = campaign
    purchase = purchase
    batch = batch
    email = email
    person = person
    Campaigns = {campaign}
    Orgs = {x1, x2}
    Founders = {founder}
    FirstStatuses = {"APPROVED", "ACTIVE", "PROCESSING"}
    Desks = {c1, c2}
    OfferLife = 1
    MaxCancels = 1
    MaxJobErrors = 1
    Purchases = {purchase}
    Couriers = {x1, x2}
    Batches = {batch}
    Counters = {c1, c2}
    MaxProofs = 2
    MaxTasks = 2
    MaxBroken = 1
    Emails = {email}
    Forms = {c1, c2}
    CallTries = 3
    MaxSubs = 3
    MaxOutages = 4
    Persons = {person}
    StaffRoles = {"KITCHEN_STAFF"}
    Clerks = {c1, c2}
    MaxMembers = 2
    MaxFounded = 2
    SyncTries = 2
    MaxCognitoErrors = 2
    Fans = {x1, x2}
    Taps = {c1, c2}
    LikeLoops = 1
    LikeTries = 2
    MaxQueued = 2
    MaxLikeErrors = 2
    Recipients = {x1, x2}
    Emissions = {c1, c2}
    NotifyLoops = 1
    JobTries = 3
    MaxNotifyErrors = 2
    MaxForgets = 1
    Posters = {c1, c2}
    MAX_COMMENT_DEPTH = 2
    MaxComments = 3
    MaxEdits = 1
    MaxSkips = 1
    Gifts = {x1, x2}
    Worth <- WorthOne
    Milestones <- ThreeMilestones
    GiftCalls = {c1, c2}
    StatTries = 2
    AwardTries = 3
    MaxGiveUps = 3
    MaxByHand = 1
    MaxWrites = 3
    MaxTroubles = 1
PROPERTY
    RestoredToPrevious
SYMMETRY Symmetry
CHECK_DEADLOCK FALSE
