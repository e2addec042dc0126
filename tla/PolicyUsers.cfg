SPECIFICATION MCSpec
CONSTANTS
    company = company
    sales = sales
    nick = nick
    sub = sub
    id = id
    secret = secret
    alice = alice
    analyst = analyst
    guest = guest
    Derived = Derived
    Anywhere = Anywhere
    Star = Star
    Names = {company, sales, nick, sub}
    Tables = {company, sales}
    Columns = {id, secret}
    SchemaOf <- Schemas
    Principals <- Alice
    Policies <- SomePolicies
    Queries <- SomeQueries
    Guards <- SomeGuards
    Statements <- SomeStatements
    Alice_ = Alice_
    Analyst_ = Analyst_
    admin = admin
    auditor = auditor
    publish = publish
    local = local
    name1 = name1
    name2 = name2
    Odd = Odd
    Malformed = Malformed
    Absent = Absent
    Null = Null
    Run = Run
    RlsBypass = RlsBypass
    NoPolicy = NoPolicy
    NoOne = NoOne
    Wildcard = Star
    Version = 1
    Lower <- LowerCase
    Identifiers <- SomeIdentifiers
    NameLists <- SomeNameLists
    Resources <- SomeResources
    Control <- Controlling
    OfPrincipal <- FromPrincipal
    Documents <- SomeDocuments
    Settings <- SomeSettings
    Credentials <- SomeCredentials
    MaxDocuments = 2
INVARIANT NamedUserIsMatched
CHECK_DEADLOCK FALSE
