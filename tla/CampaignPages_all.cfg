SPECIFICATION Spec
CONSTANTS
    town = town  inn = inn  feast = feast  e1 = e1  e2 = e2  e3 = e3  v1 = v1
    i1 = i1  i2 = i2  r1 = r1  r2 = r2  world = world  west = west  east = east
    noPin = noPin  city = city  camp = camp  noItem = noItem  plain = plain  blue = blue
    Gone = gone
    Parts <- MCParts
    Stored <- MCStored
    MaxEdits <- MCMaxEdits
    Locations <- MCLocations
    MapEvents = {feast}
    Views = {v1}
    World = world
    Pins = {west, east}
    NoPin = noPin
    Types = {city, camp}
    EventSeq <- MCEventSeq
    MaxSession = 2
    Vocabulary = "vocabulary"
    Uses = {r1, r2}
    ByKey = FALSE
    Items = {i1, i2}
    Starter = {i1}
    NoItem = noItem
    Texts = {plain, blue}
    Plain = plain
    Form = "form"
    Extra = "extra"
    Styles = {"form", "changed", "pick"}
    Kinds = {"map", "timeline", "vocabulary", "form"}
PROPERTIES
    StoredAsSeen
    ReorderLands
    EditsEndSaved
