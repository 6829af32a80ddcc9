SPECIFICATION PartsSpec
CONSTANTS
    Parts = {"drafts", "graph", "writer", "links"}
    wiki = wiki  form = form  old = old  new = new  other = other
    Writers = {wiki, form}
    Forms = {form}
    Wordings = {old, new, other}
    Opening = old
    MaxID = 3
    MaxRevision = 2
    MaxQueue = 0
    MaxActs = 6
    one = one  two = two  people = people  places = places
    ann = ann  inn = inn  guest = guest  here = here
    Laid = Laid  Suggested = Suggested  Pushed = Pushed  Pan = Pan
    Tabs = {one, two}
    Views = {people, places}
    Cards = {ann, inn, guest}
    Core <- MCCore
    Addon <- MCAddon
    Hidden = {ann}
    Points = {here}
    MaxData = 2
    MaxMoves = 4
    alpha = alpha  beta = beta  gamma = gamma
    Words = {alpha, beta, gamma}
    Length = 2
    Queries = {"q1", "q2"}
    MaxEdits = 4
    spell = spell  armour = armour
    References = {spell, armour}
    Topics = {"t1", "t2"}
    Capacity = 1
    MaxEvents = 4
SYMMETRY Symmetry
 
PROPERTY CopiesAreKept
INVARIANT CanvasIsCurrent
PROPERTY ArrangementStands
INVARIANT WriterIsCurrent
PROPERTY AuthorsTextStands
INVARIANT LinksSettle
CHECK_DEADLOCK FALSE
