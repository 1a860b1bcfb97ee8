SPECIFICATION DiskSpec
CONSTANTS
    o1 = o1
    o2 = o2
    Ops = {o1, o2}
    NoOp = NoOp
    Absent = Absent
    MaxFaults = 2
    l1 = l1
    l2 = l2
    l3 = l3
    Leases = {l1, l2, l3}
    Sizes = {0, 1, 2}
    Floors = {0, 1}
    Capacity = 3
    MaxOutside = 1
    wav = wav
    webm = webm
    r1 = r1
    r2 = r2
    t1 = t1
    t2 = t2
    Uploads = {wav, webm}
    Compressed = {webm}
    Revisions = {r1, r2}
    Texts = {t1, t2}
    NoText = NoText
    MaxRaises = 2
    MaxDeaths = 1
    v1 = v1
    v2 = v2
    q1 = q1
    e1 = e1
    e2 = e2
    e3 = e3
    Voices = {v1, v2}
    Single = {v2}
    Profiles = {q1}
    Envelopes = {e1, e2, e3}
    PromptMost = 2
    StoreMost = 4
    MaxStarts = 2
    MaxEdits = 2
    p1 = p1
    p2 = p2
    g1 = g1
    Imports = {p1, p2, g1}
    Profiling = {p1, p2}
    OldProfile = OldProfile
    NoProfile = NoProfile
    ImportsMost = 2
    x1 = x1
    x2 = x2
    Exports = {x1, x2}
    theRow = theRow
    theWav = theWav
    theAvatar = theAvatar
    Rows = {theRow}
    Copies = {theWav, theAvatar}
    ExportsMost = 1
    MaxMishaps = 1
    MaxKills = 1
    MaxChanges = 2
INVARIANTS
    LedgerKeepsPromises
    RecordingsAccounted
    RefinedFitsRaw
    VoicesAreKept
    ImportsAreWhole
    ExportsAreSound
PROPERTIES
    InstallIsWhole
CHECK_DEADLOCK FALSE
