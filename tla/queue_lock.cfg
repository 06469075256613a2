\* The worker's poll and one heartbeat, and one submission.
SPECIFICATION Spec
CONSTANTS
    Coroutines = {poll, heartbeat}
    Poller = poll
    Submissions = {submit}
    WorkerLoop = WorkerLoop
    NoLoop = NoLoop
PROPERTIES
    WorkerKeepsPolling
CHECK_DEADLOCK FALSE
