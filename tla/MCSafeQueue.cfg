CONSTANTS
    p1 = p1
    p2 = p2
    c1 = c1
    c2 = c2
    Producers = {p1, p2}
    Consumers = {c1, c2}
    MaxSize = 2
    MaxTasks = 5
SPECIFICATION QueueFairSpec
INVARIANTS
    ConsumersNotified
    ProducersNotified
PROPERTY
    EveryTaskTaken
